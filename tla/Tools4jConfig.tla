---------------------------- MODULE Tools4jConfig ----------------------------
(***************************************************************************)
(* The Config factory of tools4j-config-services.js, the client app.js    *)
(* loads: every operation is one $http call against the base path, and   *)
(* the paginate operations wrap it in a $q deferred.                      *)
(***************************************************************************)
CONSTANT UNDEF

LOCAL H == INSTANCE Http

baseUrl == "/tools4j-config-admin"

createConfig(className, bean) ==
    H!post(<< baseUrl, "/create" >>, [className |-> className, bean |-> bean])

setConfig(className, bean) ==
    H!post(<< baseUrl, "/set" >>, [className |-> className, bean |-> bean])

listConfig(className) == H!get(<< baseUrl, "/list/", className >>)

getConfig(className, id) == H!get(<< baseUrl, "/get/", className, "/", id >>)

getConfigs(className, ids) ==
    H!http("GET", << baseUrl, "/get/", className >>, [id |-> ids], H!NoHeaders, UNDEF)

paginateConfig(className, start, max, prop, schema, id) ==
    H!deferred(H!http("GET", << baseUrl, "/paginate/", className >>,
                      [first |-> start, max |-> max, prop |-> prop,
                       schema |-> schema, id |-> id],
                      H!NoHeaders, UNDEF))

deleteConfig(className, id) ==
    H!http("DELETE", << baseUrl, "/delete/", className, "/", id >>,
           H!NoParams, H!JsonContent, UNDEF)

getSchemas == H!http("GET", << baseUrl, "/getschemas" >>, H!NoParams, H!NoHeaders, UNDEF)

createBean(bean) == H!post(<< baseUrl, "/createbean" >>, bean)

deleteBean(schemaName, id) ==
    H!http("DELETE", << baseUrl, "/deletebean/", schemaName, "/", id >>,
           H!NoParams, H!JsonContent, UNDEF)

getBean(schemaName, id) == H!get(<< baseUrl, "/getbean/", schemaName, "/", id >>)

listBeans(schemaName) == H!get(<< baseUrl, "/listbeans/", schemaName >>)

paginateBeans(schemaName, start, max) ==
    H!deferred(H!http("GET", << baseUrl, "/paginatebeans/", schemaName >>,
                      [first |-> start, max |-> max], H!NoHeaders, UNDEF))

setBean(bean) == H!post(<< baseUrl, "/setbean" >>, bean)

(* The object the factory returns, each operation applied to the          *)
(* arguments a of the same names.                                          *)
Config(a) ==
    [createConfig |-> createConfig(a.className, a.bean),
     setConfig |-> setConfig(a.className, a.bean),
     listConfig |-> listConfig(a.className),
     getConfig |-> getConfig(a.className, a.id),
     getConfigs |-> getConfigs(a.className, a.ids),
     paginateConfig |-> paginateConfig(a.className, a.start, a.max, a.prop,
                                       a.schema, a.id),
     deleteConfig |-> deleteConfig(a.className, a.id),
     getSchemas |-> getSchemas,
     createBean |-> createBean(a.bean),
     deleteBean |-> deleteBean(a.schemaName, a.id),
     getBean |-> getBean(a.schemaName, a.id),
     listBeans |-> listBeans(a.schemaName),
     paginateBeans |-> paginateBeans(a.schemaName, a.start, a.max),
     setBean |-> setBean(a.bean)]
=============================================================================
