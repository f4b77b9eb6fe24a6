------------------------------- MODULE IeShiv -------------------------------
(***************************************************************************)
(* The IE shiv of js-3pp/angular-ui-ieshiv.js: for every directive name   *)
(* in its tag list (and window.myCustomTags), toCustomElements turns the  *)
(* camelCase name into four element names and the loop calls              *)
(* document.createElement on each, which is what lets old IE parse those  *)
(* elements.  A name is a sequence of one-character strings.              *)
(***************************************************************************)
EXTENDS Sequences, SequencesExt

CONSTANT LowerOf   \* String.toLowerCase on the capital letters: [Upper -> lower]

IsUpper(c) == c \in DOMAIN LowerOf

(* Mutation: the replacement lower-cases the capital but adds no space.   *)
dashedNoSpace(str) ==
    [i \in 1..Len(str) |-> IF IsUpper(str[i]) THEN LowerOf[str[i]] ELSE str[i]]

(* str.replace(/([A-Z])/g, $1 => " " + $1.toLowerCase()).                 *)
dashed(str) ==
    FlattenSeq([i \in 1..Len(str) |->
                   IF IsUpper(str[i]) THEN << " ", LowerOf[str[i]] >>
                   ELSE << str[i] >>])

(* s.split(sep): the pieces between separators, "" giving [""].           *)
RECURSIVE SplitFrom(_, _, _, _)
SplitFrom(s, sep, cur, toks) ==
    IF s = << >> THEN Append(toks, cur)
    ELSE IF Head(s) = sep THEN SplitFrom(Tail(s), sep, << >>, Append(toks, cur))
    ELSE SplitFrom(Tail(s), sep, Append(cur, Head(s)), toks)
split(s, sep) == SplitFrom(s, sep, << >>, << >>)

(* toks.join(sep).                                                        *)
join(toks, sep) ==
    FlattenSeq([i \in 1..Len(toks) |->
                   IF i = 1 THEN toks[i] ELSE << sep >> \o toks[i]])

(* toCustomElements(str): ns is the first word, dirname the others joined *)
(* by '-'; the names ns:dirname, ns-dirname, x-ns-dirname, data-ns-dirname.*)
toCustomElements(str) ==
    LET tokens == split(dashed(str), " ")
        ns == tokens[1]
        dirname == join(SubSeq(tokens, 2, Len(tokens)), "-")
    IN  << ns \o << ":" >> \o dirname,
           ns \o << "-" >> \o dirname,
           << "x", "-" >> \o ns \o << "-" >> \o dirname,
           << "d", "a", "t", "a", "-" >> \o ns \o << "-" >> \o dirname >>

(* The loop over tags: the element names passed to document.createElement.*)
shiv(tags) ==
    UNION {ToSet(toCustomElements(tags[i])) : i \in DOMAIN tags}
=============================================================================
