------------------------------ MODULE MakeText ------------------------------
(***************************************************************************)
(* The rewriting of one line of a Makefile (src/canonicalizer.cpp): what   *)
(* $(wildcard ...) and $(shell ls ...) give is put in order, so that it    *)
(* does not depend on the order a directory happens to be stored in.       *)
(*                                                                         *)
(* A line is a sequence of tokens: "$(", "(", ")", " " for white space,    *)
(* "| sort" for that text, and words.                                      *)
(***************************************************************************)
EXTENDS Naturals, Sequences, FiniteSets, SequencesExt, FiniteSetsExt

CONSTANTS
    Tokens,
    LsWords         \* the words that begin with the letters ls

Blank == " "
Texts == Seq(Tokens)

ASSUME TokensAssumption ==
    {"$(", "(", ")", Blank, "| sort", "sort", "wildcard", "shell"} \cup LsWords \subseteq Tokens

(* Everything from the k-th token on, and everything before it. *)
From(s, k) == SubSeq(s, k, Len(s))
Before(s, k) == SubSeq(s, 1, k - 1)

(* The first position of the token t in s at k or after it; 0 if none. *)
FindFrom(s, t, k) ==
    LET at == {i \in k..Len(s) : s[i] = t} IN IF at = {} THEN 0 ELSE Min(at)

-----------------------------------------------------------------------------
(* The matching ")" of the "$(" at p: the first place at which as many     *)
(* expressions have been closed as were opened.  A "(" alone opens none.   *)
FindMatchingParen(s, p) ==
    LET ends == {k \in p..Len(s) : Cardinality({i \in p..k : s[i] = "$("})
                                   = Cardinality({i \in p..k : s[i] = ")"})}
    IN  IF ends = {} THEN 0 ELSE Min(ends)

(* trim_copy *)
TrimCopy(s) ==
    LET text == {i \in 1..Len(s) : s[i] # Blank}
    IN  IF text = {} THEN <<>> ELSE SubSeq(s, Min(text), Max(text))

(* The inside of an expression: the function's name, which ends at the     *)
(* first white space after it, and the rest; white space before it goes.   *)
SplitAfterBlank(inner) ==
    LET space == FindFrom(inner, Blank, 1)
    IN  IF space = 0 THEN [fn |-> inner, args |-> <<>>]
        ELSE [fn |-> Before(inner, space), args |-> From(inner, space + 1)]
SplitMakeFunc(inner) ==
    LET text  == {i \in 1..Len(inner) : inner[i] # Blank}
        start == IF text = {} THEN Len(inner) + 1 ELSE Min(text)
        space == FindFrom(inner, Blank, start)
        pos   == IF space = 0 THEN Len(inner) + 1 ELSE space
    IN  [fn |-> SubSeq(inner, start, pos - 1), args |-> From(inner, pos)]

WrapAlways(args, parent) ==
    <<"$(", "sort", Blank, "$(", "wildcard">> \o args \o <<")", ")">>
MaybeWrapWildcardWithSort(args, parent) ==
    IF parent = <<"sort">>
    THEN <<"$(", "wildcard">> \o args \o <<")">>
    ELSE <<"$(", "sort", Blank, "$(", "wildcard">> \o args \o <<")", ")">>

StartsWithLs(s) == s # <<>> /\ s[1] \in LsWords

MaybeSortShellLs(args) ==
    IF StartsWithLs(TrimCopy(args)) /\ FindFrom(args, "| sort", 1) = 0
    THEN <<"$(", "shell">> \o args \o <<Blank, "| sort", ")">>
    ELSE <<"$(", "shell">> \o args \o <<")">>

(* The arguments first, with this function as their parent, then itself.   *)
CanonicalizeMakeExpr(inner, parent, within) ==
    LET split == SplitMakeFunc(inner)
        args  == within[split.args][split.fn]
    IN  CASE split.fn = <<"wildcard">> -> MaybeWrapWildcardWithSort(args, parent)
          [] split.fn = <<"shell">>    -> MaybeSortShellLs(args)
          [] OTHER                     -> <<"$(">> \o split.fn \o args \o <<")">>

(* One expression after the other; from one that is not closed, or when    *)
(* there are no more, the text stays as it is.  What is shorter, arguments *)
(* or the text that follows, is canonicalized `within' first.              *)
CanonicalizeOnce(text, parent, within) ==
    LET pos == FindFrom(text, "$(", 1)
        end == IF pos = 0 THEN 0 ELSE FindMatchingParen(text, pos)
    IN  IF end = 0
        THEN text
        ELSE Before(text, pos)
             \o CanonicalizeMakeExpr(SubSeq(text, pos + 1, end - 1), parent, within)
             \o within[From(text, end + 1)][parent]

(* What becomes of texts of up to n tokens. *)
CanonicalizedUpTo[n \in Nat] ==
    IF n = 0 THEN [t \in Texts |-> [p \in Texts |-> t]]
    ELSE [t \in Texts |-> [p \in Texts |-> CanonicalizeOnce(t, p, CanonicalizedUpTo[n - 1])]]

CanonicalizeMakeText(text, parent) == CanonicalizedUpTo[Len(text)][text][parent]

(* Canonicalizer::apply with the default rules; no parent at the top.      *)
Canonical(line) == CanonicalizeMakeText(line, <<>>)

-----------------------------------------------------------------------------
(* What the rewriting is for, defined without it.                          *)

Opens(s) == {p \in 1..Len(s) : s[p] = "$("}
Match(s, p) == FindMatchingParen(s, p)
Around(s, p) == {q \in Opens(s) : q < p /\ (Match(s, q) = 0 \/ Match(s, q) > p)}
Inside(s, p) == SplitMakeFunc(SubSeq(s, p + 1, Match(s, p) - 1))

(* p is an expression, in the arguments of expressions all the way out.    *)
(* Make takes a computed name, $(x$(y) z), for that of a function too, but *)
(* none of its own functions has such a name.                              *)
Evaluated(s, p) ==
    /\ Match(s, p) # 0
    /\ \A q \in Around(s, p) :
        /\ Match(s, q) # 0
        /\ \E b \in q..p : s[b] = Blank /\ \E i \in q+1..b : s[i] # Blank

Function(s, p) == IF p = 0 THEN <<>> ELSE Inside(s, p).fn
Parent(s, p) == IF Around(s, p) = {} THEN 0 ELSE Max(Around(s, p))

(* The tokens of an expression's arguments that are in no inner one.       *)
OwnTokens(args) ==
    {args[i] : i \in {k \in 1..Len(args) :
                        ~\E q \in Opens(args) : q <= k /\ k <= Match(args, q)}}

ListingsSorted(s) ==
    \A p \in Opens(s) : Evaluated(s, p) =>
        /\ Function(s, p) = <<"wildcard">> => Function(s, Parent(s, p)) = <<"sort">>
        /\ Function(s, p) = <<"shell">> /\ StartsWithLs(TrimCopy(Inside(s, p).args))
           => "| sort" \in OwnTokens(Inside(s, p).args)

Without(s, gone) ==
    LET keep == SelectSeq([i \in 1..Len(s) |-> i], LAMBDA i : i \notin gone)
    IN  [k \in 1..Len(keep) |-> s[keep[k]]]

(* The white space after a "$(" means nothing to make. *)
Unindented(s) ==
    Without(s, {i \in 1..Len(s) : \E j \in 1..i-1 :
                  s[j] = "$(" /\ \A k \in j+1..i : s[k] = Blank})

(* A line with its sorting taken out: "$(sort " directly around a wildcard *)
(* and the ")" of it, and " | sort" at the end of an expression.           *)
Unsorted(line) ==
    LET s     == Unindented(line)
        sorts == {p \in Opens(s) :
                    /\ p + 4 <= Len(s) /\ Match(s, p) # 0
                    /\ SubSeq(s, p, p + 4) = <<"$(", "sort", Blank, "$(", "wildcard">>
                    /\ Match(s, p) = Match(s, p + 3) + 1}
        pipes == {i \in 1..Len(s) : /\ i + 2 <= Len(s)
                                    /\ SubSeq(s, i, i + 2) = <<Blank, "| sort", ")">>}
    IN  Without(s, UNION {{p, p + 1, p + 2, Match(s, p)} : p \in sorts}
                   \cup UNION {{i, i + 1} : i \in pipes})
=============================================================================
