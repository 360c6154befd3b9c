------------------------------ MODULE ScopeGlob ------------------------------
(***************************************************************************)
(* The scope globs of the Gate (v3/internal/gate/glob.go): which strings   *)
(* are repository paths, which are patterns, and when a pattern matches a  *)
(* path.  A string is a sequence of characters, a character a one-letter   *)
(* string; CharOrder gives the order in which a bracket class compares     *)
(* them.                                                                   *)
(*                                                                         *)
(* The code matches by an index walk with backtracking over the whole      *)
(* string.  Denotes, further down, says what a pattern means component by  *)
(* component; MatchesMeaning states that the two agree.                    *)
(***************************************************************************)
EXTENDS Integers, Sequences, FiniteSets, SequencesExt

CONSTANT CharOrder      \* a sequence of the characters, in the order of their code points

CodePoint(c) == CHOOSE i \in DOMAIN CharOrder : CharOrder[i] = c

------------------------------------------------------------------------------
(* Paths and patterns *)

Components(s) ==
    LET upTo[i \in 0..Len(s)] ==
          IF i = 0 THEN <<<< >>>>
          ELSE LET parts == upTo[i - 1]
               IN  IF s[i] = "/" THEN Append(parts, << >>)
                   ELSE [parts EXCEPT ![Len(parts)] = Append(@, s[i])]
    IN  upTo[Len(s)]

PlainComponent(c) == c \notin {<< >>, <<".">>, <<".", ".">>}

(* A path starts and ends with a name and has no empty, "." or ".." part;  *)
(* the tests on a leading, trailing or double slash are that of the parts. *)
validRepoPath(s) == s # << >> /\ \A c \in ToSet(Components(s)) : PlainComponent(c)

Negations == {"!", "^"}

(* Where the class opened at start ends, 0 when it is not closed or empty. *)
classEnd(pattern, start) ==
    LET negated == start + 1 <= Len(pattern) /\ pattern[start + 1] \in Negations
        first   == IF negated THEN start + 2 ELSE start + 1
        member  == first <= Len(pattern) /\ pattern[first] = "]"
        from    == IF member THEN first + 1 ELSE first
        closers == {i \in from..Len(pattern) : pattern[i] = "]"}
    IN  IF closers = {} \/ (CHOOSE i \in closers : \A j \in closers : i <= j) = first
          THEN 0
          ELSE CHOOSE i \in closers : \A j \in closers : i <= j

(* The scan for classes jumps from a class's opening to its end.           *)
RECURSIVE ClassesClosed(_, _)
ClassesClosed(pattern, i) ==
    IF i > Len(pattern) THEN TRUE
    ELSE IF pattern[i] # "[" THEN ClassesClosed(pattern, i + 1)
    ELSE classEnd(pattern, i) # 0 /\ ClassesClosed(pattern, classEnd(pattern, i) + 1)

compileGlob(pattern) ==
    /\ pattern # << >>
    /\ pattern[1] # "!"
    /\ \A c \in ToSet(Components(pattern)) : PlainComponent(c)
    /\ ClassesClosed(pattern, 1)

------------------------------------------------------------------------------
(* Matching, as the code does it *)

(* The members of a class body from index on: x-y is a range unless it     *)
(* would end the body.                                                     *)
RECURSIVE ClassFinds(_, _, _)
ClassFinds(body, index, c) ==
    IF index > Len(body) THEN FALSE
    ELSE IF index + 2 <= Len(body) /\ body[index + 1] = "-" /\ body[index + 2] # "]"
      THEN \/ CodePoint(body[index]) <= CodePoint(c) /\ CodePoint(c) <= CodePoint(body[index + 2])
           \/ ClassFinds(body, index + 3, c)
    ELSE body[index] = c \/ ClassFinds(body, index + 1, c)

classMatches(class, c) ==
    LET negated == class # << >> /\ class[1] \in Negations
        body    == IF negated THEN Tail(class) ELSE class
        leading == body # << >> /\ body[1] = "]"
        found   == IF leading THEN c = "]" \/ ClassFinds(Tail(body), 1, c)
                              ELSE ClassFinds(body, 1, c)
    IN  class # << >> /\ found # negated

doubleStarComponent(pattern, start, end) ==
    /\ start = 1 \/ pattern[start - 1] = "/"
    /\ end > Len(pattern) \/ pattern[end] = "/"

(* The first position after the stars that begin at p.                     *)
StarEnd(pattern, p) ==
    CHOOSE e \in (p + 1)..(Len(pattern) + 1) :
        /\ \A i \in p..(e - 1) : pattern[i] = "*"
        /\ e > Len(pattern) \/ pattern[e] # "*"

RECURSIVE walk(_, _, _, _)
walk(pattern, value, p, v) ==
    IF p > Len(pattern) THEN v > Len(value)
    ELSE IF pattern[p] = "*" THEN
      LET e == StarEnd(pattern, p)
          double == e - p >= 2 /\ doubleStarComponent(pattern, p, e)
      IN  IF double /\ e <= Len(pattern)          \* "**/": whole components, or none
            THEN \/ walk(pattern, value, e + 1, v)
                 \/ \E n \in v..Len(value) : value[n] = "/" /\ walk(pattern, value, e + 1, n + 1)
          ELSE IF double                           \* a closing "**": anything
            THEN \E n \in v..(Len(value) + 1) : walk(pattern, value, e, n)
          ELSE \E n \in v..(Len(value) + 1) :     \* "*": up to the next slash
                  /\ \A i \in v..(n - 1) : value[i] # "/"
                  /\ walk(pattern, value, e, n)
    ELSE IF v > Len(value) THEN FALSE
    ELSE IF pattern[p] = "?"
      THEN value[v] # "/" /\ walk(pattern, value, p + 1, v + 1)
    ELSE IF pattern[p] = "["
      THEN LET e == classEnd(pattern, p)
           IN  /\ e # 0 /\ value[v] # "/"
               /\ classMatches(SubSeq(pattern, p + 1, e - 1), value[v])
               /\ walk(pattern, value, e + 1, v + 1)
    ELSE pattern[p] = value[v] /\ walk(pattern, value, p + 1, v + 1)

matchGlob(pattern, value) ==
    validRepoPath(value) /\ compileGlob(pattern) /\ walk(pattern, value, 1, 1)

------------------------------------------------------------------------------
(* What a pattern means *)

(* The characters a class stands for: the single members and the ranges.   *)
ClassDenotes(class) ==
    LET negated == class[1] \in Negations
        body    == IF negated THEN Tail(class) ELSE class
        rest    == IF body[1] = "]" THEN Tail(body) ELSE body
        range[i \in Int] ==          \* a range starts where no earlier range covers it
            /\ i >= 1 /\ i + 2 <= Len(rest) /\ rest[i + 1] = "-"
            /\ ~range[i - 2] /\ ~range[i - 1]
        starts  == {i \in DOMAIN rest : range[i]}
        ranged  == UNION {{i, i + 1, i + 2} : i \in starts}
        members == (IF body[1] = "]" THEN {"]"} ELSE {})
                   \cup {rest[i] : i \in DOMAIN rest \ ranged}
                   \cup {c \in ToSet(CharOrder) : \E i \in starts :
                            CodePoint(rest[i]) <= CodePoint(c) /\ CodePoint(c) <= CodePoint(rest[i + 2])}
    IN  IF negated THEN ToSet(CharOrder) \ members ELSE members

(* One component of a pattern against one of a path, from the right end.   *)
RECURSIVE PartDenotes(_, _)
PartDenotes(p, c) ==
    IF p = << >> THEN c = << >>
    ELSE IF p[1] = "*"
      THEN PartDenotes(Tail(p), c) \/ (c # << >> /\ PartDenotes(p, Tail(c)))
    ELSE IF c = << >> THEN FALSE
    ELSE IF p[1] = "?" THEN PartDenotes(Tail(p), Tail(c))
    ELSE IF p[1] = "["
      THEN LET e == classEnd(p, 1)
           IN  c[1] \in ClassDenotes(SubSeq(p, 2, e - 1)) /\ PartDenotes(SubSeq(p, e + 1, Len(p)), Tail(c))
    ELSE p[1] = c[1] /\ PartDenotes(Tail(p), Tail(c))

AllStars(part) == Len(part) >= 2 /\ \A i \in DOMAIN part : part[i] = "*"

RECURSIVE Denotes(_, _)
Denotes(parts, comps) ==
    IF parts = << >> THEN comps = << >>
    ELSE IF AllStars(parts[1])
      THEN IF Len(parts) = 1 THEN comps # << >>
           ELSE \E n \in 0..Len(comps) : Denotes(Tail(parts), SubSeq(comps, n + 1, Len(comps)))
    ELSE comps # << >> /\ PartDenotes(parts[1], comps[1]) /\ Denotes(Tail(parts), Tail(comps))

(* A pattern whose classes hold no slash matches a path exactly when its   *)
(* components, a component of two or more stars standing for any number of *)
(* components (at least one at the end), match those of the path.          *)
MatchesMeaning(pattern, value) ==
    (compileGlob(pattern) /\ validRepoPath(value)) =>
        (matchGlob(pattern, value) <=> Denotes(Components(pattern), Components(value)))

==============================================================================
