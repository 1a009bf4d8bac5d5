------------------------------ MODULE Template ------------------------------
(***************************************************************************)
(* DeliveryMessageBuilder.BuildMessage with a template (src/automation.go):*)
(* one pass of stringsReplaceAll per placeholder, each a loop that finds   *)
(* the next occurrence, copies what precedes it and the replacement, and   *)
(* goes on with what follows.  Texts are sequences of abstract letters.    *)
(***************************************************************************)
EXTENDS Integers, FiniteSets, Sequences, SequencesExt

CONSTANTS
  Letter,       \* the letters a seller's template may hold
  MaxLength,    \* bound on the template's length
  Passes        \* <<[old |-> placeholder, new |-> value], ...>>

ParametersOK ==
  /\ MaxLength \in Nat
  /\ Letter \subseteq STRING
  /\ Passes \in Seq([old : Seq(STRING) \ {<<>>}, new : Seq(STRING)])

VARIABLES
  template,   \* the text this pass started with
  pass,       \* the pass under way, Len(Passes) + 1 when all are done
  s, result   \* the variables of stringsReplaceAll

vars == <<template, pass, s, result>>

Old == Passes[pass].old
New == Passes[pass].new
Done == pass > Len(Passes)

\* Reference: all occurrences replaced, from the left.
Replaced[text \in Seq(STRING)] ==
  CASE text = <<>>         -> <<>>
    [] IsPrefix(Old, text) -> New \o Replaced[SubSeq(text, Len(Old) + 1, Len(text))]
    [] OTHER               -> <<Head(text)>> \o Replaced[Tail(text)]

Occurrences(text) ==
  {i \in 1 .. Len(text) : i + Len(Old) - 1 <= Len(text) /\ SubSeq(text, i, i + Len(Old) - 1) = Old}

TypeOK ==
  /\ pass \in 1 .. Len(Passes) + 1
  /\ Len(s) <= Len(template)
  /\ ~Done => \A k \in DOMAIN s : s[k] = template[Len(template) - Len(s) + k]

Init ==
  /\ template \in UNION {[1 .. n -> Letter] : n \in 0 .. MaxLength}
  /\ pass = 1
  /\ s = template
  /\ result = <<>>

-----------------------------------------------------------------------------
(* Mutated forms of the definitions below.                                  *)

FoundShort(i) == i + Len(Old) < Len(s) /\ SubSeq(s, i + 1, i + Len(Old)) = Old
EndsEmpty(i, rest) == rest = <<>>
CopiedBare(i) == result \o New

-----------------------------------------------------------------------------
(* Helpers.  Positions i count from 0, as in the code.                      *)

\* The inner loop: where it stops, past the last place Old fits if nowhere.
Found(i) == i + Len(Old) <= Len(s) /\ SubSeq(s, i + 1, i + Len(Old)) = Old
Stop ==
  IF \E i \in 0 .. Len(s) : Found(i)
  THEN CHOOSE i \in 0 .. Len(s) : Found(i) /\ \A j \in 0 .. i - 1 : ~Found(j)
  ELSE IF Len(s) < Len(Old) THEN 0 ELSE Len(s) - Len(Old) + 1

Rest(i) == SubSeq(s, i + Len(Old) + 1, Len(s))

Copied(i) == result \o SubSeq(s, 1, i) \o New

\* The check after the inner loop, meant for "nothing found": after a
\* replacement it compares the old position with the shortened text.
Ends(i, rest) == i + Len(Old) > Len(rest)

-----------------------------------------------------------------------------
(* Actions.                                                                 *)

\* The pass returns; the next one starts on its result.
Return(text) ==
  /\ pass' = pass + 1
  /\ template' = text
  /\ s' = text
  /\ result' = <<>>

Turn ==
  /\ ~Done
  /\ LET i    == Stop
         rest == IF Found(i) THEN Rest(i) ELSE s
         res  == IF Found(i) THEN Copied(i) ELSE result
     IN IF Ends(i, rest)
        THEN Return(res \o rest)
        ELSE s' = rest /\ result' = res /\ UNCHANGED <<template, pass>>

\* The message is built; the next one has another template.
Next == Turn \/ (Done /\ UNCHANGED vars)

Spec == Init /\ [][Next]_vars

FairSpec == Spec /\ WF_vars(Turn)

-----------------------------------------------------------------------------
(* Properties.                                                              *)

\* Loop invariant: what is done is right, and nothing is lost or doubled -
\* replacing the rest as well would give the text with all replaced.
NothingGarbled == ~Done => result \o Replaced[s] = Replaced[template]

\* A placeholder that occurs once is replaced: so a pass that leaves one
\* behind had two.
OnceReplaced ==
  [][pass' = pass + 1 /\ Cardinality(Occurrences(template)) <= 1
       => template' = Replaced[template]]_vars

\* The loop ends, whatever the template.
Terminates == <>Done

\* stringsReplaceAll replaces all: the template of the test
\* (goldenpay_test.go:457) with a placeholder used twice keeps none.
AllReplaced == [][pass' = pass + 1 => template' = Replaced[template]]_vars

=============================================================================
