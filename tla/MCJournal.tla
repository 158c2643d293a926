----------------------------- MODULE MCJournal -----------------------------
(* Small instances of the forward journal. *)
EXTENDS Journal

CONSTANTS public, broker, gold, incumbent

\* A quiet bar, one that reaches the rule's target, one that reaches everything.
Quiet == [high |-> 10, low |-> 10]
Up    == [high |-> 13, low |-> 10]
Wide  == [high |-> 13, low |-> 8]

FewRanges == [s \in Series |-> IF s = public THEN {Wide} ELSE {Quiet, Up}]
AllLong == [y \in Symbols |-> [t \in Slots |-> 1]]
NoKeys == {}

\* A row the unrepaired resolver closed on the wrong bars, and the next one.
Wrong == {[strategy |-> incumbent, arm |-> "rule", series |-> broker, symbol |-> gold, at |-> 1]}
Watch == Wrong \cup {[strategy |-> incumbent, arm |-> "rule", series |-> broker,
                     symbol |-> gold, at |-> 2]}
=============================================================================
