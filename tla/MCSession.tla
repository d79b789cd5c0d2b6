----------------------------- MODULE MCSession ------------------------------
(* A small session: a has two pages, b one, and they push one batch and two.*)
EXTENDS Session, TLC

CONSTANTS a, b, small, big, other, new    \* model values: the sides, four contents

MCDelta == (a :> <<{small}, {small, big}>>) @@ (b :> <<{other}>>)
MCHolds == (a :> {small, big}) @@ (b :> {other})
MCOwed == (a :> {}) @@ (b :> {big})
MCBatches == (a :> <<{small}>>) @@ (b :> <<{new}, {new, other}>>)

\* Two pages that inline the same small contents (see SettledIsAnswered).
MCTwice == (a :> <<{small, big}, {small, big}>>) @@ (b :> <<>>)
MCTwiceHolds == (a :> {small, big}) @@ (b :> {})
MCNoneOwed == (a :> {}) @@ (b :> {})
MCNoBatches == (a :> <<>>) @@ (b :> <<>>)
=============================================================================
