----------------------------- MODULE TextField -----------------------------
(***************************************************************************)
(* What YaSh's line editor promises: a line of text with a cursor.  A key  *)
(* inserts where the cursor is, removes a stretch of text that begins or   *)
(* ends there, moves the cursor, or recalls a line of the history; a line  *)
(* is submitted with all of its text, wherever the cursor is, and the      *)
(* history keeps every line that was submitted, in order.                  *)
(***************************************************************************)
EXTENDS Integers, Sequences

VARIABLES text, cur, past

Left == SubSeq(text, 1, cur)
Right == SubSeq(text, cur + 1, Len(text))

Init == text = <<>> /\ cur = 0

Insert == /\ cur' >= cur /\ Len(text') - cur' = Len(text) - cur
          /\ SubSeq(text', 1, cur) = Left
          /\ SubSeq(text', cur' + 1, Len(text')) = Right
          /\ UNCHANGED past

CutLeft == /\ cur' \in 0 .. cur - 1
           /\ text' = SubSeq(text, 1, cur') \o Right
           /\ UNCHANGED past

CutRight == /\ \E n \in 1 .. Len(Right) : text' = Left \o SubSeq(Right, n + 1, Len(Right))
            /\ UNCHANGED <<cur, past>>

\* The word at the end of the left part, a space after it included, is replaced.
Complete == /\ \E word \in 0 .. cur - 1 :
                   /\ word = 0 \/ text[word] = " "
                   /\ \A i \in word + 1 .. cur - 1 : text[i] # " "
                   /\ cur' >= word /\ SubSeq(text', 1, word) = SubSeq(text, 1, word)
            /\ SubSeq(text', cur' + 1, Len(text')) = Right
            /\ UNCHANGED past

Move == cur' \in 0 .. Len(text) /\ UNCHANGED <<text, past>>

Recall == /\ \E i \in 1 .. Len(past) : text' = past[i]
          /\ cur' \in 0 .. Len(text')
          /\ UNCHANGED past

\* A reference into the history may complete the line that it submits.
Submit == /\ \/ past' = Append(past, text)
             \/ \E i \in 1 .. Len(past) : past' = Append(past, Left \o past[i] \o Right)
          /\ text' = <<>> /\ cur' = 0

Next == Insert \/ CutLeft \/ CutRight \/ Complete \/ Move \/ Recall \/ Submit

Spec == Init /\ [][Next]_<<text, cur, past>>
=============================================================================
