----------------------------- MODULE MCTimeline -----------------------------
EXTENDS Timeline
Text == [kind |-> "text", of |-> 0]
Silent == [kind |-> "silent", of |-> 0]
EditOf(t) == [kind |-> "edit", of |-> t]
HideOf(t) == [kind |-> "hide", of |-> t]
MCHistory == <<Text, Text, Silent, Text, EditOf(2), HideOf(2), Text, Text>>
MCOwn == {8}
MCTargets == {2}
=============================================================================
