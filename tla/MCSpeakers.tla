----------------------------- MODULE MCSpeakers -----------------------------
(* Meetings of Speakers for TLC, in ticks of 500 ms: two lines, the second *)
(* after a pause or at once.                                               *)
EXTENDS Speakers

MCUtterances == {<<[from |-> 0, to |-> 1, glued |-> FALSE]>>}

Row(from, to, who) == [from |-> from, to |-> to, who |-> who]
MCMeetings ==
    {<<Row(0, end, "A"), Row(end + pause, end + pause + 8, "B")>> : end \in 1..12, pause \in 0..12}

\* A has been named, B not yet.
MCNameOf == [who \in {"A", "B"} |-> IF who = "A" THEN <<"Budi", "Santoso">> ELSE <<>>]
MCFirstPerson == {<<"saya">>}

=============================================================================
