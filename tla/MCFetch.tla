------------------------------- MODULE MCFetch -------------------------------
(* One request, and the next one started from its callback. *)
EXTENDS Fetch

TwoRequests == 1 .. 2

Plain == [NoJob EXCEPT !.cap = 1]
SomeJobs ==
    {Plain,
     [NoJob EXCEPT !.ranged = TRUE, !.file = TRUE, !.cap = 2, !.idle = TRUE],
     [Plain EXCEPT !.method = "HEAD"],
     [Plain EXCEPT !.method = "POST", !.upload = 1]}

Answer(status, coding, length) ==
    [status |-> status, coding |-> coding, length |-> length, location |-> "none",
     interim |-> FALSE]

SomeReplies ==
    {Answer(200, "length", 1), Answer(200, "both", 1),
     Answer(206, "close", 2), Answer(206, "length", 2), Answer(206, "chunked", 1),
     [Answer(204, "close", 0) EXCEPT !.interim = TRUE], Answer(404, "length", 1)}
      \cup {[Answer(302, "length", 1) EXCEPT !.location = l] : l \in Locations}
=============================================================================
