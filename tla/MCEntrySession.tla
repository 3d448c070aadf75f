--------------------------- MODULE MCEntrySession ---------------------------
(* Small instances of EntrySession for TLC. *)
EXTENDS EntrySession

Forward(again, wait) == [reverse |-> FALSE, reconnect |-> again, linger |-> wait]

\* A client's entry, one that ends with its session, one that waits for its connections,
\* and the reverse entry of a server.
MixedModes ==
    {Forward(TRUE, "timeout"), Forward(FALSE, "timeout"), Forward(TRUE, "forever"),
     [reverse |-> TRUE, reconnect |-> FALSE, linger |-> "none"]}
ClientMode == {Forward(TRUE, "none")}
=============================================================================
