------------------------------ MODULE FifoServers ------------------------------
(***************************************************************************)
(* What the vertices of the network promise the jobs that visit them: each *)
(* is one server with one line, and a job leaves the head of a line it     *)
(* entered at the tail.  The end of the simulation drops every line.       *)
(***************************************************************************)
EXTENDS Naturals, Sequences

CONSTANT Vertices   \* the servers

VARIABLE line       \* for each server, the jobs it holds, next to leave first

Empty == [v \in Vertices |-> <<>>]

\* Some job joins the line of v: the last one it holds afterwards.
Join(v) == /\ line'[v] # <<>>
           /\ LET job == line'[v][Len(line'[v])]
              IN  line' = [line EXCEPT ![v] = Append(@, job)]

Leave(v) == /\ line[v] # <<>>
            /\ line' = [line EXCEPT ![v] = Tail(@)]

Close == line' = Empty

FifoNext == \/ \E v \in Vertices : Leave(v) \/ Join(v)
            \/ Close

FifoSpec == line = Empty /\ [][FifoNext]_line
================================================================================
