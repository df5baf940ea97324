------------------------------ MODULE TsStream ------------------------------
(***************************************************************************)
(* What a program that calls the writers of src/bin/ts_write.hh relies on: *)
(* the calls are served one at a time, in the order they are made, and a   *)
(* call appends to the stream exactly the payload it was given, cut into   *)
(* 188-byte packets of its own PID whose continuity counter is one more    *)
(* than that of the PID's previous packet.  Nothing is said of how the     *)
(* payload is cut nor of the stuffing.                                     *)
(***************************************************************************)
EXTENDS TsPacket, Sequences

CONSTANT
  Start     \* Start[s]: the counter of the first packet of stream s

VARIABLES
  calls,    \* the calls made so far, each a record with a stream and a size
  out       \* the packets written so far

vars == <<calls, out>>

\* The payload of call u is written to its last byte.
Complete(u) ==
  \E i \in 1..Len(out) : out[i].unit = u /\ out[i].to = calls[u].size

AllComplete == \A u \in 1..Len(calls) : Complete(u)

\* Packet i is the latest one on PID pid.
IsLatest(i, pid) ==
  /\ out[i].pid = pid
  /\ \A j \in i+1..Len(out) : out[j].pid # pid

\* The packet p continues the counter of its stream s.
Continues(p, s) ==
  IF \E i \in 1..Len(out) : out[i].pid = Pid(s)
    THEN \E i \in 1..Len(out) :
           IsLatest(i, Pid(s)) /\ p.cc = (out[i].cc + 1) % 16
    ELSE p.cc = Start[s]

\* The packet p carries the first bytes of call u, or the bytes that follow
\* those of the previous packet.
Follows(p, u) ==
  IF \E i \in 1..Len(out) : out[i].unit = u
    THEN /\ out[Len(out)].unit = u
         /\ ~p.pusi
         /\ p.from = out[Len(out)].to
         /\ p.to > p.from
    ELSE p.pusi /\ p.from = 0

Init == calls = <<>> /\ out = <<>>

\* A call is made once the previous ones are served.
Submit ==
  /\ AllComplete
  /\ Len(calls') = Len(calls) + 1
  /\ calls'[Len(calls')].stream \in Streams
  /\ calls' = Append(calls, calls'[Len(calls')])
  /\ UNCHANGED out

\* One packet of the call being served.
Emit ==
  /\ Len(out') = Len(out) + 1
  /\ LET p == out'[Len(out')]
         u == Len(calls)
     IN  /\ out' = Append(out, p)
         /\ u > 0 /\ ~Complete(u)
         /\ p.unit = u
         /\ p.pid = Pid(calls[u].stream)
         /\ p.length = SIZE
         /\ Continues(p, calls[u].stream)
         /\ Follows(p, u)
         /\ p.to <= calls[u].size
  /\ UNCHANGED calls

\* The program and program-map tables, between two calls.
Tables ==
  /\ AllComplete
  /\ Len(out') = Len(out) + 2
  /\ LET pat == out'[Len(out) + 1]
         pmt == out'[Len(out) + 2]
     IN  /\ out' = out \o <<pat, pmt>>
         /\ pat.pid = PAT_PID /\ pmt.pid = PMT_PID
         /\ \A p \in {pat, pmt} : p.unit = 0 /\ p.pusi /\ p.length = SIZE
  /\ UNCHANGED calls

Next == Submit \/ Emit \/ Tables

Spec == Init /\ [][Next]_vars
=============================================================================
