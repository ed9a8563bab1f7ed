----------------------------- MODULE EventLoop ------------------------------
(***************************************************************************)
(* The event loop (libsponge/util/eventloop.cc).  wait_next_event() goes   *)
(* over its rules twice: before poll(2), to drop the rules whose file      *)
(* descriptor is at its end and to ask the others whether they are         *)
(* interested, and after it, to call back the ones that were ready at the  *)
(* time of the poll.  w is the state the callbacks act on; an entry is a   *)
(* rule together with its pollfd.                                          *)
(*                                                                         *)
(* Three ways out of wait_next_event() are left out.  A callback that      *)
(* leaves its file descriptor alone makes it throw: every callback here    *)
(* reads or writes it.  An error on a descriptor (POLLERR, POLLNVAL) makes *)
(* it throw, which ends the process: the descriptors here have none while  *)
(* both threads run, but standard output has one when its reader goes away.*)
(* A signal that is caught during poll(2) makes it return Result::Exit: no *)
(* program here catches one.                                               *)
(***************************************************************************)
EXTENDS Basics, Sequences

CONSTANTS Direction(_),      \* "In" or "Out"
          FdEof(_, _),       \* FdEof(w, rule): has a read of the rule's fd returned nothing?
          FdClosed(_, _),
          Interest(_, _),
          Callback(_, _),    \* the state after the rule's callback
          Cancel(_, _),
          Ready(_, _),       \* does poll(2) report the direction the rule waits for?
          HungUp(_, _)       \* does poll(2) report POLLHUP?

\* Before poll(2): interest is asked in the state that earlier cancellations leave.
Setup(w, rules) ==
  FoldOver(LAMBDA s, r :
             IF (Direction(r) = "In" /\ FdEof(s.w, r)) \/ FdClosed(s.w, r)
             THEN [s EXCEPT !.w = Cancel(@, r)]
             ELSE [s EXCEPT !.polled = Append(@, [rule |-> r, events |-> Interest(s.w, r)])],
           [w |-> w, polled |-> <<>>], rules)

\* No rule is interested: wait_next_event() returns Result::Exit.
NothingToPoll(polled) == \A i \in DOMAIN polled : ~polled[i].events

\* poll(2): a rule that is not interested is still told of a hangup.
Revents(w, polled) ==
  [i \in DOMAIN polled |->
     [rule |-> polled[i].rule, events |-> polled[i].events,
      ready |-> polled[i].events /\ Ready(w, polled[i].rule),
      hup |-> HungUp(w, polled[i].rule)]]

PollReturns(w, polled) ==
  \E i \in DOMAIN polled : HungUp(w, polled[i].rule) \/ (polled[i].events /\ Ready(w, polled[i].rule))

\* After poll(2), for one entry: is the rule defunct?
Defunct(entry) == entry.hup /\ entry.events /\ ~entry.ready

\* Is there anything to do for the entry?
Concerned(entry) == entry.ready \/ Defunct(entry)

Handle(w, entry) ==
  IF Defunct(entry) THEN Cancel(w, entry.rule)
  ELSE IF entry.ready THEN Callback(w, entry.rule) ELSE w
=============================================================================
