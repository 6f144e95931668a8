---------------------------- MODULE DebugChannel ----------------------------
(***************************************************************************)
(* observability/logger.rs: the bounded channel over which the one         *)
(* simulation thread tells its events (events/event.rs) to a thread that   *)
(* prints them.  The events a step emits are collected in the outbox: the  *)
(* thread does nothing else until it has sent them, and waits when the     *)
(* channel is full.  The channel closes when nobody holds a sender, and    *)
(* the logger ends when it is closed and empty.                            *)
(***************************************************************************)
EXTENDS Naturals, Sequences

CONSTANT ChannelCapacity

ASSUME ChannelAssumption == ChannelCapacity \in Nat \ {0}

VARIABLES
  outbox,      \* events the simulation thread is still sending, in order
  queue,       \* events in the channel
  printed,     \* what the logger has written to stderr
  senders,     \* who holds an EventSender: "main", "runner"
  logger       \* "none", "running", "ended", or "killed" with the process

channelVars == <<outbox, queue, printed, senders, logger>>

(* init_debug_channel, if there is anything to tell *)
ChannelInit(wanted) ==
  /\ outbox = <<>>
  /\ queue = <<>>
  /\ printed = <<>>
  /\ senders = IF wanted THEN {"main"} ELSE {}
  /\ logger = IF wanted THEN "running" ELSE "none"

(* Bug shape: what the channel has no room for is dropped. *)
EmitIfRoom(by, events) ==
  outbox' = IF by \in senders /\ Len(queue) + Len(events) <= ChannelCapacity
            THEN outbox \o events ELSE outbox

Emit(by, events) == outbox' = IF by \in senders THEN outbox \o events ELSE outbox

(* tx.send: the simulation thread waits while the channel is full. *)
SendEvent ==
  /\ outbox # <<>>
  /\ Len(queue) < ChannelCapacity
  /\ queue' = Append(queue, Head(outbox))
  /\ outbox' = Tail(outbox)
  /\ UNCHANGED <<printed, senders, logger>>

PrintEvent ==
  /\ logger = "running"
  /\ queue # <<>>
  /\ printed' = Append(printed, Head(queue))
  /\ queue' = Tail(queue)
  /\ UNCHANGED <<outbox, senders, logger>>

LoggerEnds ==
  /\ logger = "running"
  /\ queue = <<>>
  /\ senders = {}
  /\ logger' = "ended"
  /\ UNCHANGED <<outbox, queue, printed, senders>>

(* The process exits with the logger still running. *)
LoggerDies == logger' = IF logger = "running" THEN "killed" ELSE logger

(* Everything that was ever emitted, in order. *)
Told == printed \o queue \o outbox
=============================================================================
