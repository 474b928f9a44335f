------------------------------ MODULE UserFeed ------------------------------
(***************************************************************************)
(* The connection of the user stream in full: Streams.runUser with its     *)
(* listen key, the keepalive of the key and the two ways to lose the       *)
(* events, composed with the rest of the daemon.                           *)
(*                                                                         *)
(* ChaseService says of the connection only that it breaks and comes back  *)
(* (Disconnect, Reconnect).  Here runUser asks for a key, dials, reads     *)
(* until the connection ends and starts over, while the key may expire     *)
(* under an open connection, which then stays silent.                      *)
(***************************************************************************)
EXTENDS ChaseProperties

VARIABLES
  feed,     \* what runUser does next: ask for a key, dial, or read
  link,     \* is its websocket open
  keyLive   \* does the exchange still honour the listen key

feedVars == <<feed, link, keyLive>>
fullVars == <<vars, feedVars>>

\* Events reach the daemon over an open connection of a live key.
Hears == feed = "read" /\ link /\ keyLive

\* As ChaseService, with a connection that has just been made.
FeedInit ==
  /\ Init
  /\ feed = "read" /\ link = TRUE /\ keyLive = TRUE

-----------------------------------------------------------------------------
(* runUser                                                                 *)

\* StartListenKey; while it fails runUser sleeps and asks again.
StartListenKey ==
  /\ feed = "key"
  /\ feed' = "dial" /\ keyLive' = TRUE
  /\ UNCHANGED <<vars, link>>

\* From here on the exchange sends; readUser is called.
DialOk ==
  /\ feed = "dial"
  /\ feed' = "read" /\ link' = TRUE /\ connected' = TRUE
  /\ UNCHANGED <<memory, index, ids, proc, held, work, audit, disk, orders,
                 position, stream, counts, keyLive>>

DialGivesUp ==   \* mutant: runUser returns when the dial fails
  /\ feed = "dial" /\ feed' = "over"
  /\ UNCHANGED <<vars, link, keyLive>>

\* The keepalive is cancelled, and the next round asks for a key again.
DialFails ==
  /\ feed = "dial" /\ feed' = "key"
  /\ UNCHANGED <<vars, link, keyLive>>

ReadEndsEarly ==   \* mutant: events already received are handled later
  /\ feed = "read" /\ ~link
  /\ feed' = "key"
  /\ UNCHANGED <<vars, link, keyLive>>

\* ReadMessage fails once every event that arrived was handled; the keepalive
\* is cancelled, the connection closed, and the loop starts over.
ReadEnds ==
  /\ feed = "read" /\ ~link
  /\ At(User, "idle") /\ stream = <<>>
  /\ feed' = "key"
  /\ UNCHANGED <<vars, link, keyLive>>

-----------------------------------------------------------------------------
(* What happens to the connection and its key (external)                   *)

\* The network breaks: only a part of what was sent still arrives.
LinkBreaks ==
  /\ Hears /\ drops < MaxDrops
  /\ link' = FALSE /\ connected' = FALSE /\ drops' = drops + 1
  /\ \E n \in 0..Len(stream) : stream' = SubSeq(stream, 1, n)
  /\ UNCHANGED <<memory, index, ids, proc, held, work, audit, disk, orders,
                 position, cancels, expiries, crashes, feed, keyLive>>

\* A keepalive fails, which is only logged, and the key expires before the
\* next one half an hour later.  The connection stays open and silent: the
\* notice of it is not an order event, and readUser skips it.
KeyExpires ==
  /\ Hears /\ drops < MaxDrops
  /\ keyLive' = FALSE /\ connected' = FALSE /\ drops' = drops + 1
  /\ UNCHANGED <<memory, index, ids, proc, held, work, audit, disk, orders,
                 position, stream, cancels, expiries, crashes, feed, link>>

\* The exchange closes a connection whose key is gone, sooner or later.
SilentLinkCloses ==
  /\ link /\ ~keyLive
  /\ link' = FALSE
  /\ UNCHANGED <<vars, feed, keyLive>>

-----------------------------------------------------------------------------
(* The whole                                                               *)

Connection ==
  \/ StartListenKey
  \/ DialOk
  \/ DialFails
  \/ ReadEnds
  \/ LinkBreaks
  \/ KeyExpires
  \/ SilentLinkCloses

\* One run of the daemon: ChaseService has the crashes.
FeedNext ==
  \/ Work /\ UNCHANGED feedVars
  \/ Connection

\* runUser retries for ever, and one of its calls gets through in the end;
\* the exchange closes silent connections.
FeedFairness ==
  /\ WF_fullVars(StartListenKey)
  /\ SF_fullVars(DialOk)
  /\ WF_fullVars(ReadEnds)
  /\ WF_fullVars(SilentLinkCloses)

FeedSpec ==
  FeedInit /\ [][FeedNext]_fullVars /\ WorkFairness /\ FeedFairness

-----------------------------------------------------------------------------
(* Properties *)

\* The daemon as ChaseService has it, connected when runUser hears.
Chase == INSTANCE ChaseService WITH connected <- Hears

\* Everything the other modules say of a daemon whose connection just breaks
\* and comes back holds with the listen key, its expiry and runUser's loop:
\* no event is handled twice or out of order across two connections, and none
\* of an old connection after a new one was made.
ImplementsChase == Chase!Spec

\* However the events stop, with an open connection or without one, runUser
\* is connected again in the end (runUser, keepalive, readUser).
HearsAgain == ~Hears ~> Hears
=============================================================================
