--------------------------------- MODULE Wire ---------------------------------
(***************************************************************************)
(* What the client puts in a request and where the server looks for it.    *)
(* Both sides overlay the payload with struct app_hdr: a message of        *)
(* MAXBUFSIZE characters, then the type, the leader shard and the rest.    *)
(* Each side has its own MAXBUFSIZE.  An I/O lcore of the server picks the *)
(* worker by the byte at pos_lb, and the worker drops what names another.  *)
(*                                                                         *)
(* Only the fields that decide anything are modelled; what the server      *)
(* reads behind the end of a request is whatever the mbuf last held.       *)
(***************************************************************************)
EXTENDS LoadBalance

CONSTANTS
  NumWorkers,               \* workers of the client and of the server
  ClientText, ServerText,   \* MAXBUFSIZE of the two
  Positions,                \* values of --pos-lb, up to 63
  Bytes,                    \* values of a byte
  Stale                     \* values of a field read behind the end

Workers == 0..(NumWorkers - 1)

VARIABLES
  pos,       \* pos_lb
  common,    \* the byte at pos, the same in all requests unless it is a checksum's
  sent,      \* leaders that were named in requests
  inbox,     \* inbox[w]: leaders named in the requests worker w has before it
  asleep,    \* workers that wait for a transaction_done that nobody sets
  picked,    \* history: <<leader, worker>> of the requests that came
  executed   \* history: <<leader, worker>> of those that were executed

vars == <<pos, common, sent, inbox, asleep, picked, executed>>

\* Offsets from the start of the frame: Ethernet, IPv4 and UDP headers, text.
HeadersLen      == 14 + 20 + 8
Checksum        == {40, 41}
MsgTypeAt(text) == HeadersLen + text
LeaderAt(text)  == MsgTypeAt(text) + 2
FrameLen        == LeaderAt(ClientText) + 4

\* What a reader finds in the two bytes at off of a request that names l.
Found(l, off) == CASE off = MsgTypeAt(ClientText) -> {0}
                   [] off = LeaderAt(ClientText)  -> {l}
                   [] off >= FrameLen             -> Stale

Init == /\ pos \in Positions /\ common \in Bytes
        /\ sent = {} /\ asleep = {} /\ picked = {} /\ executed = {}
        /\ inbox = [w \in Workers |-> {}]

\* prepare_paxos_message for a request of client worker l.
Send(l) == /\ l \notin sent /\ sent' = sent \cup {l}
           /\ UNCHANGED <<pos, common, inbox, asleep, picked, executed>>

\* data[pos_lb] & (n_workers - 1)
Pick(l) == {WorkerFor(b, NumWorkers) : b \in IF pos \in Checksum THEN Bytes ELSE {common}}

Arrive(l) ==
  /\ l \in sent /\ \A w \in Workers : <<l, w>> \notin picked
  /\ \E w \in Pick(l) : /\ inbox' = [inbox EXCEPT ![w] = @ \cup {l}]
                        /\ picked' = picked \cup {<<l, w>>}
  /\ UNCHANGED <<pos, common, sent, asleep, executed>>

\* handle_db_message.  A client sends type 0 only, but the type is among what is
\* read: with type 1 the worker sleeps for good as soon as there is a worker
\* other than the leader (see ShardServer!LockOthers), and any other type is dropped.
Handle(w) ==
  /\ w \notin asleep
  /\ \E l \in inbox[w] :
       \E msgtype \in Found(l, MsgTypeAt(ServerText)), leader \in Found(l, LeaderAt(ServerText)) :
         LET sleeps == msgtype = 1 /\ Workers # {leader}
             runs   == msgtype \in {0, 1} /\ ~sleeps /\ leader = w
         IN  /\ inbox'    = [inbox EXCEPT ![w] = @ \ {l}]
             /\ asleep'   = IF sleeps THEN asleep \cup {w} ELSE asleep
             /\ executed' = IF runs THEN executed \cup {<<l, w>>} ELSE executed
  /\ UNCHANGED <<pos, common, sent, picked>>

Next == \/ \E l \in Workers : Send(l) \/ Arrive(l)
        \/ \E w \in Workers : Handle(w)

Spec == Init /\ [][Next]_vars

-----------------------------------------------------------------------------
\* A request is executed by the shard it names, if it is executed at all: the
\* reason for the test of the leader in server.c:95.
NamedShardOnly == \A x \in executed : x[1] = x[2]
=============================================================================
