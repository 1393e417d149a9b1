------------------------------ MODULE TcpProxy ------------------------------
(***************************************************************************)
(* Raw TCP connections of one session of the agent                         *)
(* (agent/controller/tcp.go, with processTCPCloseConnection and            *)
(* sessionCleanup of agent.go).                                            *)
(*                                                                         *)
(* The loop of Run handles the client's packets one at a time; every       *)
(* connection it dials gets a goroutine that writes the first packet,      *)
(* copies what the server sends, and removes the connection's entry from   *)
(* connStore, by key, when it ends.  The loop and the goroutines share     *)
(* connStore and the net.Conns; each access is an action.                  *)
(*                                                                         *)
(* The packets of a connection id are numbered in the order the client     *)
(* sent them; that is the order the loop receives them in.                 *)
(***************************************************************************)
EXTENDS Naturals, Sequences

CONSTANTS
    Keys,        \* the client connection ids of the session
    PrefixOf,    \* PrefixOf[k]: the connection ids that start with k
    NoopFirst,   \* ids whose first packet carries the connect key (a no-op)
    None,        \* no entry
    MaxDials,    \* bound on connections dialled
    MaxWrites    \* bound on packets per connection id

ASSUME TcpAssumption ==
    /\ PrefixOf \in [Keys -> SUBSET Keys]
    /\ \A k \in Keys : k \in PrefixOf[k]
    /\ NoopFirst \subseteq Keys
    /\ MaxDials \in Nat /\ MaxWrites \in Nat
    /\ None \notin Nat

VARIABLES
    store,    \* store[k]: the connection connStore holds for k, or None
    conns,    \* the connections dialled so far, in order
    sent,     \* sent[k]: packets of connection id k handled so far
    over      \* the client has closed the session and sends nothing more

vars == <<store, conns, sent, over>>

\* A connection: its id; the packet the goroutine has to write first (0 if
\* none); where the goroutine is; the socket; a Close started by
\* sessionCleanup but not done yet; the packets written to the server.  What
\* io.Copy forwards to the client changes none of this and is left out.
Connection ==
    [key : Keys, first : 0..MaxWrites,
     pc : {"first", "copy", "close", "del", "done"},
     sock : {"open", "eof", "reset", "closed"}, closing : BOOLEAN,
     got : Seq(1..MaxWrites)]

TypeOK ==
    /\ store \in [Keys -> 1..MaxDials \cup {None}]
    /\ conns \in Seq(Connection) /\ Len(conns) <= MaxDials
    /\ \A k \in Keys : store[k] # None => store[k] \in DOMAIN conns
    /\ sent \in [Keys -> 0..MaxWrites]
    /\ over \in BOOLEAN

Init ==
    /\ store = [k \in Keys |-> None]
    /\ conns = << >>
    /\ sent = [k \in Keys |-> 0]
    /\ over = FALSE

-----------------------------------------------------------------------------
(* processTCPWriteServer *)

Receive(k) ==
    /\ ~over
    /\ sent[k] < MaxWrites
    /\ sent' = [sent EXCEPT ![k] = @ + 1]
    /\ UNCHANGED over

\* Mutant of WriteStored: packets overtake each other.
WriteStoredAhead(k) ==
    /\ Receive(k)
    /\ store[k] # None
    /\ conns[store[k]].sock \in {"open", "eof"}
    /\ conns' = [conns EXCEPT ![store[k]].got = <<sent[k] + 1>> \o @]
    /\ UNCHANGED store

\* tcpServer.Write of the stored connection.  A socket the server has closed
\* takes data or fails; one that was reset or closed fails, and is closed.
WriteStored(k) ==
    /\ Receive(k)
    /\ store[k] # None
    /\ LET n == store[k] IN
         \/ /\ conns[n].sock \in {"open", "eof"}
            /\ conns' = [conns EXCEPT ![n].got = Append(@, sent[k] + 1)]
         \/ /\ conns[n].sock # "open"
            /\ conns' = [conns EXCEPT ![n].sock = "closed"]
    /\ UNCHANGED store

NewConnection(k) ==
    [key |-> k, first |-> IF k \in NoopFirst /\ sent[k] = 0 THEN 0 ELSE sent[k] + 1,
     pc |-> "first", sock |-> "open", closing |-> FALSE, got |-> << >>]

\* Mutant of DialAndStore: the loop writes the packet and the goroutine too.
DialAndWrite(k) ==
    /\ Receive(k)
    /\ store[k] = None
    /\ Len(conns) < MaxDials
    /\ conns' = Append(conns, [NewConnection(k) EXCEPT !.got = <<sent[k] + 1>>])
    /\ store' = [store EXCEPT ![k] = Len(conns) + 1]

\* Mutant of DialAndStore: the entry is the one before.
DialAndStorePrevious(k) ==
    /\ Receive(k)
    /\ store[k] = None
    /\ Len(conns) < MaxDials
    /\ conns' = Append(conns, NewConnection(k))
    /\ store' = [store EXCEPT ![k] = Len(conns)]

\* There is no stored connection: one is dialled and stored, and its goroutine
\* started with the packet.
DialAndStore(k) ==
    /\ Receive(k)
    /\ store[k] = None
    /\ Len(conns) < MaxDials
    /\ conns' = Append(conns, NewConnection(k))
    /\ store' = [store EXCEPT ![k] = Len(conns) + 1]

\* The session has no parameters, they do not parse, or the dial fails: the
\* packet is dropped and the client is sent a SessionClose.
RefuseWrite(k) ==
    /\ Receive(k)
    /\ store[k] = None
    /\ UNCHANGED <<store, conns>>

-----------------------------------------------------------------------------
(* The goroutine of connection n *)

At(n, pc) == conns[n].pc = pc
Step(n, pc) == conns' = [conns EXCEPT ![n].pc = pc]

\* tcpServer.Write of the first packet; the connect key is a no-op packet.
WriteFirst(n) ==
    /\ At(n, "first")
    /\ \/ conns[n].first = 0 /\ Step(n, "copy")
       \/ /\ conns[n].first # 0 /\ conns[n].sock \in {"open", "eof"}
          /\ conns' = [conns EXCEPT ![n].pc = "copy",
                                    ![n].got = Append(@, conns[n].first)]
       \/ conns[n].first # 0 /\ conns[n].sock # "open" /\ Step(n, "close")
    /\ UNCHANGED <<store, sent, over>>

\* io.Copy returns.  The end of the server's data is not an error to it, so
\* nothing is sent to the client then.
CopyEnds(n) ==
    /\ At(n, "copy")
    /\ \/ conns[n].sock = "eof" /\ Step(n, "del")
       \/ conns[n].sock \in {"reset", "closed"} /\ Step(n, "close")
    /\ UNCHANGED <<store, sent, over>>

\* sendClientTCPConnectionClose
SendTCPConnectionClose(n) ==
    /\ At(n, "close")
    /\ Step(n, "del")
    /\ UNCHANGED <<store, sent, over>>

\* The deferred connStore.Del(key): whatever is stored under the key.
DelEntry(n) ==
    /\ At(n, "del")
    /\ store' = [store EXCEPT ![conns[n].key] = None]
    /\ Step(n, "done")
    /\ UNCHANGED <<sent, over>>

-----------------------------------------------------------------------------
(* Closing *)

Matching(k) == {store[j] : j \in PrefixOf[k]} \ {None}

\* Mutant of ProcessTCPCloseConnection: entries are deleted but not closed.
ProcessTCPCloseDeletes(k) ==
    /\ ~over
    /\ Matching(k) # {}
    /\ store' = [j \in Keys |-> IF j \in PrefixOf[k] THEN None ELSE store[j]]
    /\ UNCHANGED <<conns, sent, over>>

\* processTCPCloseConnection: entries are selected by prefix, deleted and
\* closed before the handler returns.
ProcessTCPCloseConnection(k) ==
    /\ ~over
    /\ Matching(k) # {}
    /\ conns' = [n \in DOMAIN conns |->
                   IF n \in Matching(k) THEN [conns[n] EXCEPT !.sock = "closed"]
                                        ELSE conns[n]]
    /\ store' = [j \in Keys |-> IF j \in PrefixOf[k] THEN None ELSE store[j]]
    /\ UNCHANGED <<sent, over>>

Stored == {store[k] : k \in Keys} \ {None}

\* Mutant of SessionCleanup: entries are deleted but not closed.
SessionCleanupDeletes ==
    /\ ~over
    /\ over' = TRUE
    /\ store' = [k \in Keys |-> None]
    /\ UNCHANGED <<conns, sent>>

\* sessionCleanup: every entry is deleted, and closed by a goroutine.
SessionCleanup ==
    /\ ~over
    /\ over' = TRUE
    /\ conns' = [n \in DOMAIN conns |->
                   IF n \in Stored THEN [conns[n] EXCEPT !.closing = TRUE]
                                   ELSE conns[n]]
    /\ store' = [k \in Keys |-> None]
    /\ UNCHANGED sent

CloseLater(n) ==
    /\ conns[n].closing
    /\ conns' = [conns EXCEPT ![n].closing = FALSE, ![n].sock = "closed"]
    /\ UNCHANGED <<store, sent, over>>

\* The server closes or resets the connection.
ServerEnds(n) ==
    /\ conns[n].sock \in {"open", "eof"}
    /\ \E how \in {"eof", "reset"} : conns' = [conns EXCEPT ![n].sock = how]
    /\ UNCHANGED <<store, sent, over>>

-----------------------------------------------------------------------------
Loop == \/ \E k \in Keys : \/ WriteStored(k) \/ DialAndStore(k) \/ RefuseWrite(k)
                           \/ ProcessTCPCloseConnection(k)
        \/ SessionCleanup

\* Steps of the goroutine that wait for others: for the server to take a packet,
\* or for room in the agent's stream, which every Send inside io.Copy and
\* sendClientTCPConnectionClose needs.
Writes(n) == WriteFirst(n) \/ CopyEnds(n) \/ SendTCPConnectionClose(n)

Goroutine(n) == Writes(n) \/ DelEntry(n)

Next ==
    \/ Loop
    \/ \E n \in DOMAIN conns : Goroutine(n) \/ CloseLater(n) \/ ServerEnds(n)

Spec == Init /\ [][Next]_vars

\* Goroutines run.  Nothing is assumed of the client, of the server or of the
\* stream to the gateway.
Fairness ==
    \A n \in 1..MaxDials :
        /\ WF_vars(n \in DOMAIN conns /\ DelEntry(n))
        /\ WF_vars(n \in DOMAIN conns /\ CloseLater(n))

FairSpec == Spec /\ Fairness

-----------------------------------------------------------------------------
(* Properties *)

\* A packet reaches a server at most once, and one connection only: not both
\* by the loop and by a goroutine, nor again on a connection dialled later.
WrittenOnce ==
    \A n, m \in DOMAIN conns : conns[n].key = conns[m].key =>
        \A a \in DOMAIN conns[n].got, b \in DOMAIN conns[m].got :
            conns[n].got[a] = conns[m].got[b] => n = m /\ a = b

\* Only the packet the goroutine writes ("failed writing first packet",
\* tcp.go:56) can be out of order: the loop may write the packets that follow
\* it before the goroutine gets to write it.
OrderedAfterFirst ==
    \A n \in DOMAIN conns : \A i, j \in DOMAIN conns[n].got :
        i < j /\ conns[n].first \notin {conns[n].got[i], conns[n].got[j]}
            => conns[n].got[i] < conns[n].got[j]

\* A connection in use that neither connStore nor a pending Close knows of.
Lost(n) ==
    /\ conns[n].pc \in {"first", "copy"} /\ conns[n].sock = "open"
    /\ ~conns[n].closing
    /\ store[conns[n].key] # n

\* An earlier connection of the same id has done its Del.
LateDel(n) ==
    \E m \in 1..n - 1 : conns[m].key = conns[n].key /\ conns[m].pc = "done"

\* A connection is lost only to the late Del of an earlier connection of the
\* same id: Del goes by key and does not look at what is stored.
LostOnlyToLateDel == \A n \in DOMAIN conns : Lost(n) => LateDel(n)

\* No write of a goroutine blocks for ever.
WritesEnd == \A n \in 1..MaxDials : WF_vars(n \in DOMAIN conns /\ Writes(n))

\* Once the session was closed, every connection that was not lost to a
\* late Del ends, if the writes of its goroutine do.
ClosedSessionEnds ==
    WritesEnd =>
    \A n \in 1..MaxDials :
        over ~> (n \in DOMAIN conns => conns[n].pc = "done" \/ (Lost(n) /\ LateDel(n)))

=============================================================================
