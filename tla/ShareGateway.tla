---------------------------- MODULE ShareGateway ----------------------------
(***************************************************************************)
(* The loopback gateway of shared Visuals (local_app_sharing/gateway.py)   *)
(* and the browsers that open them (viewer.py): browser grants and their   *)
(* one-time handoffs, the registry of encrypted connections with its       *)
(* limits, and the requests that threads of the server forward to the app. *)
(*                                                                         *)
(* A thread looks its connection up under the registry's lock and uses it  *)
(* afterwards, while other threads prune and evict.                        *)
(***************************************************************************)
EXTENDS Naturals, FiniteSets

CONSTANTS
  Visuals,        \* sharing sessions
  EndOf,          \* session -> when its grant and key expire
  Browsers,
  Threads,        \* POSTs that reach the gateway, each with its thread
  RequestIds,
  Capacity,       \* MAX_ACTIVE_CONNECTIONS, MAX_BROWSER_HANDOFFS
  MaxIds,         \* MAX_REQUEST_IDS_PER_CONNECTION
  MaxTime,        \* bound on the clock
  MaxConnections, \* bound on the connections ever made
  MaxHandoffs     \* bound on the handoffs ever made

NoVisual == "no visual"
Connections == 1 .. MaxConnections
HandoffIds == 1 .. MaxHandoffs

ASSUME GatewayAssumption ==
  /\ Threads \subseteq Nat /\ NoVisual \notin Visuals /\ EndOf \in [Visuals -> Nat]
  /\ Capacity \in Nat \ {0} /\ MaxIds \in Nat \ {0} /\ MaxTime \in Nat
  /\ MaxConnections \in Nat \ {0} /\ MaxHandoffs \in Nat \ {0}

VARIABLES
  now,
  grant,      \* browser -> the session its cookie opens
  config,     \* browser -> the connection its service worker uses, 0 for none
  conns,      \* connections in the order they were made
  handoffs,   \* handoffs in the order they were made
  thread,     \* thread -> [pc, conn, id, browser]
  forwarded,  \* (connection, id) -> how often the app has seen it
  grants      \* handoff -> browsers that were let in with it

gatewayVars == <<now, grant, config, conns, handoffs, thread, forwarded, grants>>

NextOf(things) == Cardinality(DOMAIN things) + 1
Extend(things, thing) ==
  [i \in DOMAIN things \union {NextOf(things)} |->
     IF i \in DOMAIN things THEN things[i] ELSE thing]

Live(things) == {i \in DOMAIN things : things[i].live}
Ended(things) == {i \in Live(things) : things[i].ends <= now}
\* min over expires_at_epoch; the dictionary yields the older of equals.
Oldest(things) ==
  CHOOSE i \in Live(things) : \A j \in Live(things) :
    \/ things[i].ends < things[j].ends
    \/ things[i].ends = things[j].ends /\ i <= j

Drop(things, gone) ==
  [i \in DOMAIN things |-> IF i \in gone THEN [things[i] EXCEPT !.live = FALSE] ELSE things[i]]
\* wipe(): the key becomes zeroes, the cookies and the used ids go.
Wipe(gone) ==
  [c \in DOMAIN conns |->
     IF c \in gone THEN [conns[c] EXCEPT !.live = FALSE, !.key = "zero", !.used = {}, !.jar = 0]
     ELSE conns[c]]
\* _prune_locked.
Pruned == Wipe(Ended(conns))

\* _authorized_target: the platform resolves the grant of a session in force.
Authorized(b) == grant[b] # NoVisual /\ now < EndOf[grant[b]]

----------------------------------------------------------------------------
\* Browser grants.

\* link-authorize, telegram-authorize, code-authorize: _write_browser_grant.
Authorize(b, s) ==
  /\ grant[b] = NoVisual /\ now < EndOf[s]
  /\ grant' = [grant EXCEPT ![b] = s]
  /\ UNCHANGED <<now, config, conns, handoffs, thread, forwarded, grants>>

\* browser-handoff: openOrHandoff without a service worker.
CreateHandoff(b) ==
  /\ Authorized(b) /\ NextOf(handoffs) \in HandoffIds
  /\ LET kept == Drop(handoffs, Ended(handoffs))
         room == IF Cardinality(Live(kept)) >= Capacity THEN Drop(kept, {Oldest(kept)}) ELSE kept
     IN handoffs' = Extend(room, [session |-> grant[b], ends |-> EndOf[grant[b]], live |-> TRUE])
  /\ grants' = Extend(grants, {})
  /\ UNCHANGED <<now, grant, config, conns, thread, forwarded>>

\* Mutant: the handoff is read, not taken.
ConsumeKeeps(b, h) ==
  /\ h \in DOMAIN handoffs
  /\ handoffs[h].live /\ now < handoffs[h].ends
  /\ grant' = [grant EXCEPT ![b] = handoffs[h].session]
  /\ grants' = [grants EXCEPT ![h] = @ \union {b}]
  /\ UNCHANGED <<now, config, conns, handoffs, thread, forwarded>>

\* browser-handoff-authorize from the external browser: consume pops it even if
\* it is for another session.
ConsumeHandoff(b, h) ==
  /\ h \in DOMAIN handoffs
  /\ handoffs' = Drop(handoffs, Ended(handoffs) \union {h})
  /\ IF handoffs[h].live /\ now < handoffs[h].ends
       THEN \/ /\ grant' = [grant EXCEPT ![b] = handoffs[h].session]
               /\ grants' = [grants EXCEPT ![h] = @ \union {b}]
            \/ UNCHANGED <<grant, grants>>   \* presented for another session
       ELSE UNCHANGED <<grant, grants>>
  /\ UNCHANGED <<now, config, conns, thread, forwarded>>

----------------------------------------------------------------------------
\* Connections.

\* openEncryptedApp: e2ee-key, e2ee-handshake, and the service worker's config.
Handshake(b) ==
  /\ Authorized(b) /\ NextOf(conns) \in Connections
  /\ LET gone == IF Cardinality(Live(Pruned)) >= Capacity
                   THEN Ended(conns) \union {Oldest(Pruned)} ELSE Ended(conns)
     IN conns' = Extend(Wipe(gone), [session |-> grant[b], ends |-> EndOf[grant[b]], live |-> TRUE,
                                     key |-> "agreed", used |-> {}, jar |-> 0, app |-> 0,
                                     busy |-> FALSE])
  /\ config' = [config EXCEPT ![b] = NextOf(conns)]
  /\ UNCHANGED <<now, grant, handoffs, thread, forwarded, grants>>

\* encryptedFetch, and a repetition of the same POST on the way.  Threads are
\* numbered in the order the server starts them.
Send(t, b, id) ==
  /\ thread[t].pc = "free" /\ \A u \in Threads : thread[u].pc = "free" => t <= u
  /\ config[b] # 0 /\ Authorized(b)
  /\ thread' = [thread EXCEPT ![t] = [pc |-> "authorized", conn |-> config[b], id |-> id,
                                            cookie |-> 0]]
  /\ UNCHANGED <<now, grant, config, conns, handoffs, forwarded, grants>>

Ends(t, pc) == thread' = [thread EXCEPT ![t].pc = pc]

\* reserve_request: one critical section of the registry.
Reserve(t) ==
  /\ thread[t].pc = "authorized"
  /\ LET c == thread[t].conn
         accepted == /\ Pruned[c].live /\ thread[t].id \notin Pruned[c].used
                     /\ Cardinality(Pruned[c].used) < MaxIds
     IN /\ conns' = IF accepted THEN [Pruned EXCEPT ![c].used = @ \union {thread[t].id}]
                    ELSE Pruned
        /\ Ends(t, IF accepted THEN "reserved" ELSE "refused")
  /\ UNCHANGED <<now, grant, config, handoffs, forwarded, grants>>

\* decrypt_json with the key as it is by now; a wiped one opens nothing.
Decrypt(t) ==
  /\ thread[t].pc = "reserved"
  /\ Ends(t, IF conns[thread[t].conn].key = "agreed" THEN "opened" ELSE "refused")
  /\ UNCHANGED <<now, grant, config, conns, handoffs, forwarded, grants>>

\* _upstream_request under connection.lock; the app answers with a newer cookie.
Forward(t) ==
  /\ thread[t].pc = "opened"
  /\ LET c == thread[t].conn IN
     /\ ~conns[c].busy
     /\ conns' = [conns EXCEPT ![c].busy = TRUE, ![c].app = @ + 1]
     /\ thread' = [thread EXCEPT ![t].pc = "upstream", ![t].cookie = conns[c].app + 1]
     /\ forwarded' = [forwarded EXCEPT ![<<c, thread[t].id>>] = @ + 1]
  /\ UNCHANGED <<now, grant, config, handoffs, grants>>

\* The answer, its cookie captured, and the end of the lock.
Capture(t) ==
  /\ thread[t].pc = "upstream"
  /\ conns' = [conns EXCEPT ![thread[t].conn].jar = thread[t].cookie,
                            ![thread[t].conn].busy = FALSE]
  /\ Ends(t, "captured")
  /\ UNCHANGED <<now, grant, config, handoffs, forwarded, grants>>

\* No answer within 15 seconds, an OSError, or a body that is too large.
UpstreamFails(t) ==
  /\ thread[t].pc = "upstream"
  /\ conns' = [conns EXCEPT ![thread[t].conn].busy = FALSE]
  /\ Ends(t, "refused")
  /\ UNCHANGED <<now, grant, config, handoffs, forwarded, grants>>

\* encrypt_json, again with the key as it is by now.
Seal(t) ==
  /\ thread[t].pc = "captured"
  /\ Ends(t, IF conns[thread[t].conn].key = "agreed" THEN "answered" ELSE "unreadable")
  /\ UNCHANGED <<now, grant, config, conns, handoffs, forwarded, grants>>

Tick ==
  /\ now < MaxTime /\ now' = now + 1
  /\ UNCHANGED <<grant, config, conns, handoffs, thread, forwarded, grants>>

----------------------------------------------------------------------------
GatewayInit ==
  /\ now = 0
  /\ grant = [b \in Browsers |-> NoVisual] /\ config = [b \in Browsers |-> 0]
  /\ conns = << >> /\ handoffs = << >> /\ grants = << >>
  /\ thread = [t \in Threads |-> [pc |-> "free", conn |-> 0, id |-> 0, cookie |-> 0]]
  /\ forwarded = [k \in Connections \X RequestIds |-> 0]

GatewayStep(t) ==
  Reserve(t) \/ Decrypt(t) \/ Forward(t) \/ Capture(t) \/ UpstreamFails(t) \/ Seal(t)

GatewayNext ==
  \/ \E b \in Browsers :
       \/ \E s \in Visuals : Authorize(b, s)
       \/ CreateHandoff(b) \/ Handshake(b)
       \/ \E h \in HandoffIds : ConsumeHandoff(b, h)
       \/ \E t \in Threads, id \in RequestIds : Send(t, b, id)
  \/ \E t \in Threads : GatewayStep(t)
  \/ Tick

----------------------------------------------------------------------------
GatewayTypeOK ==
  /\ now \in 0 .. MaxTime
  /\ grant \in [Browsers -> Visuals \union {NoVisual}]
  /\ config \in [Browsers -> 0 .. MaxConnections]
  /\ \A c \in DOMAIN conns :
       conns[c] \in [session : Visuals, ends : Nat, live : BOOLEAN, key : {"agreed", "zero"},
                     used : SUBSET RequestIds, jar : Nat, app : Nat, busy : BOOLEAN]
  /\ \A h \in DOMAIN handoffs :
       handoffs[h] \in [session : Visuals, ends : Nat, live : BOOLEAN]
  /\ Cardinality(Live(conns)) <= Capacity /\ Cardinality(Live(handoffs)) <= Capacity
  /\ \A t \in Threads :
       thread[t].pc \in {"free", "authorized", "reserved", "opened", "upstream", "captured",
                         "answered", "unreadable", "refused"}

\* The app sees a request of a browser at most once, however often the POST that
\* carries it arrives (used_request_ids).
ForwardedOnce ==
  \A k \in DOMAIN forwarded : forwarded[k] <= 1

\* A browser handoff lets one browser in: it is "one-time" and "cannot be
\* replayed" (CHANGELOG.md, _BrowserHandoffRegistry.consume).
HandoffsAreOneTime ==
  \A h \in DOMAIN grants : Cardinality(grants[h]) <= 1

\* The cookies of an app move forward only: the answer of an earlier request
\* never overwrites what a later one brought (_EncryptedConnection.lock).
JarNeverGoesBack ==
  [][\A c \in DOMAIN conns : conns'[c].live => conns'[c].jar >= conns[c].jar]_gatewayVars

\* A request that was let in has neither been answered nor refused; it may wait
\* for its connection's lock.
Requesting == \E t \in Threads : thread[t].pc \in {"reserved", "opened", "upstream", "captured"}
=============================================================================
