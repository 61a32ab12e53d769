----------------------------- MODULE DeviceGateway -----------------------------
(***************************************************************************)
(* The connections of one device at one gateway process: the handshake of  *)
(* websocket_endpoint, ConnectionManager's table and its copy in Valkey,   *)
(* the revocation of the device and the notices of its owner's emergency   *)
(* stop, which reach the gateway as NATS messages.                         *)
(*                                                                         *)
(* The gateway is one event loop: what happens between two awaits is one   *)
(* step, and the handlers of other connections run at every await.         *)
(***************************************************************************)
EXTENDS Naturals, Sequences

CONSTANTS
    Sockets,         \* connections of the device, each used once
    NoSocket,        \* no entry
    MaxRevocations,  \* bound: calls of revoke_device
    MaxStops         \* bound: activations of the emergency stop

ASSUME NoSocketAssumption == NoSocket \notin Sockets
ASSUME RevocationsAssumption == MaxRevocations \in Nat
ASSUME StopsAssumption == MaxStops \in Nat

VARIABLES
    trusted,      \* devices.trust_status is trusted and revoked_at is null
    revocations,  \* calls of revoke_device so far
    notices,      \* device.revoked events on their way to the gateway
    stop,         \* the owner's emergency stop is active
    stops,        \* activations so far
    security,     \* stop (TRUE) and resume (FALSE) events on their way
    told,         \* what the device was last told about the stop
    answer,       \* what is_active answered for the connection
    phase,        \* where the connection's handler is
    open,         \* the socket is open
    overlapped,   \* connections whose register call met another one's
    registered,   \* active_connections[device]
    hash,         \* Valkey: connection_id of device:connection:{device}
    presence,     \* Valkey: device:presence:{device} exists
    leaving       \* where the unregister calls for a connection are

revocation == <<trusted, revocations, notices>>
emergency == <<stop, stops, security>>
device == <<told, answer, overlapped>>
valkey == <<hash, presence>>
handlers == <<phase, open, registered>>
vars == <<revocation, emergency, device, handlers, valkey, leaving>>

\* unregister is called by the handler of a connection and by the callback
\* that closes the connection of a revoked device.
Caller == {"handler", "callback"}
Stage == {"idle", "read", "hash", "presence", "map"}

Phase ==
    {"new", "challenged", "admitted", "verified", "welcoming", "replacing",
     "mapped", "serving", "leaving", "gone"}

TypeOK ==
    /\ trusted \in BOOLEAN
    /\ revocations \in Nat /\ notices \in Nat
    /\ stop \in BOOLEAN
    /\ stops \in Nat
    /\ security \in Seq(BOOLEAN)
    /\ told \in [Sockets -> BOOLEAN]
    /\ answer \in [Sockets -> BOOLEAN]
    /\ phase \in [Sockets -> Phase]
    /\ open \in [Sockets -> BOOLEAN]
    /\ overlapped \in SUBSET Sockets
    /\ registered \in Sockets \cup {NoSocket}
    /\ hash \in Sockets \cup {NoSocket}
    /\ presence \in BOOLEAN
    /\ leaving \in [Sockets -> [Caller -> Stage]]

Init ==
    /\ trusted = TRUE /\ revocations = 0 /\ notices = 0
    /\ stop = FALSE /\ stops = 0 /\ security = <<>>
    /\ told = [s \in Sockets |-> FALSE]
    /\ answer = [s \in Sockets |-> FALSE]
    /\ phase = [s \in Sockets |-> "new"]
    /\ open = [s \in Sockets |-> FALSE]
    /\ overlapped = {}
    /\ registered = NoSocket /\ hash = NoSocket /\ presence = FALSE
    /\ leaving = [s \in Sockets |-> [w \in Caller |-> "idle"]]

-----------------------------------------------------------------------------
(* websocket_endpoint: the handshake *)

Goes(s, p) == phase' = [phase EXCEPT ![s] = p]

\* The socket of s closes, and with it what its device was told is void.
Closes(s) ==
    /\ open' = [open EXCEPT ![s] = FALSE]
    /\ told' = [told EXCEPT ![s] = FALSE]

\* The handler returns; what was kept for it is dropped.
Ends(s) ==
    /\ Goes(s, "gone")
    /\ Closes(s)
    /\ answer' = [answer EXCEPT ![s] = FALSE]
    /\ overlapped' = overlapped \ {s}

\* accept, generate_challenge and the auth_challenge message.
Challenge(s) ==
    /\ phase[s] = "new"
    /\ Goes(s, "challenged")
    /\ open' = [open EXCEPT ![s] = TRUE]
    /\ UNCHANGED <<revocation, emergency, device, registered, valkey, leaving>>

\* A timeout, a malformed answer, an expired or used nonce, a bad signature, a
\* failing service: the handler ends before the connection is registered.
Refuse(s) ==
    /\ phase[s] \in {"challenged", "admitted", "verified", "welcoming"}
    /\ Ends(s)
    /\ UNCHANGED <<revocation, emergency, registered, valkey, leaving>>

\* Step 4: the device row, read once.
ReadDevice(s) ==
    /\ phase[s] = "challenged" /\ trusted
    /\ Goes(s, "admitted")
    /\ UNCHANGED <<revocation, emergency, device, open, registered, valkey,
                   leaving>>

\* Step 5: GETDEL of the nonce, then the signature.
Verify(s) ==
    /\ phase[s] = "admitted"
    /\ Goes(s, "verified")
    /\ UNCHANGED <<revocation, emergency, device, open, registered, valkey,
                   leaving>>

\* Step 6: is_active, taken as exact (module EmergencyStop).
ReadStop(s) ==
    /\ phase[s] = "verified"
    /\ answer' = [answer EXCEPT ![s] = stop]
    /\ Goes(s, "welcoming")
    /\ UNCHANGED <<revocation, emergency, told, overlapped, open, registered,
                   valkey, leaving>>

\* The register calls that wait for the close of an old connection: the call
\* of s meets them.
Meets(s) ==
    LET waiting == {q \in Sockets : phase[q] = "replacing"} IN
    overlapped' = IF waiting = {} THEN overlapped
                  ELSE overlapped \cup waiting \cup {s}

\* Mutant of Welcome: the new connection takes the entry, the old one stays open.
WelcomeOver(s) ==
    /\ phase[s] = "welcoming" /\ open[s]
    /\ told' = [told EXCEPT ![s] = answer[s]]
    /\ answer' = [answer EXCEPT ![s] = FALSE]
    /\ Meets(s)
    /\ registered' = s
    /\ Goes(s, "mapped")
    /\ UNCHANGED <<revocation, emergency, open, valkey, leaving>>

\* Step 7 and the head of register: without an old entry the new one is made
\* at once, an old connection is closed first, with an await.
Welcome(s) ==
    /\ phase[s] = "welcoming" /\ open[s]
    /\ answer' = [answer EXCEPT ![s] = FALSE]
    /\ Meets(s)
    /\ \/ /\ registered = NoSocket
          /\ registered' = s
          /\ told' = [told EXCEPT ![s] = answer[s]]
          /\ Goes(s, "mapped")
          /\ UNCHANGED open
       \/ /\ registered # NoSocket
          /\ open' = [open EXCEPT ![registered] = FALSE]
          /\ told' = [told EXCEPT ![s] = answer[s], ![registered] = FALSE]
          /\ Goes(s, "replacing")
          /\ UNCHANGED registered
    /\ UNCHANGED <<revocation, emergency, valkey, leaving>>

Replace(s) ==
    /\ phase[s] = "replacing"
    /\ registered' = s
    /\ Goes(s, "mapped")
    /\ UNCHANGED <<revocation, emergency, device, open, valkey, leaving>>

\* set_hash ends register; the handler subscribes and serves.
Serve(s) ==
    /\ phase[s] = "mapped"
    /\ hash' = s
    /\ Goes(s, "serving")
    /\ UNCHANGED <<revocation, emergency, device, open, registered, presence,
                   leaving>>

\* set_hash raises outside the handler's try: no unregister follows.
ServeFails(s) ==
    /\ phase[s] = "mapped"
    /\ Ends(s)
    /\ UNCHANGED <<revocation, emergency, registered, valkey, leaving>>

Heartbeat(s) ==
    /\ phase[s] = "serving" /\ open[s]
    /\ presence' = TRUE
    /\ UNCHANGED <<revocation, emergency, device, handlers, hash, leaving>>

\* The device goes away, or a protocol error makes the gateway close.
Disconnect(s) ==
    /\ open[s]
    /\ Closes(s)
    /\ UNCHANGED <<revocation, emergency, answer, overlapped, phase, registered,
                   valkey, leaving>>

-----------------------------------------------------------------------------
(* ConnectionManager.unregister *)

\* The handler's finally: the socket is closed, or the subscription failed.
Leave(s) ==
    /\ phase[s] = "serving"
    /\ Goes(s, "leaving")
    /\ leaving' = [leaving EXCEPT ![s]["handler"] = "read"]
    /\ UNCHANGED <<revocation, emergency, device, open, registered, valkey>>

UnregisterRead(s, w) ==
    /\ leaving[s][w] = "read"
    /\ leaving' = [leaving EXCEPT ![s][w] = IF hash = s THEN "hash" ELSE "map"]
    /\ UNCHANGED <<revocation, emergency, device, handlers, valkey>>

UnregisterHash(s, w) ==
    /\ leaving[s][w] = "hash"
    /\ hash' = NoSocket
    /\ leaving' = [leaving EXCEPT ![s][w] = "presence"]
    /\ UNCHANGED <<revocation, emergency, device, handlers, presence>>

UnregisterPresence(s, w) ==
    /\ leaving[s][w] = "presence"
    /\ presence' = FALSE
    /\ leaving' = [leaving EXCEPT ![s][w] = "map"]
    /\ UNCHANGED <<revocation, emergency, device, handlers, hash>>

\* The call returns, and with it the handler.
Unregistered(s, w) ==
    /\ leaving' = [leaving EXCEPT ![s][w] = "idle"]
    /\ IF w = "handler" THEN Ends(s) ELSE UNCHANGED <<phase, open, device>>

\* Mutant of UnregisterMap: the call returns once Valkey is cleaned up.
UnregisterValkeyOnly(s, w) ==
    /\ leaving[s][w] = "map"
    /\ Unregistered(s, w)
    /\ UNCHANGED <<revocation, emergency, registered, valkey>>

\* Mutant of UnregisterMap: the entry is deleted whoever's it is.
UnregisterMapAny(s, w) ==
    /\ leaving[s][w] = "map"
    /\ registered' = NoSocket
    /\ Unregistered(s, w)
    /\ UNCHANGED <<revocation, emergency, valkey>>

\* The table entry goes if it is this connection's.
UnregisterMap(s, w) ==
    /\ leaving[s][w] = "map"
    /\ registered' = IF registered = s THEN NoSocket ELSE registered
    /\ Unregistered(s, w)
    /\ UNCHANGED <<revocation, emergency, valkey>>

\* Valkey raises: the entry stays in the table.
UnregisterFails(s, w) ==
    /\ leaving[s][w] \in {"read", "hash", "presence"}
    /\ Unregistered(s, w)
    /\ UNCHANGED <<revocation, emergency, registered, valkey>>

\* The TTLs: nothing renews the hash, heartbeats renew the presence.
HashExpires ==
    /\ hash # NoSocket
    /\ hash' = NoSocket
    /\ UNCHANGED <<revocation, emergency, device, handlers, presence, leaving>>

PresenceExpires ==
    /\ presence
    /\ presence' = FALSE
    /\ UNCHANGED <<revocation, emergency, device, handlers, hash, leaving>>

-----------------------------------------------------------------------------
(* DeviceService.revoke_device and device_lifecycle_callback *)

\* The row and its outbox event in one commit; a second call adds an event.
Revoke ==
    /\ revocations < MaxRevocations
    /\ revocations' = revocations + 1
    /\ trusted' = FALSE
    /\ notices' = notices + 1
    /\ UNCHANGED <<emergency, device, handlers, valkey, leaving>>

\* Mutant of CloseRevoked: the lookup uses a key the table does not have.
CloseNobody ==
    /\ notices > 0
    /\ notices' = notices - 1
    /\ UNCHANGED <<trusted, revocations, emergency, device, handlers, valkey,
                   leaving>>

\* close_device_connection: close, then unregister. A subscription runs its
\* callbacks one after the other.
CloseRevoked ==
    /\ notices > 0
    /\ \A s \in Sockets : leaving[s]["callback"] = "idle"
    /\ notices' = notices - 1
    /\ \/ registered = NoSocket /\ UNCHANGED <<open, told, leaving>>
       \/ \E s \in Sockets :
            /\ registered = s
            /\ Closes(s)
            /\ leaving' = [leaving EXCEPT ![s]["callback"] = "read"]
    /\ UNCHANGED <<trusted, revocations, emergency, answer, overlapped, phase,
                   registered, valkey>>

\* A core subscription has no redelivery: what is published while the gateway
\* is not connected is lost to it.
NoticeLost ==
    /\ notices > 0
    /\ notices' = notices - 1
    /\ UNCHANGED <<trusted, revocations, emergency, device, handlers, valkey,
                   leaving>>

-----------------------------------------------------------------------------
(* EmergencyStopService and security_callback *)

\* An activation while the stop is active notifies the devices again.
Activate ==
    /\ stops < MaxStops
    /\ stop' = TRUE /\ stops' = stops + 1
    /\ security' = Append(security, TRUE)
    /\ UNCHANGED <<revocation, device, handlers, valkey, leaving>>

Release ==
    /\ stop
    /\ stop' = FALSE
    /\ security' = Append(security, FALSE)
    /\ UNCHANGED <<revocation, stops, device, handlers, valkey, leaving>>

\* Mutant of Broadcast: the devices are looked up, nothing is sent.
BroadcastNothing ==
    /\ security # <<>>
    /\ security' = Tail(security)
    /\ UNCHANGED <<revocation, stop, stops, device, handlers, valkey, leaving>>

\* broadcast_emergency_stop reaches the connection in the table, if any.
Broadcast ==
    /\ security # <<>>
    /\ security' = Tail(security)
    /\ told' = [s \in Sockets |->
                  IF registered = s /\ open[s] THEN Head(security) ELSE told[s]]
    /\ UNCHANGED <<revocation, stop, stops, answer, overlapped, handlers, valkey,
                   leaving>>

\* As NoticeLost, for the notices of a stop and of its release.
SecurityLost ==
    /\ security # <<>>
    /\ security' = Tail(security)
    /\ UNCHANGED <<revocation, stop, stops, device, handlers, valkey, leaving>>

-----------------------------------------------------------------------------
\* The gateway is restarted: sockets, handlers and table are gone, Valkey is
\* not cleaned up.
Restart ==
    /\ phase' = [s \in Sockets |-> IF phase[s] = "new" THEN "new" ELSE "gone"]
    /\ open' = [s \in Sockets |-> FALSE]
    /\ told' = [s \in Sockets |-> FALSE]
    /\ answer' = [s \in Sockets |-> FALSE]
    /\ overlapped' = {}
    /\ registered' = NoSocket
    /\ leaving' = [s \in Sockets |-> [w \in Caller |-> "idle"]]
    /\ UNCHANGED <<revocation, emergency, valkey>>

Handshake(s) ==
    \/ Challenge(s) \/ Refuse(s) \/ ReadDevice(s) \/ Verify(s) \/ ReadStop(s)
    \/ Welcome(s) \/ Replace(s) \/ Serve(s)

Unregister(s, w) ==
    \/ UnregisterRead(s, w) \/ UnregisterHash(s, w)
    \/ UnregisterPresence(s, w) \/ UnregisterMap(s, w)

\* Every step while Valkey and NATS can be reached and no TTL runs out.
CalmNext ==
    \/ \E s \in Sockets :
        \/ Handshake(s) \/ Heartbeat(s) \/ Disconnect(s) \/ Leave(s)
        \/ \E w \in Caller : Unregister(s, w)
    \/ Revoke \/ CloseRevoked
    \/ Activate \/ Release \/ Broadcast

Next ==
    \/ CalmNext
    \/ \E s \in Sockets :
        ServeFails(s) \/ \E w \in Caller : UnregisterFails(s, w)
    \/ HashExpires \/ PresenceExpires \/ NoticeLost \/ SecurityLost \/ Restart

Spec == Init /\ [][Next]_vars

\* The event loop serves every handler and every callback; nothing makes a
\* device connect or an owner act.
CalmSpec ==
    /\ Init /\ [][CalmNext]_vars
    /\ WF_vars(CloseRevoked) /\ WF_vars(Broadcast)
    /\ \A s \in Sockets :
        /\ WF_vars(~open[s] /\ Leave(s))
        /\ WF_vars(Replace(s)) /\ WF_vars(Serve(s))
        /\ \A w \in Caller : WF_vars(Unregister(s, w))

-----------------------------------------------------------------------------
(* Properties *)

\* A connection that is open and served is the one in the table, where a notice
\* of revocation or a stop looks for it. The only exception is a connection
\* whose register call met another one's, both past the lookup of the old
\* entry: the entry of one of them is overwritten, and it stays open and served
\* in no table. (register awaits old.close between the lookup and the entry)
ServedIsMapped ==
    \A s \in Sockets :
        open[s] /\ phase[s] \in {"mapped", "serving"} /\ s \notin overlapped
            => registered = s

\* The table keeps the entry of a connection that is open and served: the
\* unregister of an older connection, or of one that a callback closes at the
\* same time, never removes a newer one. (unregister compares connection ids)
OpenStaysMapped ==
    [][\A s \in Sockets :
        registered = s /\ open[s] /\ phase[s] \in {"mapped", "serving"}
            => registered' # NoSocket \/ ~open'[s]]_vars

\* The entry of a closed connection does not stay in the table.
\* (the finally of websocket_endpoint, close_device_connection)
DeadEntriesGo ==
    \A s \in Sockets :
        registered = s /\ ~open[s] ~> registered # s

\* A device whose connection is in the table while the notice of a stop is on
\* its way learns of the stop, unless that connection is replaced or closed.
\* (security_callback, broadcast_emergency_stop)
StopHeard ==
    \A s \in Sockets :
        registered = s /\ (\E i \in 1..Len(security) : security[i])
            ~> told[s] \/ registered # s \/ ~open[s]

\* A connection that is in the table while the notice of a revocation is on
\* its way is closed or replaced; one that is not yet in the table stays open.
\* (device_lifecycle_callback, close_device_connection)
RevocationHeard ==
    \A s \in Sockets :
        registered = s /\ notices > 0 ~> ~open[s] \/ registered # s
=============================================================================
