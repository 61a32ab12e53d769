-------------------------- MODULE DeviceGatewayProofs --------------------------
(***************************************************************************)
(* Theorems about module DeviceGateway: types, the table's loyalty to open *)
(* connections, and which connections may be served outside the table.     *)
(***************************************************************************)
EXTENDS DeviceGateway, TLAPS

USE NoSocketAssumption, RevocationsAssumption, StopsAssumption

\* The initial state is well typed.
LEMMA InitTypeOK == Init => TypeOK
  <1> SUFFICES ASSUME Init PROVE TypeOK
    OBVIOUS
  <1>1. leaving \in [Sockets -> [Caller -> Stage]]
    BY DEF Init, Stage
  <1>2. phase \in [Sockets -> Phase]
    BY DEF Init, Phase
  <1>3. security \in Seq(BOOLEAN)
    BY DEF Init
  <1>4. /\ told \in [Sockets -> BOOLEAN] /\ answer \in [Sockets -> BOOLEAN]
        /\ open \in [Sockets -> BOOLEAN]
    BY DEF Init
  <1>5. /\ revocations \in Nat /\ notices \in Nat /\ stops \in Nat
        /\ overlapped \in SUBSET Sockets
    BY DEF Init
  <1>6. /\ trusted \in BOOLEAN /\ stop \in BOOLEAN /\ presence \in BOOLEAN
        /\ registered \in Sockets \cup {NoSocket}
        /\ hash \in Sockets \cup {NoSocket}
    BY DEF Init
  <1> QED BY <1>1, <1>2, <1>3, <1>4, <1>5, <1>6, Zenon DEF TypeOK

\* What changes when the handler of s, an unregister call for s or the socket
\* of s moves: one entry of a well-typed function.
LEMMA Entries ==
    ASSUME TypeOK, NEW s \in Sockets
    PROVE  /\ \A p \in Phase : [phase EXCEPT ![s] = p] \in [Sockets -> Phase]
           /\ \A b \in BOOLEAN :
                /\ [open EXCEPT ![s] = b] \in [Sockets -> BOOLEAN]
                /\ [told EXCEPT ![s] = b] \in [Sockets -> BOOLEAN]
                /\ [answer EXCEPT ![s] = b] \in [Sockets -> BOOLEAN]
  <1>1. \A p \in Phase : [phase EXCEPT ![s] = p] \in [Sockets -> Phase]
    BY DEF TypeOK
  <1>2. ASSUME NEW b \in BOOLEAN
        PROVE  /\ [open EXCEPT ![s] = b] \in [Sockets -> BOOLEAN]
               /\ [told EXCEPT ![s] = b] \in [Sockets -> BOOLEAN]
               /\ [answer EXCEPT ![s] = b] \in [Sockets -> BOOLEAN]
    BY Zenon DEF TypeOK
  <1> QED BY <1>1, <1>2, Zenon

\* One unregister call moves.
LEMMA LeavingEntry ==
    ASSUME TypeOK, NEW s \in Sockets, NEW w \in Caller, NEW l \in Stage
    PROVE  /\ [leaving EXCEPT ![s][w] = l] \in
                [Sockets -> [Caller -> Stage]]
           /\ [leaving EXCEPT ![s][w] = l][s][w] = l
           /\ \A t \in Sockets, v \in Caller :
                <<t, v>> # <<s, w>> =>
                    [leaving EXCEPT ![s][w] = l][t][v] = leaving[t][v]
  <1>1. leaving \in [Sockets -> [Caller -> Stage]]
    BY DEF TypeOK
  <1>2. [leaving[s] EXCEPT ![w] = l] \in [Caller -> Stage]
    BY <1>1
  <1>3. [leaving EXCEPT ![s] = [leaving[s] EXCEPT ![w] = l]]
            \in [Sockets -> [Caller -> Stage]]
    BY <1>1, <1>2
  <1> QED BY <1>1, <1>2, <1>3

\* A step of s's handler that moves it to phase p and may close its socket.
LEMMA HandlerTypeOK ==
    ASSUME TypeOK, NEW s \in Sockets, NEW p \in Phase, NEW b \in BOOLEAN,
           Goes(s, p),
           open' = open \/ open' = [open EXCEPT ![s] = b],
           UNCHANGED <<revocation, emergency, device, registered, valkey, leaving>>
    PROVE  TypeOK'
  <1>1. phase' \in [Sockets -> Phase]
    BY Entries DEF Goes
  <1>2. open' \in [Sockets -> BOOLEAN]
    BY Entries DEF TypeOK
  <1> QED
    BY <1>1, <1>2 DEF TypeOK, revocation, emergency, device, valkey

\* A handler that returns leaves its variables well typed.
LEMMA EndsTypeOK ==
    ASSUME TypeOK, NEW s \in Sockets, Ends(s)
    PROVE  /\ phase' \in [Sockets -> Phase]
           /\ open' \in [Sockets -> BOOLEAN]
           /\ told' \in [Sockets -> BOOLEAN]
           /\ answer' \in [Sockets -> BOOLEAN]
           /\ overlapped' \in SUBSET Sockets
  <1>1. /\ phase' = [phase EXCEPT ![s] = "gone"] /\ "gone" \in Phase
        /\ open' = [open EXCEPT ![s] = FALSE] /\ FALSE \in BOOLEAN
        /\ told' = [told EXCEPT ![s] = FALSE]
        /\ answer' = [answer EXCEPT ![s] = FALSE]
        /\ overlapped' = overlapped \ {s}
    BY Zenon DEF Ends, Closes, Goes, Phase
  <1>2. overlapped' \in SUBSET Sockets
    BY <1>1 DEF TypeOK
  <1> QED BY <1>1, <1>2, Entries, Zenon

\* The handshake steps, and the registration at their end.
LEMMA HandshakeTypeOK ==
    ASSUME TypeOK, NEW s \in Sockets, Handshake(s) PROVE TypeOK'
  <1> USE DEF revocation, emergency, device, valkey
  <1>1. CASE Challenge(s)
    BY <1>1, HandlerTypeOK DEF Challenge, Phase
  <1>2. CASE Refuse(s)
    BY <1>2, EndsTypeOK DEF Refuse, TypeOK
  <1>3. CASE ReadDevice(s) \/ Verify(s)
    <2>1. CASE ReadDevice(s)
      BY <2>1, HandlerTypeOK DEF ReadDevice, Phase
    <2>2. CASE Verify(s)
      BY <2>2, HandlerTypeOK DEF Verify, Phase
    <2> QED BY <1>3, <2>1, <2>2
  <1>4. CASE ReadStop(s)
    <2>1. /\ answer' = [answer EXCEPT ![s] = stop] /\ stop \in BOOLEAN
          /\ phase' = [phase EXCEPT ![s] = "welcoming"] /\ "welcoming" \in Phase
          /\ UNCHANGED <<revocation, emergency, told, overlapped, open,
                         registered, valkey, leaving>>
      BY <1>4, Zenon DEF ReadStop, Goes, TypeOK, Phase
    <2>2. answer' \in [Sockets -> BOOLEAN] /\ phase' \in [Sockets -> Phase]
      BY <2>1, Entries, Zenon
    <2> QED BY <2>1, <2>2 DEF TypeOK
  <1>5. CASE Welcome(s)
    <2>1. /\ answer' = [answer EXCEPT ![s] = FALSE] /\ FALSE \in BOOLEAN
          /\ answer[s] \in BOOLEAN
          /\ UNCHANGED <<revocation, emergency, valkey, leaving>>
      BY <1>5, Zenon DEF Welcome, TypeOK
    <2>2. answer' \in [Sockets -> BOOLEAN]
      BY <2>1, Entries, Zenon
    <2>5. overlapped' \in SUBSET Sockets
      BY <1>5 DEF Welcome, Meets, TypeOK
    <2>3. CASE registered = NoSocket
      <3>1. /\ registered' = s /\ Goes(s, "mapped") /\ UNCHANGED open
            /\ told' = [told EXCEPT ![s] = answer[s]]
        BY <1>5, <2>3 DEF Welcome
      <3>2. phase' \in [Sockets -> Phase]
        BY <3>1, Entries DEF Goes, Phase
      <3>3. told' \in [Sockets -> BOOLEAN]
        BY <2>1, <3>1, Entries, Zenon
      <3> QED BY <2>1, <2>2, <2>5, <3>1, <3>2, <3>3 DEF TypeOK
    <2>4. CASE registered # NoSocket
      <3>1. /\ open' = [open EXCEPT ![registered] = FALSE]
            /\ told' = [told EXCEPT ![s] = answer[s], ![registered] = FALSE]
            /\ Goes(s, "replacing") /\ UNCHANGED registered
        BY <1>5, <2>4 DEF Welcome
      <3>2. phase' \in [Sockets -> Phase]
        BY <3>1, Entries DEF Goes, Phase
      <3>3. registered \in Sockets
        BY <2>4 DEF TypeOK
      <3>4. open' \in [Sockets -> BOOLEAN]
        BY <3>1, <3>3, Entries
      <3>5. told' \in [Sockets -> BOOLEAN]
        <4>1. [told EXCEPT ![s] = answer[s]] \in [Sockets -> BOOLEAN]
          BY <2>1, Entries, Zenon
        <4> QED BY <2>1, <3>1, <3>3, <4>1, Zenon
      <3> QED BY <2>1, <2>2, <2>5, <3>1, <3>2, <3>4, <3>5 DEF TypeOK
    <2> QED BY <2>3, <2>4
  <1>6. CASE Replace(s) \/ Serve(s)
    <2>1. phase' \in [Sockets -> Phase]
      BY <1>6, Entries DEF Replace, Serve, Goes, Phase
    <2>2. CASE Replace(s)
      BY <2>1, <2>2 DEF Replace, TypeOK
    <2>3. CASE Serve(s)
      BY <2>1, <2>3 DEF Serve, TypeOK
    <2> QED BY <1>6, <2>2, <2>3
  <1> QED
    BY <1>1, <1>2, <1>3, <1>4, <1>5, <1>6, Zenon DEF Handshake

\* The steps of unregister.
LEMMA UnregisterTypeOK ==
    ASSUME TypeOK, NEW s \in Sockets, NEW w \in Caller,
           Unregister(s, w) \/ UnregisterFails(s, w)
    PROVE  TypeOK'
  <1> USE DEF revocation, emergency, device, valkey, handlers
  <1>1. CASE UnregisterRead(s, w)
    <2>1. PICK l \in Stage : leaving' = [leaving EXCEPT ![s][w] = l]
      BY <1>1 DEF UnregisterRead, Stage
    <2>2. leaving' \in [Sockets -> [Caller -> Stage]]
      BY <2>1, LeavingEntry, Zenon
    <2> QED BY <1>1, <2>2 DEF UnregisterRead, TypeOK
  <1>2. CASE UnregisterHash(s, w) \/ UnregisterPresence(s, w)
    <2>0. PICK l \in Stage : leaving' = [leaving EXCEPT ![s][w] = l]
      BY <1>2, Zenon DEF UnregisterHash, UnregisterPresence, Stage
    <2>1. leaving' \in [Sockets -> [Caller -> Stage]]
      BY <2>0, LeavingEntry, Zenon
    <2>2. CASE UnregisterHash(s, w)
      BY <2>1, <2>2 DEF UnregisterHash, TypeOK
    <2>3. CASE UnregisterPresence(s, w)
      BY <2>1, <2>3 DEF UnregisterPresence, TypeOK
    <2> QED BY <1>2, <2>2, <2>3
  <1>3. ASSUME Unregistered(s, w)
        PROVE  /\ leaving' \in [Sockets -> [Caller -> Stage]]
               /\ phase' \in [Sockets -> Phase]
               /\ open' \in [Sockets -> BOOLEAN]
               /\ told' \in [Sockets -> BOOLEAN]
               /\ answer' \in [Sockets -> BOOLEAN]
               /\ overlapped' \in SUBSET Sockets
    <2>0. "idle" \in Stage /\ leaving' = [leaving EXCEPT ![s][w] = "idle"]
      BY <1>3, Zenon DEF Unregistered, Stage
    <2>1. leaving' \in [Sockets -> [Caller -> Stage]]
      BY <2>0, LeavingEntry, Zenon
    <2>2. CASE w = "handler"
      <3>1. Ends(s)
        BY <1>3, <2>2 DEF Unregistered
      <3> QED BY <2>1, <3>1, EndsTypeOK
    <2>3. CASE w # "handler"
      BY <1>3, <2>1, <2>3 DEF Unregistered, TypeOK
    <2> QED BY <2>2, <2>3
  <1>4. CASE UnregisterMap(s, w)
    <2>1. registered' \in Sockets \cup {NoSocket}
      BY <1>4 DEF UnregisterMap, TypeOK
    <2> QED BY <1>3, <1>4, <2>1 DEF UnregisterMap, TypeOK
  <1>5. CASE UnregisterFails(s, w)
    BY <1>3, <1>5 DEF UnregisterFails, TypeOK
  <1> QED
    BY <1>1, <1>2, <1>4, <1>5, Zenon DEF Unregister

\* Every step keeps the types.
LEMMA NextTypeOK == TypeOK /\ [Next]_vars => TypeOK'
  <1> SUFFICES ASSUME TypeOK, [Next]_vars PROVE TypeOK'
    OBVIOUS
  <1> USE DEF revocation, emergency, device, valkey, handlers
  <1>1. ASSUME NEW s \in Sockets, ServeFails(s) PROVE TypeOK'
    BY <1>1, EndsTypeOK DEF ServeFails, TypeOK
  <1>2. ASSUME NEW s \in Sockets, Heartbeat(s) PROVE TypeOK'
    BY <1>2 DEF Heartbeat, TypeOK
  <1>3. ASSUME NEW s \in Sockets, Disconnect(s) PROVE TypeOK'
    <2>1. open' \in [Sockets -> BOOLEAN] /\ told' \in [Sockets -> BOOLEAN]
      BY <1>3, Entries DEF Disconnect, Closes
    <2> QED BY <1>3, <2>1 DEF Disconnect, TypeOK
  <1>4. ASSUME NEW s \in Sockets, Leave(s) PROVE TypeOK'
    <2>1. phase' \in [Sockets -> Phase]
      BY <1>4, Entries DEF Leave, Goes, Phase
    <2>2. leaving' \in [Sockets -> [Caller -> Stage]]
      BY <1>4, LeavingEntry DEF Leave, Stage, Caller
    <2> QED BY <1>4, <2>1, <2>2 DEF Leave, TypeOK
  <1>5. CASE HashExpires \/ PresenceExpires
    <2>1. CASE HashExpires
      BY <2>1 DEF HashExpires, TypeOK
    <2>2. CASE PresenceExpires
      BY <2>2 DEF PresenceExpires, TypeOK
    <2> QED BY <1>5, <2>1, <2>2
  <1>6. CASE Revoke
    <2>1. /\ revocations' = revocations + 1 /\ notices' = notices + 1
          /\ trusted' = FALSE
          /\ UNCHANGED <<emergency, device, handlers, valkey, leaving>>
      BY <1>6, Zenon DEF Revoke
    <2>2. revocations' \in Nat /\ notices' \in Nat
      BY <2>1 DEF TypeOK
    <2> QED BY <2>1, <2>2 DEF TypeOK
  <1>7. CASE CloseRevoked
    <2>1. /\ notices > 0 /\ notices' = notices - 1
          /\ UNCHANGED <<trusted, revocations, emergency, answer, overlapped,
                         phase, registered, valkey>>
      BY <1>7, Zenon DEF CloseRevoked
    <2>2. notices' \in Nat
      BY <2>1 DEF TypeOK
    <2>3. CASE UNCHANGED <<open, told, leaving>>
      BY <2>1, <2>2, <2>3 DEF TypeOK
    <2>4. ASSUME NEW s \in Sockets, Closes(s),
                 leaving' = [leaving EXCEPT ![s]["callback"] = "read"]
          PROVE  TypeOK'
      <3>1. open' \in [Sockets -> BOOLEAN] /\ told' \in [Sockets -> BOOLEAN]
        BY <2>4, Entries DEF Closes
      <3>2. leaving' \in [Sockets -> [Caller -> Stage]]
        BY <2>4, LeavingEntry DEF Stage, Caller
      <3> QED BY <2>1, <2>2, <3>1, <3>2 DEF TypeOK
    <2> QED BY <1>7, <2>3, <2>4, Zenon DEF CloseRevoked
  <1>8. CASE NoticeLost
    BY <1>8 DEF NoticeLost, TypeOK
  <1>9. CASE Activate
    <2>1. security' \in Seq(BOOLEAN) /\ stops' \in Nat
      BY <1>9 DEF Activate, TypeOK
    <2> QED BY <1>9, <2>1 DEF Activate, TypeOK
  <1>10. CASE Release
    <2>1. security' \in Seq(BOOLEAN)
      BY <1>10 DEF Release, TypeOK
    <2> QED BY <1>10, <2>1 DEF Release, TypeOK
  <1>11. CASE Broadcast
    <2>1. /\ security # <<>> /\ security' = Tail(security)
          /\ told' = [s \in Sockets |->
                        IF registered = s /\ open[s] THEN Head(security)
                        ELSE told[s]]
          /\ UNCHANGED <<revocation, stop, stops, answer, overlapped, handlers,
                         valkey, leaving>>
      BY <1>11, Zenon DEF Broadcast
    <2>2. security' \in Seq(BOOLEAN) /\ Head(security) \in BOOLEAN
      BY <2>1 DEF TypeOK
    <2>3. told' \in [Sockets -> BOOLEAN]
      BY <2>1, <2>2, Zenon DEF TypeOK
    <2> QED BY <2>1, <2>2, <2>3 DEF TypeOK
  <1>12. CASE Restart
    <2>1. phase' \in [Sockets -> Phase]
      BY <1>12 DEF Restart, TypeOK, Phase
    <2>2. leaving' \in [Sockets -> [Caller -> Stage]]
      BY <1>12 DEF Restart, Stage
    <2>3. /\ open' \in [Sockets -> BOOLEAN] /\ told' \in [Sockets -> BOOLEAN]
          /\ answer' \in [Sockets -> BOOLEAN] /\ overlapped' \in SUBSET Sockets
      BY <1>12 DEF Restart
    <2> QED BY <1>12, <2>1, <2>2, <2>3 DEF Restart, TypeOK
  <1>13. CASE SecurityLost
    <2>1. security' \in Seq(BOOLEAN)
      BY <1>13 DEF SecurityLost, TypeOK
    <2> QED BY <1>13, <2>1 DEF SecurityLost, TypeOK
  <1>14. CASE UNCHANGED vars
    BY <1>14 DEF vars, TypeOK
  <1> QED
    BY <1>1, <1>2, <1>3, <1>4, <1>5, <1>6, <1>7, <1>8, <1>9, <1>10, <1>11,
       <1>12, <1>13, <1>14, HandshakeTypeOK, UnregisterTypeOK, Zenon
    DEF Next, CalmNext

\* Type correctness of the gateway model.
THEOREM TypeCorrect == Spec => []TypeOK
  BY InitTypeOK, NextTypeOK, PTL DEF Spec

-----------------------------------------------------------------------------
(* The table *)

\* What holds of a connection while an unregister call runs for it: the
\* handler calls unregister last, the callback closes the socket first.
Owned(t) ==
    /\ leaving[t]["handler"] # "idle" => phase[t] = "leaving"
    /\ leaving[t]["callback"] # "idle" => open[t] = FALSE /\ phase[t] # "new"
    /\ registered = t => phase[t] # "new"

\* The steps of the handlers before unregister.
LEMMA HandshakeOwned ==
    ASSUME TypeOK, NEW t \in Sockets, Owned(t), NEW s \in Sockets,
           Handshake(s) \/ ServeFails(s)
    PROVE  Owned(t)'
  <1> USE DEF TypeOK, Owned
  <1>1. ASSUME NEW p, Goes(s, p), p # "new", phase[s] # "leaving",
               \/ open' = open
               \/ phase[s] = "new" /\ open' = [open EXCEPT ![s] = TRUE]
               \/ open' = [open EXCEPT ![s] = FALSE]
               \/ /\ registered \in Sockets
                  /\ open' = [open EXCEPT ![registered] = FALSE],
               registered' \in {registered, s}, UNCHANGED leaving
        PROVE  Owned(t)'
    <2>1. /\ phase'[t] = phase[t] \/ (t = s /\ phase'[t] # "new")
          /\ phase'[t] = phase[t] \/ phase[t] # "leaving"
      BY <1>1 DEF Goes
    <2>2. leaving[t]["handler"] # "idle" => t # s
      BY <1>1
    <2>3. phase[t] # "new" => phase'[t] # "new"
      BY <2>1
    <2>4. leaving[t]["callback"] # "idle" => open'[t] = FALSE
      BY <1>1
    <2>5. registered' = t => phase'[t] # "new"
      BY <1>1, <2>1 DEF Goes
    <2> QED BY <1>1, <2>1, <2>2, <2>3, <2>4, <2>5
  <1>2. CASE Challenge(s)
    BY <1>1, <1>2 DEF Challenge
  <1>3. CASE Refuse(s) \/ ServeFails(s)
    BY <1>1, <1>3 DEF Refuse, ServeFails, Ends, Closes
  <1>4. CASE ReadDevice(s) \/ Verify(s) \/ ReadStop(s) \/ Serve(s)
    BY <1>1, <1>4 DEF ReadDevice, Verify, ReadStop, Serve
  <1>5. CASE Welcome(s)
    <2>1. phase[s] = "welcoming" /\ UNCHANGED leaving
      BY <1>5, Zenon DEF Welcome
    <2>2. CASE registered = NoSocket
      BY <1>1, <1>5, <2>1, <2>2 DEF Welcome
    <2>3. CASE registered # NoSocket
      <3>1. /\ open' = [open EXCEPT ![registered] = FALSE]
            /\ Goes(s, "replacing") /\ registered' = registered
        BY <1>5, <2>3 DEF Welcome
      <3> QED BY <1>1, <2>1, <2>3, <3>1
    <2> QED BY <2>2, <2>3
  <1>6. CASE Replace(s)
    BY <1>1, <1>6 DEF Replace
  <1> QED BY <1>2, <1>3, <1>4, <1>5, <1>6, Zenon DEF Handshake

\* The steps of unregister.
LEMMA UnregisterOwned ==
    ASSUME TypeOK, NEW t \in Sockets, Owned(t), NEW s \in Sockets,
           NEW w \in Caller, Owned(s), Unregister(s, w) \/ UnregisterFails(s, w)
    PROVE  Owned(t)'
  <1> USE DEF Owned
  <1>0. leaving[s][w] # "idle"
    BY Zenon
    DEF Unregister, UnregisterRead, UnregisterHash, UnregisterPresence,
        UnregisterMap, UnregisterFails
  <1>1. PICK l \in Stage : leaving' = [leaving EXCEPT ![s][w] = l]
    BY DEF Unregister, UnregisterRead, UnregisterHash, UnregisterPresence,
           UnregisterMap, UnregisterFails, Unregistered, Stage
  <1>2. \A v \in Caller : leaving'[t][v] # "idle" => leaving[t][v] # "idle"
    <2> SUFFICES ASSUME NEW v \in Caller, leaving[t][v] = "idle"
                 PROVE  leaving'[t][v] = "idle"
      OBVIOUS
    <2>1. <<t, v>> # <<s, w>>
      BY <1>0
    <2> QED BY <1>1, <2>1, LeavingEntry
  <1>3. registered' = registered \/ registered' = NoSocket
    BY DEF Unregister, UnregisterRead, UnregisterHash, UnregisterPresence,
           UnregisterMap, UnregisterFails, handlers
  <1>4. CASE UNCHANGED <<phase, open>>
    BY <1>2, <1>3, <1>4 DEF Caller
  <1>5. CASE /\ w = "handler" /\ Goes(s, "gone")
             /\ open' = [open EXCEPT ![s] = FALSE]
             /\ leaving' = [leaving EXCEPT ![s][w] = "idle"]
    <2>1. CASE t = s
      <3>1. phase'[t] = "gone" /\ open'[t] = FALSE
        BY <1>5, <2>1 DEF Goes, TypeOK
      <3>2. leaving'[t]["handler"] = "idle"
        BY <1>5, <2>1, LeavingEntry DEF Stage
      <3> QED BY <1>3, <3>1, <3>2
    <2>2. CASE t # s
      <3>1. phase'[t] = phase[t] /\ open'[t] = open[t]
        BY <1>5, <2>2 DEF Goes, TypeOK
      <3> QED BY <1>2, <1>3, <3>1 DEF Caller
    <2> QED BY <2>1, <2>2
  <1>6. UNCHANGED <<phase, open>> \/ Unregistered(s, w)
    BY Zenon
    DEF Unregister, UnregisterRead, UnregisterHash, UnregisterPresence,
        UnregisterMap, UnregisterFails, handlers
  <1> QED BY <1>4, <1>5, <1>6 DEF Unregistered, Ends, Closes

\* Every step keeps Owned.
LEMMA NextOwned ==
    TypeOK /\ (\A t \in Sockets : Owned(t)) /\ [Next]_vars
        => (\A t \in Sockets : Owned(t))'
  <1> SUFFICES ASSUME TypeOK, \A s \in Sockets : Owned(s), [Next]_vars,
                      NEW t \in Sockets
               PROVE  Owned(t)'
    OBVIOUS
  <1>0. Owned(t)
    OBVIOUS
  <1>1. ASSUME UNCHANGED <<phase, open, registered, leaving>> PROVE Owned(t)'
    BY <1>0, <1>1 DEF Owned
  <1>2. ASSUME NEW s \in Sockets, Disconnect(s) PROVE Owned(t)'
    BY <1>0, <1>2 DEF Disconnect, Closes, Owned, TypeOK
  <1>3. ASSUME NEW s \in Sockets, Leave(s) PROVE Owned(t)'
    <2>1. /\ phase[s] = "serving"
          /\ phase' = [phase EXCEPT ![s] = "leaving"]
          /\ leaving' = [leaving EXCEPT ![s]["handler"] = "read"]
          /\ UNCHANGED <<open, registered>>
      BY <1>3 DEF Leave, Goes
    <2>2. leaving'[t]["callback"] = leaving[t]["callback"]
      BY <2>1, LeavingEntry DEF Stage, Caller
    <2>3. CASE t = s
      BY <1>0, <2>1, <2>2, <2>3 DEF Owned, TypeOK
    <2>4. CASE t # s
      <3>1. leaving'[t]["handler"] = leaving[t]["handler"]
        BY <2>1, <2>4, LeavingEntry DEF Stage, Caller
      <3> QED BY <1>0, <2>1, <2>2, <2>4, <3>1 DEF Owned, TypeOK
    <2> QED BY <2>3, <2>4
  <1>4. CASE CloseRevoked
    <2>1. UNCHANGED <<phase, registered>>
      BY <1>4, Zenon DEF CloseRevoked
    <2>2. ASSUME NEW s \in Sockets, registered = s,
                 open' = [open EXCEPT ![s] = FALSE],
                 leaving' = [leaving EXCEPT ![s]["callback"] = "read"]
          PROVE  Owned(t)'
      <3>1. leaving'[t]["handler"] = leaving[t]["handler"]
        BY <2>2, LeavingEntry DEF Stage, Caller
      <3>2. CASE t = s
        BY <1>0, <2>1, <2>2, <3>1, <3>2 DEF Owned, TypeOK
      <3>3. CASE t # s
        <4>1. leaving'[t]["callback"] = leaving[t]["callback"]
          BY <2>2, <3>3, LeavingEntry DEF Stage, Caller
        <4> QED BY <1>0, <2>1, <2>2, <3>1, <3>3, <4>1 DEF Owned, TypeOK
      <3> QED BY <3>2, <3>3
    <2> QED BY <1>1, <1>4, <2>1, <2>2, Zenon DEF CloseRevoked, Closes
  <1>5. CASE Restart
    <2>1. /\ leaving'[t]["handler"] = "idle" /\ leaving'[t]["callback"] = "idle"
          /\ registered' = NoSocket
      BY <1>5 DEF Restart, Caller
    <2> QED BY <2>1 DEF Owned
  <1>6. ASSUME NEW s \in Sockets, Heartbeat(s) PROVE Owned(t)'
    BY <1>1, <1>6, Zenon DEF Heartbeat, handlers
  <1>7. CASE \/ Revoke \/ NoticeLost \/ Activate \/ Release \/ Broadcast
             \/ SecurityLost \/ HashExpires \/ PresenceExpires \/ UNCHANGED vars
    BY <1>1, <1>7, Zenon
    DEF Revoke, NoticeLost, SecurityLost, Activate, Release, Broadcast,
        HashExpires, PresenceExpires, vars, handlers
  <1> QED
    BY <1>0, <1>2, <1>3, <1>4, <1>5, <1>6, <1>7, HandshakeOwned,
       UnregisterOwned, Zenon
    DEF Next, CalmNext

\* The table drops no open, served connection, whatever unregister calls of
\* other connections run at the same time.
THEOREM OpenConnectionsStay == Spec => OpenStaysMapped
  <1>1. Init => \A t \in Sockets : Owned(t)
    BY DEF Init, Owned, Caller
  <1>2. TypeOK /\ (\A t \in Sockets : Owned(t)) /\ [Next]_vars =>
            [\A s \in Sockets :
                registered = s /\ open[s] /\ phase[s] \in {"mapped", "serving"}
                    => registered' # NoSocket \/ ~open'[s]]_vars
    <2> SUFFICES ASSUME TypeOK, \A t \in Sockets : Owned(t), [Next]_vars,
                        NEW s \in Sockets, registered = s, open[s],
                        phase[s] \in {"mapped", "serving"},
                        registered' = NoSocket
                 PROVE  ~open'[s]
      OBVIOUS
    <2>1. registered # NoSocket /\ open[s] = TRUE /\ Owned(s)
      BY DEF TypeOK
    <2>2. CASE Restart
      BY <2>2 DEF Restart
    <2>3. ASSUME NEW t \in Sockets, NEW w \in Caller, UnregisterMap(t, w)
          PROVE  FALSE
      <3>1. t = s /\ leaving[s][w] = "map"
        BY <2>1, <2>3 DEF UnregisterMap
      <3> QED BY <2>1, <3>1 DEF Owned, Caller
    <2>4. ASSUME NEW t \in Sockets, Handshake(t)
          PROVE  FALSE
      <3>1. registered' \in {registered, t}
        BY <2>4
        DEF Handshake, Challenge, Refuse, ReadDevice, Verify, ReadStop, Welcome,
            Replace, Serve
      <3> QED BY <2>1, <3>1
    <2>5. ASSUME UNCHANGED registered PROVE FALSE
      BY <2>1, <2>5
    <2>6. ASSUME NEW t \in Sockets,
                 Heartbeat(t) \/ Disconnect(t) \/ Leave(t) \/ ServeFails(t)
          PROVE  FALSE
      BY <2>5, <2>6, Zenon DEF Heartbeat, Disconnect, Leave, ServeFails, handlers
    <2>7. ASSUME NEW t \in Sockets, NEW w \in Caller,
                 \/ UnregisterRead(t, w) \/ UnregisterHash(t, w)
                 \/ UnregisterPresence(t, w) \/ UnregisterFails(t, w)
          PROVE  FALSE
      BY <2>5, <2>7, Zenon
      DEF UnregisterRead, UnregisterHash, UnregisterPresence, UnregisterFails,
          handlers
    <2>8. CASE \/ Revoke \/ CloseRevoked \/ NoticeLost \/ Activate \/ Release
               \/ Broadcast \/ SecurityLost \/ HashExpires \/ PresenceExpires
               \/ UNCHANGED vars
      BY <2>5, <2>8, Zenon
      DEF Revoke, CloseRevoked, NoticeLost, SecurityLost, Activate, Release,
          Broadcast, HashExpires, PresenceExpires, vars, handlers
    <2> QED
      BY <2>2, <2>3, <2>4, <2>6, <2>7, <2>8, Zenon
      DEF Next, CalmNext, Unregister
  <1> QED
    BY <1>1, <1>2, NextOwned, TypeCorrect, PTL DEF Spec, OpenStaysMapped

-----------------------------------------------------------------------------
(* Connections outside the table *)

\* The inductive form of ServedIsMapped for one connection: an open, served one
\* is in the table and nobody is about to replace it, and two register calls
\* that wait for a close have met.
Alone(t) ==
    /\ open[t] = TRUE /\ phase[t] \in {"mapped", "serving"} /\ t \notin overlapped
            => registered = t /\ \A q \in Sockets : phase[q] # "replacing"
    /\ phase[t] = "replacing" /\ t \notin overlapped
            => \A q \in Sockets : phase[q] = "replacing" => q = t

\* A step that makes no connection served, none a replacing one, and takes no
\* entry from a connection that stays open.
LEMMA AloneKept ==
    ASSUME NEW t \in Sockets, Alone(t),
           \A q \in Sockets : phase'[q] = "replacing" => phase[q] = "replacing",
           phase'[t] \in {"mapped", "serving"} /\ open'[t] = TRUE
               => /\ phase[t] \in {"mapped", "serving"} /\ open[t] = TRUE
                  /\ registered = t => registered' = t,
           phase'[t] # "gone" /\ t \in overlapped => t \in overlapped'
    PROVE  Alone(t)'
  BY DEF Alone

\* The handler of s moves to a phase that does not concern the table, and may
\* open its socket before it has one or close it.
LEMMA HandlerAlone ==
    ASSUME TypeOK, NEW t \in Sockets, Alone(t), NEW s \in Sockets, NEW p,
           Goes(s, p), p \notin {"mapped", "replacing"},
           p = "serving" => phase[s] = "mapped",
           \A q \in Sockets : q # s \/ p = "serving" => open'[q] = open[q],
           UNCHANGED registered,
           overlapped \ {s} \subseteq overlapped',
           p # "gone" => overlapped' = overlapped
    PROVE  Alone(t)'
  <1>1. \A q \in Sockets : phase'[q] = IF q = s THEN p ELSE phase[q]
    BY DEF Goes, TypeOK
  <1> QED BY <1>1, AloneKept

\* The steps of the handlers before unregister.
LEMMA HandshakeAlone ==
    ASSUME TypeOK, NEW t \in Sockets, \A q \in Sockets : Alone(q),
           NEW s \in Sockets, Handshake(s) \/ ServeFails(s)
    PROVE  Alone(t)'
  <1> USE DEF device
  <1>0. Alone(t) /\ Alone(s)
    OBVIOUS
  <1>1. CASE Challenge(s)
    <2>1. \A q \in Sockets : q # s => open'[q] = open[q]
      BY <1>1 DEF Challenge, TypeOK
    <2>2. Goes(s, "challenged") /\ UNCHANGED <<registered, overlapped>>
      BY <1>1, Zenon DEF Challenge
    <2> QED BY <1>0, <2>1, <2>2, HandlerAlone
  <1>2. CASE Refuse(s) \/ ServeFails(s)
    <2>1. Ends(s) /\ UNCHANGED registered
      BY <1>2, Zenon DEF Refuse, ServeFails
    <2>2. \A q \in Sockets : q # s => open'[q] = open[q]
      BY <2>1 DEF Ends, Closes, TypeOK
    <2> QED BY <1>0, <2>1, <2>2, HandlerAlone DEF Ends
  <1>3. CASE ReadDevice(s) \/ Verify(s)
    BY <1>0, <1>3, HandlerAlone DEF ReadDevice, Verify
  <1>4. CASE ReadStop(s)
    BY <1>0, <1>4, HandlerAlone DEF ReadStop
  <1>5. CASE Serve(s)
    BY <1>0, <1>5, HandlerAlone DEF Serve
  <1>6. CASE Welcome(s)
    <2> DEFINE waiting == {q \in Sockets : phase[q] = "replacing"}
    <2>1. overlapped' = IF waiting = {} THEN overlapped
                        ELSE overlapped \cup waiting \cup {s}
      BY <1>6, Zenon DEF Welcome, Meets
    <2>2. overlapped \subseteq overlapped' /\ waiting \subseteq overlapped'
      BY <2>1
    <2>3. waiting # {} => s \in overlapped'
      BY <2>1
    <2>4. CASE registered = NoSocket
      <3>1. phase' = [phase EXCEPT ![s] = "mapped"] /\ registered' = s
            /\ UNCHANGED open
        BY <1>6, <2>4 DEF Welcome, Goes
      <3>2. \A q \in Sockets : phase'[q] = IF q = s THEN "mapped" ELSE phase[q]
        BY <3>1 DEF TypeOK
      <3>3. CASE t = s
        BY <2>3, <3>1, <3>2, <3>3 DEF Alone
      <3>4. CASE t # s
        BY <1>0, <2>2, <2>4, <3>1, <3>2, <3>4 DEF Alone
      <3> QED BY <3>3, <3>4
    <2>5. CASE registered # NoSocket
      <3>1. phase' = [phase EXCEPT ![s] = "replacing"] /\ registered' = registered
            /\ open' = [open EXCEPT ![registered] = FALSE]
        BY <1>6, <2>5 DEF Welcome, Goes
      <3>2. \A q \in Sockets :
              phase'[q] = IF q = s THEN "replacing" ELSE phase[q]
        BY <3>1 DEF TypeOK
      <3>3. CASE t = s
        BY <2>3, <3>2, <3>3 DEF Alone
      <3>4. CASE t # s
        <4>1. registered = t => open'[t] = FALSE
          BY <3>1 DEF TypeOK
        <4>2. open'[t] = TRUE => open[t] = TRUE
          BY <3>1 DEF TypeOK
        <4>3. ~(/\ open'[t] = TRUE /\ phase'[t] \in {"mapped", "serving"}
                /\ t \notin overlapped')
          BY <1>0, <2>2, <3>2, <3>4, <4>1, <4>2 DEF Alone
        <4>4. phase'[t] = "replacing" => t \in overlapped'
          BY <2>2, <3>2, <3>4
        <4> QED BY <4>3, <4>4 DEF Alone
      <3> QED BY <3>3, <3>4
    <2> QED BY <2>4, <2>5
  <1>7. CASE Replace(s)
    <2>1. /\ phase[s] = "replacing" /\ registered' = s
          /\ phase' = [phase EXCEPT ![s] = "mapped"]
          /\ UNCHANGED <<open, overlapped>>
      BY <1>7 DEF Replace, Goes
    <2>2. \A q \in Sockets : phase'[q] = IF q = s THEN "mapped" ELSE phase[q]
      BY <2>1 DEF TypeOK
    <2>3. CASE t = s
      BY <1>0, <2>1, <2>2, <2>3 DEF Alone
    <2>4. CASE t # s
      BY <1>0, <2>1, <2>2, <2>4 DEF Alone
    <2> QED BY <2>3, <2>4
  <1> QED
    BY <1>1, <1>2, <1>3, <1>4, <1>5, <1>6, <1>7, Zenon DEF Handshake

\* The steps of unregister.
LEMMA UnregisterAlone ==
    ASSUME TypeOK, NEW t \in Sockets, Alone(t), NEW s \in Sockets,
           NEW w \in Caller, Owned(s), Unregister(s, w) \/ UnregisterFails(s, w)
    PROVE  Alone(t)'
  <1> USE DEF device, handlers
  <1>1. CASE UnregisterRead(s, w) \/ UnregisterHash(s, w)
             \/ UnregisterPresence(s, w)
    <2>1. UNCHANGED <<phase, open, registered, overlapped>>
      BY <1>1, Zenon DEF UnregisterRead, UnregisterHash, UnregisterPresence
    <2> QED BY <2>1 DEF Alone
  <1>2. CASE UnregisterMap(s, w) \/ UnregisterFails(s, w)
    <2>1. /\ registered' = registered \/ (registered = s /\ registered' = NoSocket)
          /\ Unregistered(s, w) /\ leaving[s][w] # "idle"
      BY <1>2 DEF UnregisterMap, UnregisterFails
    <2>2. CASE w = "handler"
      <3>1. /\ Ends(s)
            /\ \A q \in Sockets : q # s =>
                 /\ open'[q] = open[q] /\ phase'[q] = phase[q]
                 /\ q \in overlapped => q \in overlapped'
            /\ phase'[s] = "gone"
        BY <2>1, <2>2 DEF Unregistered, Ends, Closes, Goes, TypeOK
      <3>2. registered = t /\ t # s => registered' = t
        BY <2>1
      <3> QED BY <3>1, <3>2, AloneKept
    <2>3. CASE w # "handler"
      <3>1. UNCHANGED <<phase, open, overlapped>> /\ open[s] = FALSE
        BY <2>1, <2>3 DEF Unregistered, Owned, Caller
      <3>2. t # s /\ registered = t => registered' = t
        BY <2>1
      <3> QED BY <3>1, <3>2, AloneKept
    <2> QED BY <2>2, <2>3
  <1> QED BY <1>1, <1>2, Zenon DEF Unregister

\* Every step keeps Alone.
LEMMA NextAlone ==
    TypeOK /\ (\A t \in Sockets : Owned(t) /\ Alone(t)) /\ [Next]_vars
        => (\A t \in Sockets : Alone(t))'
  <1> SUFFICES ASSUME TypeOK, \A s \in Sockets : Owned(s) /\ Alone(s),
                      [Next]_vars, NEW t \in Sockets
               PROVE  Alone(t)'
    OBVIOUS
  <1> USE DEF device, handlers
  <1>0. Alone(t) /\ \A s \in Sockets : Owned(s) /\ Alone(s)
    OBVIOUS
  <1>1. ASSUME UNCHANGED <<phase, registered, overlapped>>,
               open'[t] = TRUE => open[t] = TRUE
        PROVE  Alone(t)'
    BY <1>0, <1>1, AloneKept
  <1>2. ASSUME NEW s \in Sockets, Disconnect(s) PROVE Alone(t)'
    <2>1. /\ UNCHANGED <<phase, registered, overlapped>>
          /\ open'[t] = TRUE => open[t] = TRUE
      BY <1>2 DEF Disconnect, Closes, TypeOK
    <2> QED BY <1>1, <2>1
  <1>3. ASSUME NEW s \in Sockets, Leave(s) PROVE Alone(t)'
    BY <1>0, <1>3, HandlerAlone DEF Leave
  <1>4. CASE CloseRevoked
    <2>1. /\ UNCHANGED <<phase, registered, overlapped>>
          /\ open' = open \/ \E s \in Sockets : Closes(s)
      BY <1>4, Zenon DEF CloseRevoked
    <2>2. open'[t] = TRUE => open[t] = TRUE
      BY <2>1 DEF Closes, TypeOK
    <2> QED BY <1>1, <2>1, <2>2
  <1>5. CASE Restart
    <2>1. open'[t] = FALSE /\ \A q \in Sockets : phase'[q] \in {"new", "gone"}
      BY <1>5 DEF Restart
    <2> QED BY <2>1 DEF Alone
  <1>6. ASSUME NEW s \in Sockets, Heartbeat(s) PROVE Alone(t)'
    BY <1>1, <1>6, Zenon DEF Heartbeat
  <1>7. CASE \/ Revoke \/ NoticeLost \/ Activate \/ Release \/ Broadcast
             \/ SecurityLost \/ HashExpires \/ PresenceExpires \/ UNCHANGED vars
    BY <1>1, <1>7, Zenon
    DEF Revoke, NoticeLost, SecurityLost, Activate, Release, Broadcast,
        HashExpires, PresenceExpires, vars
  <1>8. ASSUME NEW s \in Sockets, Handshake(s) \/ ServeFails(s)
        PROVE  Alone(t)'
    BY <1>0, <1>8, HandshakeAlone
  <1>9. ASSUME NEW s \in Sockets, NEW w \in Caller,
               Unregister(s, w) \/ UnregisterFails(s, w)
        PROVE  Alone(t)'
    BY <1>0, <1>9, UnregisterAlone
  <1> QED
    BY <1>2, <1>3, <1>4, <1>5, <1>6, <1>7, <1>8, <1>9, Zenon DEF Next, CalmNext

\* Only connections whose register calls met are ever served outside the table,
\* for any number of connections, callbacks, failures and restarts.
THEOREM ServedAreMapped == Spec => []ServedIsMapped
  <1> DEFINE Inv == \A t \in Sockets : Owned(t) /\ Alone(t)
  <1>1. Init => Inv
    BY DEF Init, Owned, Alone, Caller
  <1>2. TypeOK /\ Inv => ServedIsMapped
    BY DEF Alone, ServedIsMapped, TypeOK
  <1>3. TypeOK /\ Inv /\ [Next]_vars => Inv'
    BY NextOwned, NextAlone
  <1> HIDE DEF Inv
  <1> QED BY <1>1, <1>2, <1>3, TypeCorrect, PTL DEF Spec
=============================================================================
