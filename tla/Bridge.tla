------------------------------- MODULE Bridge -------------------------------
(***************************************************************************)
(* One WebSocket of a client, bridged to an engine behind the panel:       *)
(*   edge   _bridge_ws (app/main.py): VLESS, Trojan, ... to Xray           *)
(*   web    telegram_web_socket (app/telegram/webapp.py): Telegram Web     *)
(*   relay  web_relay_socket (app/telegram/webrelay.py): the WEB proxy     *)
(* The last two share _pump, which stops both copiers when the first ends; *)
(* the edge waits for both.  Bridges do not touch each other, so a         *)
(* behaviour follows one.                                                  *)
(*                                                                         *)
(* The two ends live outside: they send, close, or vanish so that only a   *)
(* ping tells.  Messages of an end are numbered; what an end sent before   *)
(* it closed can still be read.  Headers and query are left out.           *)
(***************************************************************************)
EXTENDS Naturals, Sequences

CONSTANTS
    Kinds,      \* the kinds of bridge there are
    MaxSent     \* bound: messages an end sends

ASSUME BoundIsNat == MaxSent \in Nat

Ends == {"client", "engine"}
Other(e) == IF e = "client" THEN "engine" ELSE "client"
Pumps == {"web", "relay"}

VARIABLES
    kind,
    on,       \* enabled() or published(): the switch of a pump kind
    stage,    \* of the handler: new, dialling, copying, leaving, returned
    end,      \* none, open, closed (and that is known), vanished (it is not)
    sent,     \* messages each end has sent
    box,      \* ... and no copier has taken
    copier,   \* of the messages of each end: off, taking, giving, ended
    held,     \* the message it took, 0 when none
    got       \* history: what each end received

ends == <<end, sent, got>>
tunnelVars == <<kind, on, stage, ends, box, copier, held>>

Gone(e) == end[e] \in {"closed", "vanished"}

-----------------------------------------------------------------------------
(* The handler.                                                            *)

Close(e) == end' = [end EXCEPT ![e] = IF @ = "none" THEN "none" ELSE "closed"]

\* Before the first await: a pump kind reads its switch and refuses without a
\* socket; the edge accepts.
Arrive ==
    /\ stage = "new"
    /\ IF kind \in Pumps
       THEN /\ stage' = IF on THEN "dialling" ELSE "returned"
            /\ UNCHANGED end
       ELSE /\ stage' = "dialling"
            /\ end' = [end EXCEPT !["client"] = "open"]
    /\ UNCHANGED <<kind, on, sent, got, box, copier, held>>

\* The engine answers: a pump kind accepts its client now.
Dialled ==
    /\ stage = "dialling"
    /\ stage' = "copying"
    /\ end' = [e \in Ends |-> IF end[e] = "none" THEN "open" ELSE end[e]]
    /\ copier' = [e \in Ends |-> "taking"]
    /\ UNCHANGED <<kind, on, sent, got, box, held>>

\* Refused, or open_timeout: 1011.
DialFails ==
    /\ stage = "dialling"
    /\ stage' = "returned"
    /\ Close("client")
    /\ UNCHANGED <<kind, on, sent, got, box, copier, held>>

(***************************************************************************)
(* The copiers: take a message of e, give it to the other end.             *)
(***************************************************************************)
Take(e) ==
    /\ copier[e] = "taking" /\ box[e] # <<>>
    /\ held' = [held EXCEPT ![e] = Head(box[e])]
    /\ box' = [box EXCEPT ![e] = Tail(@)]
    /\ copier' = [copier EXCEPT ![e] = "giving"]
    /\ UNCHANGED <<kind, on, stage, ends>>

\* websocket.disconnect, ConnectionClosed: after the messages before it.
\* Mutant: the type of the message is not looked at.
SeesEndOfEngine(e) ==
    /\ e = "engine"
    /\ copier[e] = "taking" /\ box[e] = <<>> /\ end[e] = "closed"
    /\ copier' = [copier EXCEPT ![e] = "ended"]
    /\ UNCHANGED <<kind, on, stage, ends, box, held>>
SeesEnd(e) ==
    /\ copier[e] = "taking" /\ box[e] = <<>> /\ end[e] = "closed"
    /\ copier' = [copier EXCEPT ![e] = "ended"]
    /\ UNCHANGED <<kind, on, stage, ends, box, held>>

\* A send raises when the other end is known to be closed; to one that vanished
\* it goes nowhere.
Give(e) ==
    /\ copier[e] = "giving"
    /\ copier' = [copier EXCEPT ![e] = IF end[Other(e)] = "closed" THEN "ended" ELSE "taking"]
    /\ held' = [held EXCEPT ![e] = 0]
    /\ got' = IF end[Other(e)] = "open" THEN [got EXCEPT ![Other(e)] = Append(@, held[e])] ELSE got
    /\ UNCHANGED <<kind, on, stage, end, sent, box>>

\* What the handler waits for: gather(), or wait(FIRST_COMPLETED).
\* Mutant: a pump waits for both copiers.
OverBoth == \A e \in Ends : copier[e] = "ended"
\* Mutant: the edge does not.
OverEither == \E e \in Ends : copier[e] = "ended"
Over ==
    \/ kind \in Pumps /\ \E e \in Ends : copier[e] = "ended"
    \/ kind = "edge" /\ \A e \in Ends : copier[e] = "ended"

\* The copier that is left is cancelled: a message in its send may or may not be
\* out.  The upstream is closed on the way out of `async with`.
Leave ==
    /\ stage = "copying" /\ Over
    /\ stage' = "leaving"
    /\ copier' = [e \in Ends |-> "ended"]
    /\ held' = [e \in Ends |-> 0]
    /\ \E out \in SUBSET {e \in Ends : copier[e] = "giving" /\ end[Other(e)] = "open"} :
        got' = [e \in Ends |-> IF Other(e) \in out THEN Append(got[e], held[Other(e)]) ELSE got[e]]
    /\ Close("engine")
    /\ UNCHANGED <<kind, on, sent, box>>

\* websocket.close(); for the edge uvicorn does it when the handler has returned.
Finish ==
    /\ stage = "leaving"
    /\ stage' = "returned"
    /\ Close("client")
    /\ UNCHANGED <<kind, on, sent, got, box, copier, held>>

-----------------------------------------------------------------------------
(* The ends (external).                                                    *)

Sends(e) ==
    /\ end[e] = "open" /\ sent[e] < MaxSent
    /\ sent' = [sent EXCEPT ![e] = @ + 1]
    /\ box' = [box EXCEPT ![e] = Append(@, sent'[e])]
    /\ UNCHANGED <<kind, on, stage, end, got, copier, held>>

Closes(e) ==
    /\ end[e] = "open"
    /\ Close(e)
    /\ UNCHANGED <<kind, on, stage, sent, got, box, copier, held>>

\* The network drops it.  The relay is on the loopback, whose kernel always tells.
Vanishes(e) ==
    /\ end[e] = "open" /\ ~(kind \in {"edge", "relay"} /\ e = "engine")
    /\ end' = [end EXCEPT ![e] = "vanished"]
    /\ UNCHANGED <<kind, on, stage, sent, got, box, copier, held>>

\* uvicorn pings the client; a pump kind dials with ping_interval=None.
PingFails ==
    /\ end["client"] = "vanished"
    /\ Close("client")
    /\ UNCHANGED <<kind, on, stage, sent, got, box, copier, held>>

\* Xray closes a connection nothing went through for connIdle (300 s).
IdleCloses ==
    /\ kind = "edge" /\ end["engine"] = "open"
    /\ \A e \in Ends : copier[e] # "giving" /\ (copier[e] = "taking" => box[e] = <<>>)
    /\ Close("engine")
    /\ UNCHANGED <<kind, on, stage, sent, got, box, copier, held>>

(***************************************************************************)
(* The admin turns the feature off.  The supervisor then stops the relay,  *)
(* whose sockets close; nothing tells a tunnel of Telegram Web.            *)
(***************************************************************************)
SwitchOff ==
    /\ kind \in Pumps /\ on
    /\ on' = FALSE
    /\ UNCHANGED <<kind, stage, ends, box, copier, held>>

RelayStops ==
    /\ kind = "relay" /\ ~on /\ end["engine"] = "open"
    /\ Close("engine")
    /\ UNCHANGED <<kind, on, stage, sent, got, box, copier, held>>

TunnelInit ==
    /\ kind \in Kinds
    /\ on \in BOOLEAN
    /\ stage = "new"
    /\ end = [e \in Ends |-> "none"]
    /\ sent = [e \in Ends |-> 0] /\ box = [e \in Ends |-> <<>>]
    /\ copier = [e \in Ends |-> "off"] /\ held = [e \in Ends |-> 0]
    /\ got = [e \in Ends |-> <<>>]

TunnelNext ==
    \/ Arrive \/ Dialled \/ DialFails \/ Leave \/ Finish
    \/ \E e \in Ends : Take(e) \/ SeesEnd(e) \/ Give(e)
    \/ \E e \in Ends : Sends(e) \/ Closes(e) \/ Vanishes(e)
    \/ PingFails \/ IdleCloses \/ SwitchOff \/ RelayStops

(***************************************************************************)
(* The event loop runs what can run, a dial has a timeout, uvicorn and the *)
(* engine's idle timer work, and a switched-off relay is stopped.  The     *)
(* ends owe nothing.                                                       *)
(***************************************************************************)
TunnelFairness ==
    /\ WF_tunnelVars(Arrive) /\ WF_tunnelVars(Dialled \/ DialFails) /\ WF_tunnelVars(Leave) /\ WF_tunnelVars(Finish)
    /\ \A e \in Ends : WF_tunnelVars(Take(e) \/ SeesEnd(e)) /\ WF_tunnelVars(Give(e))
    /\ WF_tunnelVars(PingFails) /\ WF_tunnelVars(IdleCloses) /\ WF_tunnelVars(RelayStops)

TunnelSpec == TunnelInit /\ [][TunnelNext]_tunnelVars /\ TunnelFairness

-----------------------------------------------------------------------------
(* Properties.                                                             *)

TunnelTypeOK ==
    /\ kind \in Kinds /\ on \in BOOLEAN
    /\ stage \in {"new", "dialling", "copying", "leaving", "returned"}
    /\ end \in [Ends -> {"none", "open", "closed", "vanished"}]
    /\ sent \in [Ends -> 0..MaxSent] /\ held \in [Ends -> 0..MaxSent]
    /\ box \in [Ends -> Seq(1..MaxSent)] /\ got \in [Ends -> Seq(1..MaxSent)]
    /\ copier \in [Ends -> {"off", "taking", "giving", "ended"}]
    /\ \A e \in Ends :
        /\ held[e] # 0 <=> copier[e] = "giving"
        /\ stage \in {"new", "dialling"} => copier[e] = "off"
        /\ copier[e] \in {"taking", "giving"} => stage = "copying"
        /\ stage = "new" => end[e] = "none"
        /\ stage = "copying" => end[e] # "none"

\* The first n messages of an end.
Numbers(n) == [i \in 1..n |-> i]

\* A tunnel is a byte stream to the protocol in it: an end gets a prefix of what the
\* other sent, in its order, and on the edge the whole of it when both copiers are
\* done and the end itself had not left.  That is what waiting for both is for: the
\* answer Xray sends before it closes is not lost to a message the client sends after
\* (main.py:932-949).
Faithful ==
    \A e \in Ends :
        /\ \E n \in 0..sent[e] : got[Other(e)] = Numbers(n)
        /\ kind = "edge" /\ stage = "copying" /\ Over /\ end[Other(e)] = "open" =>
             got[Other(e)] = Numbers(sent[e])

\* Once the client has left, its tunnel is torn down: the copiers end and both
\* sockets are closed, on the edge no later than Xray's idle timer (main.py:949).
ClientReleases == Gone("client") ~> (stage = "returned" /\ end["engine"] \in {"none", "closed"})

\* Once the engine has closed, the client of a pump kind is told (webapp.py:547,
\* "until either side hangs up").
EngineReleases == (kind \in Pumps /\ end["engine"] = "closed") ~> (stage = "returned" /\ end["client"] = "closed")
=============================================================================
