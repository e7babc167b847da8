-------------------------- MODULE PowerPortProofs ---------------------------
(***************************************************************************)
(* Proofs about PowerPort: an acknowledged power command has taken effect. *)
(***************************************************************************)
EXTENDS PowerPort, TLAPS

\* The port's variables keep their types.
LEMMA PortTypeInit == Init => TypeOK
BY DEF Init, TypeOK, None, Cmd, Off, On, Ping

\* Every action of the port keeps the types of its state.
LEMMA PortTypeStep == TypeOK /\ [Next]_vars => TypeOK'
<1> SUFFICES ASSUME TypeOK, [Next]_vars PROVE TypeOK'
  OBVIOUS
<1> USE DEF TypeOK, Cmd, Off, On, Ping, None
<1>1. ASSUME NEW c \in Cmd, Ask(c) PROVE TypeOK'
  BY <1>1 DEF Ask
<1>2. CASE Execute
  BY <1>2 DEF Execute, Effect
<1>3. CASE Open \/ Ack \/ Fail \/ Drop \/ Reboot
  BY <1>3 DEF Open, Ack, Fail, Drop, Reboot
<1>4. CASE UNCHANGED vars
  BY <1>4 DEF vars
<1> QED
  BY <1>1, <1>2, <1>3, <1>4 DEF Next

\* TypeOK, for every behaviour of the port.
THEOREM PortTypeCorrect == Spec => []TypeOK
<1>1. Spec => TypeOK /\ [][Next]_vars
  BY PortTypeInit DEF Spec
<1> QED
  BY <1>1, PortTypeStep, PTL

-----------------------------------------------------------------------------

\* Nothing was asked yet, so nothing was left undone.
LEMMA PortInvInit == Init => PortInv
BY DEF Init, PortInv, None

\* The induction step.  Only Execute and Reboot touch the supply, and both
\* empty the line; Ack needs the command served.
LEMMA PortInvStep == TypeOK /\ PortInv /\ [Next]_vars => PortInv'
<1> SUFFICES ASSUME TypeOK, PortInv, [Next]_vars PROVE PortInv'
  OBVIOUS
<1> USE DEF TypeOK, PortInv, Settles, Obeyed, Cmd, Off, On, Ping, None
<1>1. ASSUME NEW c \in Cmd, Ask(c) PROVE PortInv'
  BY <1>1 DEF Ask
<1>2. CASE Execute
  BY <1>2 DEF Execute, Effect
<1>3. CASE Ack
  BY <1>3 DEF Ack
<1>4. CASE Fail
  BY <1>4 DEF Fail
<1>5. CASE Open \/ Drop
  BY <1>5 DEF Open, Drop
<1>6. CASE Reboot
  <2>1. served' => served
    BY <1>6, Zenon DEF Reboot
  <2>2. power' /\ rebooted' /\ inflight' = None
    BY <1>6 DEF Reboot
  <2>3. busy' = busy /\ last' = last /\ result' = result
    BY <1>6 DEF Reboot
  <2> QED
    BY <2>1, <2>2, <2>3
<1>7. CASE UNCHANGED vars
  BY <1>7 DEF vars
<1> QED
  BY <1>1, <1>2, <1>3, <1>4, <1>5, <1>6, <1>7 DEF Next

\* The inductive invariant gives what the port promises of an acknowledgement.
LEMMA PortInvImplies == PortInv => Agreement /\ OnHolds
BY DEF PortInv, Settles, Agreement, OnHolds

\* sendCommand's true can be trusted: after an acknowledged power command the
\* supply is as asked, unless the board restarted, and on even then after "on".
THEOREM PortAgreement == Spec => [](Agreement /\ OnHolds)
<1>1. Spec => TypeOK /\ PortInv /\ [][Next]_vars
  BY PortTypeInit, PortInvInit DEF Spec
<1> QED
  BY <1>1, PortTypeStep, PortInvStep, PortInvImplies, PTL

=============================================================================
