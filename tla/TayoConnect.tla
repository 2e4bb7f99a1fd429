------------------------------ MODULE TayoConnect ------------------------------
(***************************************************************************)
(* The constructor of connect/TayoConnect.java.  Every request constructs   *)
(* one, on its own thread, to get a Fabric contract for its case (lender on *)
(* the car channel, lender or borrower on the sharing channel).  The        *)
(* settings go through static fields, which all constructors running at     *)
(* once share: each assignment evaluates its right side and then writes.    *)
(***************************************************************************)
EXTENDS Naturals, Sequences

CONSTANTS Threads, None

VARIABLES
  static,      \* the static fields, "null" before the first constructor
  case,        \* thread -> the caseNumber it was called with
  line,        \* thread -> the statement it is at: 0 idle, Len(Program) + 1 done
  value,       \* thread -> the right side it has evaluated, or None
  contract,    \* thread -> the settings its contract is built from so far
  overlapped   \* history: thread -> cases of the constructors in a chain of overlaps
               \* with its own

vars == <<static, case, line, value, contract, overlapped>>

Lender == [ROLE |-> "lender", MSP_ID |-> "lender", PEER_ENDPOINT |-> "lender"]
Borrower == [ROLE |-> "borrower", MSP_ID |-> "borrower", PEER_ENDPOINT |-> "borrower"]

\* A mutant: case 2 keeps the default channel of the samples.
CaseConfigDefaultChannel(n) ==
  LET role == IF n = 3 THEN Borrower ELSE Lender
      channel == IF n = 1 THEN "car" ELSE IF n = 2 THEN "mychannel" ELSE "sharing"
  IN  [f \in {"ROLE", "MSP_ID", "PEER_ENDPOINT", "CHANNEL_NAME", "CHAINCODE_NAME"} |->
         IF f \in DOMAIN role THEN role[f] ELSE channel]

\* getCaseConfig; the MSP and the peer are named after their role.
CaseConfig(n) ==
  LET role == IF n = 3 THEN Borrower ELSE Lender
      channel == IF n = 1 THEN "car" ELSE "sharing"
  IN  [f \in {"ROLE", "MSP_ID", "PEER_ENDPOINT", "CHANNEL_NAME", "CHAINCODE_NAME"} |->
         IF f \in DOMAIN role THEN role[f] ELSE channel]

\* A mutant: the paths are made before the role they are made from.
AssignedPathsFirst ==
  <<"OVERRIDE_AUTH", "CRYPTO_PATH", "CERT_PATH", "KEY_DIR_PATH", "TLS_CERT_PATH",
    "ROLE", "MSP_ID", "CHANNEL_NAME", "CHAINCODE_NAME", "PEER_ENDPOINT">>

Assigned ==
  <<"ROLE", "MSP_ID", "CHANNEL_NAME", "CHAINCODE_NAME", "PEER_ENDPOINT",
    "OVERRIDE_AUTH", "CRYPTO_PATH", "CERT_PATH", "KEY_DIR_PATH", "TLS_CERT_PATH">>

\* The order newGrpcConnection, newIdentity, newSigner and the constructor
\* read the fields in.
UsedInOrder ==
  <<"TLS_CERT_PATH", "PEER_ENDPOINT", "OVERRIDE_AUTH", "CERT_PATH", "MSP_ID",
    "KEY_DIR_PATH", "CHANNEL_NAME", "CHAINCODE_NAME">>

Fields == {Assigned[i] : i \in DOMAIN Assigned}
Paths == {"CERT_PATH", "KEY_DIR_PATH", "TLS_CERT_PATH"}
Done == Len(Assigned) + Len(UsedInOrder) + 1
Failed == Done + 1
Running(t) == line[t] \in 1 .. Done - 1
Used(t) == UsedInOrder[line[t] - Len(Assigned)]

\* Settings assigned from the thread's own caseConfig; the others read ROLE and
\* CRYPTO_PATH, which are shared.
Local(f) == f \in DOMAIN CaseConfig(1)

\* The right side of an assignment that reads static fields; a path made of two
\* roles, or of no role, leads nowhere.
RightSide(f) ==
  IF f \in Paths /\ (static["ROLE"] = "null" \/ static["CRYPTO_PATH"] # static["ROLE"])
  THEN "nowhere"
  ELSE static["ROLE"]

Init ==
  /\ static = [f \in Fields |-> "null"]
  /\ case = [t \in Threads |-> 1]
  /\ line = [t \in Threads |-> 0]
  /\ value = [t \in Threads |-> None]
  /\ contract = [t \in Threads |-> <<>>]
  /\ overlapped = [t \in Threads |-> {}]

-----------------------------------------------------------------------------
Construct(t, n) ==
  /\ ~Running(t)
  /\ case' = [case EXCEPT ![t] = n]
  /\ line' = [line EXCEPT ![t] = 1]
  /\ contract' = [contract EXCEPT ![t] = <<>>]
  /\ overlapped' = [u \in Threads |->
       IF u = t THEN UNION {{case[v]} \cup overlapped[v] :
                              v \in {v \in Threads \ {t} : Running(v)}}
       ELSE IF Running(u) THEN overlapped[u] \cup {n} ELSE overlapped[u]]
  /\ UNCHANGED <<static, value>>

Evaluate(t) ==
  /\ line[t] \in DOMAIN Assigned
  /\ value[t] = None /\ ~Local(Assigned[line[t]])
  /\ value' = [value EXCEPT ![t] = RightSide(Assigned[line[t]])]
  /\ UNCHANGED <<static, case, line, contract, overlapped>>

Assign(t) ==
  /\ line[t] \in DOMAIN Assigned
  /\ LET f == Assigned[line[t]]
     IN  IF Local(f) THEN static' = [static EXCEPT ![f] = CaseConfig(case[t])[f]]
         ELSE value[t] # None /\ static' = [static EXCEPT ![f] = value[t]]
  /\ value' = [value EXCEPT ![t] = None]
  /\ line' = [line EXCEPT ![t] = @ + 1]
  /\ UNCHANGED <<case, contract, overlapped>>

\* A field goes into the contract; a file that is not there is an IOException.
Use(t) ==
  /\ line[t] \in Len(Assigned) + 1 .. Done - 1
  /\ static[Used(t)] # "nowhere"
  /\ contract' = [contract EXCEPT ![t] = Append(@, static[Used(t)])]
  /\ line' = [line EXCEPT ![t] = @ + 1]
  /\ UNCHANGED <<static, case, value, overlapped>>

NoSuchFile(t) ==
  /\ line[t] \in Len(Assigned) + 1 .. Done - 1
  /\ static[Used(t)] = "nowhere"
  /\ line' = [line EXCEPT ![t] = Failed]
  /\ contract' = [contract EXCEPT ![t] = <<>>]
  /\ UNCHANGED <<static, case, value, overlapped>>

Next ==
  \E t \in Threads :
    \/ \E n \in 1 .. 3 : Construct(t, n)
    \/ Evaluate(t) \/ Assign(t) \/ Use(t) \/ NoSuchFile(t)

Spec == Init /\ [][Next]_vars

-----------------------------------------------------------------------------
(* Properties. *)

\* What a used field is for a case.
Own(n, f) ==
  IF f \in DOMAIN CaseConfig(n) THEN CaseConfig(n)[f] ELSE CaseConfig(n)["ROLE"]
Built(t, f) == contract[t][CHOOSE i \in DOMAIN UsedInOrder : UsedInOrder[i] = f]
Complete(t) == line[t] = Done
RoleFields == Paths \cup {"PEER_ENDPOINT", "OVERRIDE_AUTH", "MSP_ID"}

\* The static fields hold settings, and a contract grows line by line.
TypeOK ==
  /\ \A f \in Fields : static[f] \in {"null", "lender", "borrower", "car", "sharing", "nowhere"}
  /\ \A t \in Threads : /\ case[t] \in 1 .. 3 /\ line[t] \in 0 .. Failed
                        /\ Complete(t) => Len(contract[t]) = Len(UsedInOrder)

\* A setting of a contract is that of the case asked for whenever every
\* constructor in its chain of overlaps agrees on it, and constructing fails only among
\* constructors of different roles (every constructor writes each field
\* before it reads any).
AgreedIsOwn ==
  \A t \in Threads :
    LET agreed(f) == \A n \in overlapped[t] : Own(n, f) = Own(case[t], f)
    IN  /\ Complete(t) => \A i \in DOMAIN UsedInOrder :
             agreed(UsedInOrder[i])
               => Built(t, UsedInOrder[i]) = Own(case[t], UsedInOrder[i])
        /\ line[t] = Failed => ~agreed("OVERRIDE_AUTH")

\* getCaseConfig: case 3 is "the borrower on the sharing channel", cases 1 and
\* 2 the lender.  A contract whose identity, key, peer and TLS root fit each
\* other, one a peer accepts, signs as the member asked for.
AcceptedSignsAsAsked ==
  \A t \in Threads :
    Complete(t) /\ (\A f \in RoleFields : Built(t, f) = Built(t, "MSP_ID"))
      => Built(t, "MSP_ID") = Own(case[t], "MSP_ID")
==============================================================================
