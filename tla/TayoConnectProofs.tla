--------------------------- MODULE TayoConnectProofs ---------------------------
(***************************************************************************)
(* Proofs about TayoConnect, for any number of threads and constructors.    *)
(***************************************************************************)
EXTENDS TayoConnect, TLAPS

Settings == {"null", "lender", "borrower", "car", "sharing", "nowhere"}
Role(n) == CaseConfig(n)["ROLE"]

Typed ==
  /\ static \in [Fields -> Settings]
  /\ case \in [Threads -> 1 .. 3]
  /\ line \in [Threads -> 0 .. Failed]
  /\ value \in [Threads -> Settings \cup {None}]
  /\ contract \in [Threads -> Seq(Settings)]
  /\ overlapped \in [Threads -> SUBSET (1 .. 3)]

\* The cases of the chain of overlaps a running constructor is in: one chain at a time.
Chain(t) == {case[t]} \cup overlapped[t]
OneChain == \A t, u \in Threads : Running(t) /\ Running(u) => Chain(t) = Chain(u)

\* The chain agrees on a setting.
Same(t, f) == \A n \in overlapped[t] : Own(n, f) = Own(case[t], f)

\* A field the constructor has written is its own where the chain agrees, whoever has
\* written it since.
WrittenOK(t) ==
  \A i \in 1 .. 10 : i < line[t] /\ Same(t, Assigned[i]) =>
    static[Assigned[i]] = Own(case[t], Assigned[i])
ValueOK(t) ==
  /\ line[t] \notin 1 .. 10 => value[t] = None
  /\ line[t] \in 1 .. 10 /\ value[t] # None =>
       /\ ~Local(Assigned[line[t]])
       /\ Same(t, Assigned[line[t]]) => value[t] = Own(case[t], Assigned[line[t]])
ContractOK(t) ==
  \A j \in 1 .. Len(contract[t]) :
    j \in 1 .. 8 /\ (Same(t, UsedInOrder[j]) => contract[t][j] = Own(case[t], UsedInOrder[j]))
LengthOK(t) ==
  /\ line[t] \in 1 .. 10 => contract[t] = <<>>
  /\ line[t] \in 11 .. Done => Len(contract[t]) = line[t] - 11
ThreadOK(t) ==
  /\ Running(t) => WrittenOK(t)
  /\ ValueOK(t) /\ ContractOK(t) /\ LengthOK(t)
  /\ line[t] = Failed => ~Same(t, "OVERRIDE_AUTH")

SettingsOK == \A f \in Fields : Local(f) => static[f] # "nowhere"

ConnectInv == Typed /\ OneChain /\ SettingsOK /\ \A t \in Threads : ThreadOK(t)

-----------------------------------------------------------------------------
(* The settings. *)

LEMMA Lines ==
  /\ Len(Assigned) = 10 /\ Len(UsedInOrder) = 8 /\ Done = 19 /\ Failed = 20
  /\ DOMAIN Assigned = 1 .. 10 /\ DOMAIN UsedInOrder = 1 .. 8
BY DEF Assigned, UsedInOrder, Done, Failed

LEMMA RunningIs ==
  \A u \in Threads : /\ Running(u) <=> line[u] \in 1 .. 18
                     /\ Running(u)' <=> line'[u] \in 1 .. 18
<1>1. Done - 1 = 18
  BY Lines
<1>2. (Done - 1)' = 18
  BY DEF Done, Assigned, UsedInOrder
<1> QED
  BY <1>1, <1>2 DEF Running

LEMMA FieldsAre ==
  /\ Assigned[1] = "ROLE" /\ Assigned[2] = "MSP_ID" /\ Assigned[3] = "CHANNEL_NAME"
  /\ Assigned[4] = "CHAINCODE_NAME" /\ Assigned[5] = "PEER_ENDPOINT"
  /\ Assigned[6] = "OVERRIDE_AUTH" /\ Assigned[7] = "CRYPTO_PATH"
  /\ Assigned[8] = "CERT_PATH" /\ Assigned[9] = "KEY_DIR_PATH"
  /\ Assigned[10] = "TLS_CERT_PATH"
BY DEF Assigned

LEMMA UsedAre ==
  /\ UsedInOrder[1] = "TLS_CERT_PATH" /\ UsedInOrder[2] = "PEER_ENDPOINT"
  /\ UsedInOrder[3] = "OVERRIDE_AUTH" /\ UsedInOrder[4] = "CERT_PATH"
  /\ UsedInOrder[5] = "MSP_ID" /\ UsedInOrder[6] = "KEY_DIR_PATH"
  /\ UsedInOrder[7] = "CHANNEL_NAME" /\ UsedInOrder[8] = "CHAINCODE_NAME"
BY DEF UsedInOrder

LEMMA FieldsOfLines == \A i \in 1 .. 10 : Assigned[i] \in Fields
BY Lines DEF Fields

\* Whatever is used has been assigned.
LEMMA UsedIsAssigned == \A j \in 1 .. 8 : \E i \in 1 .. 10 : UsedInOrder[j] = Assigned[i]
<1>1. ASSUME NEW j \in 1 .. 8 PROVE \E i \in 1 .. 10 : UsedInOrder[j] = Assigned[i]
  <2>1. j = 1 \/ j = 2 \/ j = 3 \/ j = 4 \/ j = 5 \/ j = 6 \/ j = 7 \/ j = 8
    OBVIOUS
  <2> QED
    BY <2>1, FieldsAre, UsedAre
<1> QED
  BY <1>1

LocalFields == {"ROLE", "MSP_ID", "PEER_ENDPOINT", "CHANNEL_NAME", "CHAINCODE_NAME"}

LEMMA LocalIs == \A f : Local(f) <=> f \in LocalFields
BY DEF Local, CaseConfig, LocalFields

LEMMA OwnIs ==
  ASSUME NEW n \in 1 .. 3
  PROVE  /\ Role(n) \in {"lender", "borrower"}
         /\ \A f : Local(f) => Own(n, f) = CaseConfig(n)[f]
         /\ \A f : Local(f) => Own(n, f) \in {"lender", "borrower", "car", "sharing"}
         /\ \A f : ~Local(f) => Own(n, f) = Role(n)
         /\ Own(n, "ROLE") = Role(n)
<1> USE DEF CaseConfig, Lender, Borrower
<1>1. DOMAIN CaseConfig(n) = LocalFields
  BY DEF LocalFields
<1>2. Role(n) \in {"lender", "borrower"}
  BY DEF Role
<1>3. \A f \in LocalFields : CaseConfig(n)[f] \in {"lender", "borrower", "car", "sharing"}
  BY DEF LocalFields
<1> QED
  BY <1>1, <1>2, <1>3, LocalIs DEF Own, Role, LocalFields

-----------------------------------------------------------------------------
LEMMA ConnectInit == Init => ConnectInv
<1> SUFFICES ASSUME Init PROVE ConnectInv
  OBVIOUS
<1> USE Lines DEF Init
<1>1. Typed
  BY DEF Typed, Settings
<1>2. OneChain /\ \A t \in Threads : ThreadOK(t)
  BY DEF OneChain, Running, ThreadOK, WrittenOK, ValueOK, ContractOK, LengthOK
<1>3. SettingsOK
  BY DEF SettingsOK
<1> QED
  BY <1>1, <1>2, <1>3 DEF ConnectInv

\* Those that are running are joined by another: their chain and its are one.
LEMMA ConstructInv ==
  ASSUME ConnectInv, NEW t \in Threads, NEW n \in 1 .. 3, Construct(t, n)
  PROVE  ConnectInv'
<1> USE Lines
<1> DEFINE joined == UNION {{case[v]} \cup overlapped[v] : v \in {v \in Threads \ {t} : Running(v)}}
<1>1. /\ ~Running(t) /\ UNCHANGED <<static, value>>
      /\ case' = [case EXCEPT ![t] = n] /\ line' = [line EXCEPT ![t] = 1]
      /\ contract' = [contract EXCEPT ![t] = <<>>]
      /\ overlapped' = [u \in Threads |->
           IF u = t THEN joined
           ELSE IF Running(u) THEN overlapped[u] \cup {n} ELSE overlapped[u]]
  BY DEF Construct
<1>2. /\ case \in [Threads -> 1 .. 3] /\ line \in [Threads -> 0 .. Failed]
      /\ contract \in [Threads -> Seq(Settings)] /\ overlapped \in [Threads -> SUBSET (1 .. 3)]
  BY DEF ConnectInv, Typed
<1>3. joined \in SUBSET (1 .. 3)
  BY <1>2
<1>4. \A v \in Threads \ {t} : Running(v) => Chain(v) \subseteq joined
  BY DEF Chain
<1>5. ASSUME NEW c \in joined PROVE \E v \in Threads \ {t} : Running(v) /\ c \in Chain(v)
  BY <1>5 DEF Chain
<1> HIDE DEF joined
<1>6. /\ case'[t] = n /\ line'[t] = 1 /\ contract'[t] = <<>> /\ overlapped'[t] = joined
      /\ \A u \in Threads \ {t} :
           /\ case'[u] = case[u] /\ line'[u] = line[u] /\ contract'[u] = contract[u]
           /\ overlapped'[u] = IF Running(u) THEN overlapped[u] \cup {n} ELSE overlapped[u]
  BY <1>1, <1>2
<1>7. Typed'
  BY <1>1, <1>2, <1>3 DEF ConnectInv, Typed
<1>8. /\ Running(t)'
      /\ \A u \in Threads \ {t} : Running(u)' <=> Running(u)
  <2>1. line'[t] \in 1 .. 18 /\ \A u \in Threads \ {t} : line'[u] = line[u]
    BY <1>1, <1>2
  <2>2. ASSUME NEW u \in Threads, line'[u] = line[u] PROVE Running(u)' <=> Running(u)
    BY <2>2, RunningIs
  <2>3. Running(t)'
    BY <2>1, RunningIs
  <2> QED
    BY <2>1, <2>2, <2>3
<1>9. ASSUME NEW u \in Threads, Running(u)' PROVE Chain(u)' = {n} \cup joined
  <2>1. CASE u = t
    BY <1>6, <2>1 DEF Chain
  <2>2. CASE u # t
    <3>1. Running(u) /\ Chain(u)' = Chain(u) \cup {n}
      BY <1>6, <1>8, <1>9, <2>2 DEF Chain
    <3>2. \A c \in joined : c \in Chain(u)
      BY <1>5, <3>1 DEF ConnectInv, OneChain
    <3> QED
      BY <1>4, <2>2, <3>1, <3>2
  <2> QED
    BY <2>1, <2>2
<1>10. OneChain'
  BY <1>9 DEF OneChain
<1>11. ASSUME NEW u \in Threads PROVE ThreadOK(u)'
  <2>1. ThreadOK(u)
    BY DEF ConnectInv
  <2>2. CASE u = t
    <3>1. value[t] = None
      BY <1>1, <1>2, <2>1, <2>2 DEF ThreadOK, ValueOK, Running
    <3> QED
      BY <1>1, <1>6, <2>2, <3>1
      DEF ThreadOK, WrittenOK, ValueOK, ContractOK, LengthOK
  <2>3. CASE u # t
    <3>1. \A f : Same(u, f)' => Same(u, f)
      BY <1>6, <2>3 DEF Same
    <3>2. ~Running(u) => \A f : Same(u, f)' <=> Same(u, f)
      BY <1>6, <2>3 DEF Same
    <3>3. Running(u) => WrittenOK(u)'
      BY <1>1, <1>6, <2>1, <2>3, <3>1 DEF ThreadOK, WrittenOK
    <3>4. ValueOK(u)' /\ LengthOK(u)'
      BY <1>1, <1>6, <2>1, <2>3, <3>1 DEF ThreadOK, ValueOK, LengthOK
    <3>5. ContractOK(u)'
      BY <1>1, <1>6, <2>1, <2>3, <3>1 DEF ThreadOK, ContractOK
    <3>6. line'[u] = Failed => ~Same(u, "OVERRIDE_AUTH")'
      <4>1. ASSUME line'[u] = Failed PROVE line[u] = Failed /\ ~Running(u)
        <5>1. line'[u] = line[u]
          BY <1>6, <2>3
        <5>2. line[u] = Failed /\ Failed = 20
          BY <4>1, <5>1, Lines
        <5> QED
          BY <5>2, RunningIs
      <4> QED
        BY <2>1, <3>2, <4>1 DEF ThreadOK
    <3> QED
      BY <1>8, <2>3, <3>3, <3>4, <3>5, <3>6 DEF ThreadOK
  <2> QED
    BY <2>2, <2>3
<1>12. SettingsOK'
  BY <1>1 DEF ConnectInv, SettingsOK
<1> QED
  BY <1>7, <1>10, <1>11, <1>12 DEF ConnectInv

\* A step of a running constructor.
LEMMA RunStep ==
  ASSUME ConnectInv, NEW t \in Threads, Running(t), UNCHANGED <<case, overlapped>>,
         Typed', SettingsOK',
         \A u \in Threads \ {t} :
           line'[u] = line[u] /\ value'[u] = value[u] /\ contract'[u] = contract[u],
         \A u \in Threads \ {t} : Running(u) => WrittenOK(u)',
         ThreadOK(t)'
  PROVE  ConnectInv'
<1>1. \A u \in Threads : Running(u)' => Running(u)
  BY DEF Running
<1>2. OneChain'
  BY <1>1 DEF ConnectInv, OneChain, Chain
<1>3. ASSUME NEW u \in Threads PROVE ThreadOK(u)'
  <2>1. CASE u = t
    BY <2>1
  <2>2. CASE u # t
    <3>1. ThreadOK(u) /\ \A f : Same(u, f)' <=> Same(u, f)
      BY DEF ConnectInv, Same
    <3>2. ValueOK(u)' /\ ContractOK(u)' /\ LengthOK(u)'
      BY <2>2, <3>1 DEF ThreadOK, ValueOK, ContractOK, LengthOK
    <3> QED
      BY <1>1, <2>2, <3>1, <3>2 DEF ThreadOK
  <2> QED
    BY <2>1, <2>2
<1> QED
  BY <1>2, <1>3 DEF ConnectInv

\* What a constructor evaluates is its own where the chain agrees on the role.
LEMMA EvaluateInv == ASSUME ConnectInv, NEW t \in Threads, Evaluate(t) PROVE ConnectInv'
<1> USE Lines
<1> DEFINE f == Assigned[line[t]]
<1>1. /\ line[t] \in 1 .. 10 /\ ~Local(f) /\ UNCHANGED <<static, case, line, contract, overlapped>>
      /\ value' = [value EXCEPT ![t] = RightSide(f)]
  BY DEF Evaluate
<1>2. ThreadOK(t) /\ Running(t) /\ WrittenOK(t) /\ case[t] \in 1 .. 3
  BY <1>1 DEF ConnectInv, Typed, ThreadOK, Running
<1>3. static["ROLE"] \in Settings
  BY FieldsAre, FieldsOfLines DEF ConnectInv, Typed
<1>4. RightSide(f) \in Settings
  BY <1>3 DEF RightSide, Settings
<1>5. /\ value' \in [Threads -> Settings \cup {None}] /\ value'[t] = RightSide(f)
      /\ \A u \in Threads \ {t} : value'[u] = value[u]
  BY <1>1, <1>4 DEF ConnectInv, Typed
<1>6. Typed' /\ SettingsOK'
  BY <1>1, <1>5 DEF ConnectInv, Typed, SettingsOK
<1>7. \A u \in Threads : \A g : Same(u, g)' <=> Same(u, g)
  BY <1>1 DEF Same
<1>8. ASSUME NEW u \in Threads, Running(u) PROVE WrittenOK(u)'
  BY <1>1, <1>7, <1>8 DEF ConnectInv, ThreadOK, WrittenOK
<1>9. ASSUME Same(t, f) PROVE RightSide(f) = Own(case[t], f)
  <2>1. /\ Own(case[t], f) = Role(case[t]) /\ Own(case[t], "ROLE") = Role(case[t])
        /\ Role(case[t]) \in {"lender", "borrower"}
    BY <1>1, <1>2, OwnIs
  <2>2. ~Local("CRYPTO_PATH") /\ Own(case[t], "CRYPTO_PATH") = Role(case[t])
    BY <1>2, LocalIs, OwnIs DEF LocalFields
  <2>3. \A n \in overlapped[t] : Own(n, f) = Role(n) /\ Own(n, "ROLE") = Role(n)
                                 /\ Own(n, "CRYPTO_PATH") = Role(n)
    BY <1>1, <2>2, OwnIs DEF ConnectInv, Typed
  <2>4. Same(t, "ROLE") /\ Same(t, "CRYPTO_PATH")
    BY <1>9, <2>1, <2>2, <2>3 DEF Same
  <2>5. \A i \in 1 .. 10 : Assigned[i] \notin LocalFields => i > 5
    BY FieldsAre DEF LocalFields
  <2>6. line[t] > 5
    BY <1>1, <2>5, LocalIs
  <2>7. static["ROLE"] = Role(case[t])
    <3>1. 1 \in 1 .. 10 /\ 1 < line[t] /\ Assigned[1] = "ROLE"
      BY <1>1, <2>6, FieldsAre
    <3> QED
      BY <1>2, <2>1, <2>4, <3>1 DEF WrittenOK
  <2>8. \A i \in 1 .. 10 : Assigned[i] \in Paths => i > 7
    BY FieldsAre DEF Paths
  <2>9. f \in Paths => static["CRYPTO_PATH"] = Role(case[t])
    BY <1>1, <1>2, <2>2, <2>4, <2>8, FieldsAre DEF WrittenOK
  <2> QED
    BY <2>1, <2>7, <2>9 DEF RightSide
<1>10. ValueOK(t)'
  BY <1>1, <1>5, <1>7, <1>9 DEF ValueOK
<1>11. ThreadOK(t)'
  BY <1>1, <1>2, <1>7, <1>8, <1>10 DEF ThreadOK, ContractOK, LengthOK
<1> QED
  BY <1>1, <1>2, <1>5, <1>6, <1>8, <1>11, RunStep

\* Two running constructors agree on a setting or both do not, and where they agree it
\* is the same: their chain is one.
LEMMA SameSetting ==
  ASSUME ConnectInv, NEW t \in Threads, NEW u \in Threads, Running(t), Running(u),
         NEW f, Same(u, f)
  PROVE  Same(t, f) /\ Own(case[t], f) = Own(case[u], f)
<1>1. Chain(t) = Chain(u)
  BY DEF ConnectInv, OneChain
<1>2. \A n \in Chain(u) : Own(n, f) = Own(case[u], f)
  BY DEF Chain, Same
<1>3. case[t] \in Chain(u) /\ \A n \in overlapped[t] : n \in Chain(u)
  BY <1>1 DEF Chain
<1> QED
  BY <1>2, <1>3 DEF Same

\* Whoever writes a field writes what it is for every running constructor whose chain
\* agrees on it.
LEMMA AssignInv == ASSUME ConnectInv, NEW t \in Threads, Assign(t) PROVE ConnectInv'
<1> DEFINE f == Assigned[line[t]]
           new == IF Local(f) THEN CaseConfig(case[t])[f] ELSE value[t]
<1>1. line[t] \in 1 .. 10 /\ UNCHANGED <<case, contract, overlapped>>
  BY Lines DEF Assign
<1>2. /\ static' = [static EXCEPT ![f] = new]
      /\ value' = [value EXCEPT ![t] = None] /\ line' = [line EXCEPT ![t] = @ + 1]
      /\ ~Local(f) => value[t] # None
  BY DEF Assign
<1>3. /\ static \in [Fields -> Settings] /\ case \in [Threads -> 1 .. 3]
      /\ line \in [Threads -> 0 .. 20] /\ value \in [Threads -> Settings \cup {None}]
  BY Lines DEF ConnectInv, Typed
<1>4. Running(t) /\ ThreadOK(t) /\ WrittenOK(t)
  BY <1>1, RunningIs DEF ConnectInv, ThreadOK
<1>5. f \in Fields /\ case[t] \in 1 .. 3
  BY <1>1, <1>3, FieldsOfLines
<1>6. Local(f) => new = Own(case[t], f) /\ new \in {"lender", "borrower", "car", "sharing"}
  BY <1>5, OwnIs
<1>7. new \in Settings
  BY <1>2, <1>3, <1>6 DEF Settings
<1>8. Same(t, f) => new = Own(case[t], f)
  BY <1>1, <1>2, <1>4, <1>6 DEF ThreadOK, ValueOK
<1>9. /\ static'[f] = new /\ \A g \in Fields \ {f} : static'[g] = static[g]
      /\ static' \in [Fields -> Settings]
  BY <1>2, <1>3, <1>5, <1>7
<1>10. /\ line'[t] = line[t] + 1 /\ value'[t] = None
       /\ \A u \in Threads \ {t} : line'[u] = line[u] /\ value'[u] = value[u]
       /\ line' \in [Threads -> 0 .. 20] /\ value' \in [Threads -> Settings \cup {None}]
  BY <1>1, <1>2, <1>3
<1>11. Failed' = 20 /\ Done' = 19
  BY DEF Failed, Done, Assigned, UsedInOrder
<1> HIDE DEF new, f
<1>12. Typed'
  BY <1>1, <1>9, <1>10, <1>11 DEF ConnectInv, Typed
<1>13. SettingsOK'
  BY <1>6, <1>9 DEF ConnectInv, SettingsOK
<1>14. \A u \in Threads : \A g : Same(u, g)' <=> Same(u, g)
  BY <1>1 DEF Same
<1>15. ASSUME NEW u \in Threads, Running(u), Same(u, f) PROVE static'[f] = Own(case[u], f)
  BY <1>4, <1>8, <1>9, <1>15, SameSetting
<1>16. ASSUME NEW u \in Threads, Running(u), NEW g \in Fields,
              Same(u, g), g # f => static[g] = Own(case[u], g)
       PROVE  static'[g] = Own(case[u], g)
  BY <1>9, <1>15, <1>16
<1>17. ASSUME NEW u \in Threads \ {t}, Running(u) PROVE WrittenOK(u)'
  <2>1. WrittenOK(u)
    BY <1>17 DEF ConnectInv, ThreadOK
  <2> SUFFICES ASSUME NEW i \in 1 .. 10, i < line'[u], Same(u, Assigned[i])
               PROVE  static'[Assigned[i]] = Own(case[u], Assigned[i])
    BY <1>1, <1>14 DEF WrittenOK
  <2>2. Assigned[i] \in Fields
    BY FieldsOfLines
  <2>3. static[Assigned[i]] = Own(case[u], Assigned[i])
    BY <1>10, <2>1 DEF WrittenOK
  <2> QED
    BY <1>16, <1>17, <2>2, <2>3
<1>18. WrittenOK(t)'
  <2> SUFFICES ASSUME NEW i \in 1 .. 10, i < line'[t], Same(t, Assigned[i])
               PROVE  static'[Assigned[i]] = Own(case[t], Assigned[i])
    BY <1>1, <1>14 DEF WrittenOK
  <2>1. Assigned[i] \in Fields
    BY FieldsOfLines
  <2>2. CASE i = line[t]
    BY <1>4, <1>15, <2>2 DEF f
  <2>3. CASE i # line[t]
    <3>1. i < line[t]
      BY <1>1, <1>10, <2>3
    <3>2. static[Assigned[i]] = Own(case[t], Assigned[i])
      BY <1>4, <3>1 DEF WrittenOK
    <3> QED
      BY <1>4, <1>16, <2>1, <3>2
  <2> QED
    BY <2>2, <2>3
<1>19. ThreadOK(t)'
  <2>1. contract[t] = <<>>
    BY <1>1, <1>4 DEF ThreadOK, LengthOK
  <2>2. ValueOK(t)' /\ ContractOK(t)'
    BY <1>1, <1>10, <2>1 DEF ValueOK, ContractOK
  <2>3. LengthOK(t)'
    BY <1>1, <1>10, <1>11, <2>1 DEF LengthOK
  <2>4. line'[t] # Failed'
    BY <1>1, <1>10, <1>11
  <2> QED
    BY <1>18, <2>2, <2>3, <2>4 DEF ThreadOK
<1> QED
  BY <1>1, <1>4, <1>10, <1>12, <1>13, <1>17, <1>19, RunStep

\* A field is used after it has been assigned.
LEMMA UsedIsOwn ==
  ASSUME ConnectInv, NEW t \in Threads, line[t] \in 11 .. 18, Same(t, Used(t))
  PROVE  static[Used(t)] = Own(case[t], Used(t))
<1>1. Used(t) = UsedInOrder[line[t] - 10] /\ line[t] - 10 \in 1 .. 8
  BY Lines DEF Used
<1>2. PICK i \in 1 .. 10 : Used(t) = Assigned[i]
  BY <1>1, UsedIsAssigned
<1>3. WrittenOK(t)
  BY RunningIs DEF ConnectInv, ThreadOK
<1> QED
  BY <1>2, <1>3 DEF WrittenOK

LEMMA UseInv == ASSUME ConnectInv, NEW t \in Threads, Use(t) PROVE ConnectInv'
<1> DEFINE x == static[Used(t)]
<1>1. /\ line[t] \in 11 .. 18 /\ UNCHANGED <<static, case, value, overlapped>>
      /\ contract' = [contract EXCEPT ![t] = Append(@, x)]
      /\ line' = [line EXCEPT ![t] = @ + 1]
  BY Lines DEF Use
<1>2. /\ static \in [Fields -> Settings] /\ line \in [Threads -> 0 .. 20]
      /\ contract \in [Threads -> Seq(Settings)]
  BY Lines DEF ConnectInv, Typed
<1>3. Running(t) /\ ThreadOK(t) /\ WrittenOK(t)
  BY <1>1, RunningIs DEF ConnectInv, ThreadOK
<1>4. Used(t) = UsedInOrder[line[t] - 10] /\ line[t] - 10 \in 1 .. 8
  BY <1>1, Lines DEF Used
<1>5. x \in Settings
  BY <1>2, <1>4, UsedIsAssigned, FieldsOfLines
<1>6. Same(t, Used(t)) => x = Own(case[t], Used(t))
  BY <1>1, UsedIsOwn
<1> HIDE DEF x
<1>7. /\ line'[t] = line[t] + 1 /\ contract'[t] = Append(contract[t], x)
      /\ \A u \in Threads \ {t} : line'[u] = line[u] /\ contract'[u] = contract[u]
      /\ line' \in [Threads -> 0 .. 20] /\ contract' \in [Threads -> Seq(Settings)]
  BY <1>1, <1>2, <1>5
<1>8. Failed' = 20 /\ Done' = 19 /\ Done = 19 /\ Failed = 20
  BY Lines DEF Failed, Done, Assigned, UsedInOrder
<1>9. Typed' /\ SettingsOK'
  BY <1>1, <1>7, <1>8 DEF ConnectInv, Typed, SettingsOK
<1>10. \A u \in Threads : \A g : Same(u, g)' <=> Same(u, g)
  BY <1>1 DEF Same
<1>11. ASSUME NEW u \in Threads \ {t}, Running(u) PROVE WrittenOK(u)'
  BY <1>1, <1>7, <1>10, <1>11 DEF ConnectInv, ThreadOK, WrittenOK
<1>12. ThreadOK(t)'
  <2>1. WrittenOK(t)'
    <3> SUFFICES ASSUME NEW i \in 1 .. 10, Same(t, Assigned[i])
                 PROVE  static[Assigned[i]] = Own(case[t], Assigned[i])
      BY <1>1, <1>10 DEF WrittenOK
    <3> QED
      BY <1>1, <1>3 DEF WrittenOK
  <2>2. ValueOK(t)'
    BY <1>1, <1>3, <1>7 DEF ThreadOK, ValueOK
  <2>3. Len(contract[t]) = line[t] - 11 /\ contract[t] \in Seq(Settings)
    BY <1>1, <1>2, <1>3, <1>8 DEF ThreadOK, LengthOK
  <2>4. /\ Len(contract'[t]) = line[t] - 10 /\ contract'[t][line[t] - 10] = x
        /\ \A j \in 1 .. Len(contract[t]) : contract'[t][j] = contract[t][j]
    BY <1>1, <1>5, <1>7, <2>3
  <2>5. ContractOK(t)'
    <3> SUFFICES ASSUME NEW j \in 1 .. Len(contract'[t])
                 PROVE  /\ j \in 1 .. 8
                        /\ Same(t, UsedInOrder[j]) =>
                             contract'[t][j] = Own(case[t], UsedInOrder[j])
      BY <1>1, <1>10 DEF ContractOK
    <3>1. j \in 1 .. 8 /\ (j = line[t] - 10 \/ j \in 1 .. Len(contract[t]))
      <4> DEFINE k == line[t]
                 n == Len(contract[t])
      <4>1. k \in 11 .. 18 /\ n = k - 11 /\ j \in 1 .. k - 10
        BY <1>1, <2>3, <2>4
      <4> HIDE DEF k, n
      <4>2. j \in 1 .. 8 /\ (j = k - 10 \/ j \in 1 .. n)
        BY <4>1
      <4> QED
        BY <4>2 DEF k, n
    <3>2. CASE j = line[t] - 10
      BY <1>4, <1>6, <2>4, <3>1, <3>2
    <3>3. CASE j \in 1 .. Len(contract[t])
      BY <1>3, <2>4, <3>1, <3>3 DEF ThreadOK, ContractOK
    <3> QED
      BY <3>1, <3>2, <3>3
  <2>6. LengthOK(t)'
    BY <1>1, <1>7, <1>8, <2>4 DEF LengthOK
  <2>7. line'[t] # Failed'
    BY <1>1, <1>7, <1>8
  <2> QED
    BY <2>1, <2>2, <2>5, <2>6, <2>7 DEF ThreadOK
<1> QED
  BY <1>1, <1>3, <1>7, <1>9, <1>11, <1>12, RunStep

\* A path leads nowhere only if the chain does not agree on the role.
LEMMA NoSuchFileInv == ASSUME ConnectInv, NEW t \in Threads, NoSuchFile(t) PROVE ConnectInv'
<1>1. /\ line[t] \in 11 .. 18 /\ UNCHANGED <<static, case, value, overlapped>>
      /\ contract' = [contract EXCEPT ![t] = <<>>]
      /\ line' = [line EXCEPT ![t] = 20] /\ static[Used(t)] = "nowhere"
  BY Lines DEF NoSuchFile
<1>2. /\ line \in [Threads -> 0 .. 20] /\ contract \in [Threads -> Seq(Settings)]
      /\ case[t] \in 1 .. 3 /\ overlapped[t] \subseteq 1 .. 3
  BY Lines DEF ConnectInv, Typed
<1>3. Running(t) /\ ThreadOK(t)
  BY <1>1, RunningIs DEF ConnectInv
<1>4. Failed' = 20 /\ Done' = 19
  BY DEF Failed, Done, Assigned, UsedInOrder
<1>5. /\ line'[t] = 20 /\ contract'[t] = <<>>
      /\ \A u \in Threads \ {t} : line'[u] = line[u] /\ contract'[u] = contract[u]
      /\ line' \in [Threads -> 0 .. 20] /\ contract' \in [Threads -> Seq(Settings)]
  BY <1>1, <1>2
<1>6. Typed' /\ SettingsOK'
  BY <1>1, <1>4, <1>5 DEF ConnectInv, Typed, SettingsOK
<1>7. \A u \in Threads : \A g : Same(u, g)' <=> Same(u, g)
  BY <1>1 DEF Same
<1>8. ASSUME NEW u \in Threads \ {t}, Running(u) PROVE WrittenOK(u)'
  BY <1>1, <1>5, <1>7, <1>8 DEF ConnectInv, ThreadOK, WrittenOK
<1>9. ~Same(t, "OVERRIDE_AUTH")
  <2>1. Used(t) \in Fields
    <3>1. Used(t) = UsedInOrder[line[t] - 10] /\ line[t] - 10 \in 1 .. 8
      BY <1>1, Lines DEF Used
    <3> QED
      BY <3>1, UsedIsAssigned, FieldsOfLines
  <2>2. ~Local(Used(t)) /\ ~Local("OVERRIDE_AUTH")
    BY <1>1, <2>1, LocalIs DEF ConnectInv, SettingsOK, LocalFields
  <2>3. \A n \in 1 .. 3 : /\ Own(n, Used(t)) = Role(n) /\ Own(n, "OVERRIDE_AUTH") = Role(n)
                          /\ Role(n) # "nowhere"
    BY <2>2, OwnIs
  <2>4. ASSUME Same(t, "OVERRIDE_AUTH") PROVE Same(t, Used(t))
    BY <1>2, <2>3, <2>4 DEF Same
  <2>5. ~Same(t, Used(t))
    BY <1>1, <1>2, <2>3, UsedIsOwn
  <2> QED
    BY <2>4, <2>5
<1>10. ThreadOK(t)'
  <2>1. ~Running(t)'
    <3>1. line'[t] = 20
      BY <1>5
    <3> QED
      BY <3>1, RunningIs
  <2>2. ValueOK(t)'
    BY <1>1, <1>3, <1>5 DEF ThreadOK, ValueOK
  <2>3. ContractOK(t)'
    BY <1>5 DEF ContractOK
  <2>4. LengthOK(t)'
    BY <1>4, <1>5 DEF LengthOK
  <2> QED
    BY <1>7, <1>9, <2>1, <2>2, <2>3, <2>4 DEF ThreadOK
<1> QED
  BY <1>1, <1>3, <1>5, <1>6, <1>8, <1>10, RunStep

LEMMA ConnectStep == ConnectInv /\ [Next]_vars => ConnectInv'
<1> SUFFICES ASSUME ConnectInv, [Next]_vars PROVE ConnectInv'
  OBVIOUS
<1>1. ASSUME Next PROVE ConnectInv'
  <2>1. PICK t \in Threads : \/ \E n \in 1 .. 3 : Construct(t, n)
                            \/ Evaluate(t) \/ Assign(t) \/ Use(t) \/ NoSuchFile(t)
    BY <1>1 DEF Next
  <2>2. ASSUME NEW n \in 1 .. 3, Construct(t, n) PROVE ConnectInv'
    BY <2>2, ConstructInv
  <2> QED
    BY <2>1, <2>2, EvaluateInv, AssignInv, UseInv, NoSuchFileInv
<1>2. ASSUME UNCHANGED vars PROVE ConnectInv'
  <2>1. Typed' /\ OneChain' /\ SettingsOK'
    BY <1>2 DEF vars, ConnectInv, Typed, OneChain, Running, Chain, SettingsOK
  <2>2. ASSUME NEW t \in Threads PROVE ThreadOK(t)'
    <3>1. ThreadOK(t)
      BY DEF ConnectInv
    <3>2. \A f : Same(t, f)' <=> Same(t, f)
      BY <1>2 DEF vars, Same
    <3>3. Running(t)' => WrittenOK(t)'
      BY <1>2, <3>1, <3>2 DEF vars, ThreadOK, Running, WrittenOK
    <3>4. ValueOK(t)' /\ ContractOK(t)' /\ LengthOK(t)'
      BY <1>2, <3>1, <3>2 DEF vars, ThreadOK, ValueOK, ContractOK, LengthOK
    <3> QED
      BY <1>2, <3>1, <3>2, <3>3, <3>4 DEF vars, ThreadOK
  <2> QED
    BY <2>1, <2>2 DEF ConnectInv
<1> QED
  BY <1>1, <1>2

LEMMA SpecConnect == Spec => []ConnectInv
<1> QED
  BY ConnectInit, ConnectStep, PTL DEF Spec

-----------------------------------------------------------------------------
\* A static field always holds a setting of some case, or a path made of two roles,
\* and a contract that is complete has all of its eight settings.
THEOREM SettingsTyped == Spec => []TypeOK
<1>1. ConnectInv => TypeOK
  <2> SUFFICES ASSUME ConnectInv PROVE TypeOK
    OBVIOUS
  <2>1. \A f \in Fields : static[f] \in Settings
    BY DEF ConnectInv, Typed
  <2>2. ASSUME NEW t \in Threads
        PROVE  /\ case[t] \in 1 .. 3 /\ line[t] \in 0 .. Failed
               /\ Complete(t) => Len(contract[t]) = Len(UsedInOrder)
    <3>1. case[t] \in 1 .. 3 /\ line[t] \in 0 .. Failed
      BY DEF ConnectInv, Typed
    <3>2. LengthOK(t)
      BY DEF ConnectInv, ThreadOK
    <3>3. ASSUME Complete(t) PROVE Len(contract[t]) = Len(UsedInOrder)
      <4>1. line[t] = 19 /\ 19 \in 11 .. Done
        BY <3>3, Lines DEF Complete
      <4>2. Len(contract[t]) = 19 - 11
        BY <3>2, <4>1 DEF LengthOK
      <4> QED
        BY <4>2, Lines
    <3> QED
      BY <3>1, <3>3
  <2> QED
    BY <2>1, <2>2 DEF TypeOK, Settings
<1> QED
  BY <1>1, SpecConnect, PTL

\* TayoConnect writes shared static fields, so a contract may mix cases; yet on a setting
\* for which every constructor in its chain of overlaps agrees it is that of the case
\* asked for, and constructing fails only where the roles of the chain differ.
THEOREM ContractsAgreed == Spec => []AgreedIsOwn
<1>1. ConnectInv => AgreedIsOwn
  <2> SUFFICES ASSUME ConnectInv, NEW t \in Threads
               PROVE  /\ Complete(t) => \A i \in 1 .. 8 :
                           Same(t, UsedInOrder[i]) =>
                             Built(t, UsedInOrder[i]) = Own(case[t], UsedInOrder[i])
                      /\ line[t] = Failed => ~Same(t, "OVERRIDE_AUTH")
    BY Lines DEF AgreedIsOwn, Same
  <2>1. ThreadOK(t)
    BY DEF ConnectInv
  <2>2. ASSUME Complete(t), NEW i \in 1 .. 8, Same(t, UsedInOrder[i])
        PROVE  Built(t, UsedInOrder[i]) = Own(case[t], UsedInOrder[i])
    <3>1. Len(contract[t]) = 8
      BY <2>1, <2>2, Lines DEF ThreadOK, LengthOK, Complete
    <3> DEFINE j == CHOOSE k \in 1 .. 8 : UsedInOrder[k] = UsedInOrder[i]
    <3>2. j \in 1 .. 8 /\ UsedInOrder[j] = UsedInOrder[i]
      OBVIOUS
    <3>3. Built(t, UsedInOrder[i]) = contract[t][j]
      BY Lines DEF Built
    <3> HIDE DEF j
    <3> QED
      BY <2>1, <2>2, <3>1, <3>2, <3>3 DEF ThreadOK, ContractOK
  <2> QED
    BY <2>1, <2>2 DEF ThreadOK
<1> QED
  BY <1>1, SpecConnect, PTL
==============================================================================
