---------------------------- MODULE BalanceProofs ----------------------------
(***************************************************************************)
(* Invariants of Balance, for every set of owners, holds and receipts,     *)
(* every fee, lease and amount: holds and their overspend, top-ups and     *)
(* their refunds, the dollar journal; and that every step of the Balance   *)
(* is a step of BalancePockets.                                            *)
(***************************************************************************)
EXTENDS Balance, MoneyLemmas

----------------------------------------------------------------------------
(* Sums over some of the rows of a table.                                  *)

\* The holds of a table that reserve money on an account, and how much.
OpenIn(H, a) == {h \in Holds : H[h].status \in {"active", "extended"} /\ H[h].account = a}
HeldIn(H, a) == SumFunctionOnSet([h \in OpenIn(H, a) |-> H[h].held], OpenIn(H, a))
HeldBy(row, a) == IF row.status \in {"active", "extended"} /\ row.account = a THEN row.held ELSE 0
HoldTable == [Holds -> HoldRow \cup {NoRow}]

\* The receipts of a table credited to an account, and what was clawed back.
CreditedIn(T, a) == {r \in Receipts : T[r] # NoRow /\ UsdCredit(T[r].owner) = a}
ClawedIn(T, a) == SumFunctionOnSet([r \in CreditedIn(T, a) |-> T[r].clawed], CreditedIn(T, a))
ClawedBy(row, a) == IF row # NoRow /\ UsdCredit(row.owner) = a THEN row.clawed ELSE 0
TopupTable == [Receipts -> TopupRow \cup {NoRow}]

\* They are the sums the model computes.
LEMMA SumsOfTables ==
    ASSUME NEW a
    PROVE  /\ Held(a) = HeldIn(holds, a) /\ Clawed(a) = ClawedIn(topups, a)
           /\ Held(a)' = HeldIn(holds', a) /\ Clawed(a)' = ClawedIn(topups', a)
  BY DEF Held, HeldIn, OpenOn, OpenIn, Open, Clawed, ClawedIn, CreditedIn, SumOver

\* They are natural numbers.
LEMMA TableTypes ==
    ASSUME NEW a, NEW H \in HoldTable, NEW T \in TopupTable
    PROVE  HeldIn(H, a) \in Nat /\ ClawedIn(T, a) \in Nat
<1>1. IsFiniteSet(OpenIn(H, a)) /\ IsFiniteSet(CreditedIn(T, a))
  BY BalanceAssumption, FS_Subset DEF OpenIn, CreditedIn
<1>2. \A h \in OpenIn(H, a) : [x \in OpenIn(H, a) |-> H[x].held][h] \in Nat
  BY DEF OpenIn, HoldTable, HoldRow, NoRow
<1>3. \A r \in CreditedIn(T, a) : [x \in CreditedIn(T, a) |-> T[x].clawed][r] \in Nat
  BY DEF CreditedIn, TopupTable, TopupRow
<1> QED
  BY <1>1, <1>2, <1>3, SumNat DEF HeldIn, ClawedIn

\* A hold that changes changes what is held by its share.
LEMMA HoldChange ==
    ASSUME NEW a, NEW H \in HoldTable, NEW h \in Holds, NEW row \in HoldRow
    PROVE  HeldIn([H EXCEPT ![h] = row], a) = HeldIn(H, a) - HeldBy(H[h], a) + HeldBy(row, a)
<1> DEFINE G == [H EXCEPT ![h] = row]
           f == [x \in OpenIn(H, a) |-> H[x].held]
           g == [x \in OpenIn(G, a) |-> G[x].held]
<1>1. G \in HoldTable /\ G[h] = row /\ \A x \in Holds \ {h} : G[x] = H[x]
  BY DEF HoldTable
<1> HIDE DEF G
<1>2. IsFiniteSet(OpenIn(H, a)) /\ IsFiniteSet(OpenIn(G, a))
  BY BalanceAssumption, FS_Subset DEF OpenIn
<1>3. OpenIn(H, a) \ {h} = OpenIn(G, a) \ {h}
  BY <1>1 DEF OpenIn
<1>4. \A x \in OpenIn(H, a) \ {h} : g[x] = f[x]
  BY <1>1, <1>3 DEF OpenIn
<1>5. /\ \A x \in OpenIn(H, a) : f[x] \in Int
      /\ \A x \in OpenIn(G, a) : g[x] \in Int
  BY <1>1 DEF OpenIn, HoldTable, HoldRow, NoRow
<1>6. SumFunctionOnSet(g, OpenIn(G, a)) =
        SumFunctionOnSet(f, OpenIn(H, a)) - (IF h \in OpenIn(H, a) THEN f[h] ELSE 0)
          + (IF h \in OpenIn(G, a) THEN g[h] ELSE 0)
  <2> HIDE DEF f, g
  <2> QED
    BY <1>2, <1>3, <1>4, <1>5, SumSelected
<1>7. /\ (IF h \in OpenIn(H, a) THEN f[h] ELSE 0) = HeldBy(H[h], a)
      /\ (IF h \in OpenIn(G, a) THEN g[h] ELSE 0) = HeldBy(row, a)
  BY <1>1 DEF OpenIn, HeldBy
<1> QED
  BY <1>6, <1>7 DEF HeldIn, G

\* A receipt that changes changes what was clawed back by its share.
LEMMA TopupChange ==
    ASSUME NEW a, NEW T \in TopupTable, NEW r \in Receipts, NEW row \in TopupRow
    PROVE  ClawedIn([T EXCEPT ![r] = row], a) = ClawedIn(T, a) - ClawedBy(T[r], a) + ClawedBy(row, a)
<1> DEFINE G == [T EXCEPT ![r] = row]
           f == [x \in CreditedIn(T, a) |-> T[x].clawed]
           g == [x \in CreditedIn(G, a) |-> G[x].clawed]
<1>1. G \in TopupTable /\ G[r] = row /\ \A x \in Receipts \ {r} : G[x] = T[x]
  BY DEF TopupTable
<1> HIDE DEF G
<1>2. IsFiniteSet(CreditedIn(T, a)) /\ IsFiniteSet(CreditedIn(G, a))
  BY BalanceAssumption, FS_Subset DEF CreditedIn
<1>3. CreditedIn(T, a) \ {r} = CreditedIn(G, a) \ {r}
  BY <1>1 DEF CreditedIn
<1>4. \A x \in CreditedIn(T, a) \ {r} : g[x] = f[x]
  BY <1>1, <1>3 DEF CreditedIn
<1>5. /\ \A x \in CreditedIn(T, a) : f[x] \in Int
      /\ \A x \in CreditedIn(G, a) : g[x] \in Int
  BY <1>1 DEF CreditedIn, TopupTable, TopupRow
<1>6. SumFunctionOnSet(g, CreditedIn(G, a)) =
        SumFunctionOnSet(f, CreditedIn(T, a)) - (IF r \in CreditedIn(T, a) THEN f[r] ELSE 0)
          + (IF r \in CreditedIn(G, a) THEN g[r] ELSE 0)
  <2> HIDE DEF f, g
  <2> QED
    BY <1>2, <1>3, <1>4, <1>5, SumSelected
<1>7. /\ (IF r \in CreditedIn(T, a) THEN f[r] ELSE 0) = ClawedBy(T[r], a)
      /\ (IF r \in CreditedIn(G, a) THEN g[r] ELSE 0) = ClawedBy(row, a)
  BY <1>1 DEF CreditedIn, ClawedBy
<1> QED
  BY <1>6, <1>7 DEF ClawedIn, G

----------------------------------------------------------------------------
(* Accounts.                                                               *)

\* The accounts a hold may draw on, and the others the operations use.
LEMMA AccountLaw ==
    /\ HoldAccounts \subseteq Accounts
    /\ \A o \in Owners : UsdCredit(o) \in HoldAccounts /\ Sandbox(o) \in HoldAccounts
    /\ \A p \in Providers : UsdClearing(p) \in Accounts \ HoldAccounts
    /\ \A u \in People : VibesCredit(u) \in Accounts \ HoldAccounts
    /\ {UsdRevenue, TopupDebt, SandboxIssuer, FxBits, FxCents} \subseteq Accounts \ HoldAccounts
<1>1. None \notin Owners
  BY BalanceAssumption DEF Owners
<1> QED
  BY <1>1 DEF Accounts, NanoAccounts, HoldAccounts, UsdCredit, Sandbox, UsdClearing, VibesCredit, UsdRevenue,
              TopupDebt, SandboxIssuer, FxBits, FxCents

----------------------------------------------------------------------------
(* The inductive invariant.                                                *)

\* A top-up not wholly refunded keeps its intent settled: no second payment
\* can be credited to it.
InForceSettled ==
    \A r \in Receipts :
        topups[r] # NoRow /\ topups[r].refunded < topups[r].paid => intents[topups[r].intent].status = "settled"

TopupsSound == TopupAddsUp /\ TopupOnce /\ InForceSettled

BalanceInv == TypeOK /\ TopupsSound /\ ChargedOnce /\ OverspendIsClawback

\* What an account has beyond its holds, with what refunds took from it given back.
Slack(b, H, T, a) == b[a] - HeldIn(H, a) + ClawedIn(T, a)

\* Holds outrun no balance by more than refunds took, in these terms.
LEMMA SlackLaw ==
    /\ TypeOK => (OverspendIsClawback <=> \A a \in HoldAccounts : Slack(balance, holds, topups, a) >= 0)
    /\ TypeOK' => (OverspendIsClawback' <=> \A a \in HoldAccounts : Slack(balance', holds', topups', a) >= 0)
<1>1. ASSUME TypeOK, NEW a \in HoldAccounts
      PROVE  Available(a) >= -Clawed(a) <=> Slack(balance, holds, topups, a) >= 0
  <2>1. balance[a] \in Int /\ holds \in HoldTable /\ topups \in TopupTable
    BY <1>1, AccountLaw DEF TypeOK, HoldTable, TopupTable
  <2>2. Held(a) \in Nat /\ Clawed(a) \in Nat /\ Held(a) = HeldIn(holds, a) /\ Clawed(a) = ClawedIn(topups, a)
    BY <2>1, SumsOfTables, TableTypes
  <2> QED
    BY <2>1, <2>2 DEF Available, Slack
<1>2. ASSUME TypeOK', NEW a \in HoldAccounts
      PROVE  Available(a)' >= -(Clawed(a)') <=> Slack(balance', holds', topups', a) >= 0
  <2>1. balance'[a] \in Int /\ holds' \in HoldTable /\ topups' \in TopupTable
    BY <1>2, AccountLaw DEF TypeOK, HoldTable, TopupTable
  <2>2. HeldIn(holds', a) \in Nat /\ ClawedIn(topups', a) \in Nat
    BY <2>1, TableTypes
  <2>3. Available(a)' = balance'[a] - HeldIn(holds', a) /\ Clawed(a)' = ClawedIn(topups', a)
    BY SumsOfTables DEF Available
  <2> QED
    BY <2>1, <2>2, <2>3 DEF Slack
<1> QED
  BY <1>1, <1>2 DEF OverspendIsClawback

\* What a step needs to show to keep the overspend bound.
LEMMA SlackStep ==
    ASSUME BalanceInv, TypeOK',
           \A a \in HoldAccounts :
              Slack(balance, holds, topups, a) >= 0 => Slack(balance', holds', topups', a) >= 0
    PROVE  OverspendIsClawback'
  BY SlackLaw DEF BalanceInv

\* The tables are typed, and what is free on an account is an integer.
LEMMA InvTypes ==
    ASSUME TypeOK
    PROVE  /\ holds \in HoldTable /\ topups \in TopupTable /\ balance \in [Accounts -> Int]
           /\ \A a \in HoldAccounts :
                /\ balance[a] \in Int /\ HeldIn(holds, a) \in Nat /\ ClawedIn(topups, a) \in Nat
                /\ Available(a) = balance[a] - HeldIn(holds, a)
<1>1. holds \in HoldTable /\ topups \in TopupTable /\ balance \in [Accounts -> Int]
  BY DEF TypeOK, HoldTable, TopupTable
<1> QED
  BY <1>1, TableTypes, SumsOfTables, AccountLaw DEF Available

\* The initial state.
LEMMA InitInv == Init => BalanceInv
<1> SUFFICES ASSUME Init PROVE BalanceInv
  OBVIOUS
<1>1. TypeOK
  BY DEF Init, TypeOK
<1>2. TopupsSound /\ ChargedOnce
  BY DEF Init, TopupsSound, TopupAddsUp, TopupOnce, InForceSettled, ChargedOnce, Open, NoRow
<1>3. OverspendIsClawback
  <2> SUFFICES ASSUME NEW a \in HoldAccounts PROVE Slack(balance, holds, topups, a) >= 0
    BY <1>1, SlackLaw
  <2>1. OpenIn(holds, a) = {}
    BY DEF Init, OpenIn, NoRow
  <2>2. HeldIn(holds, a) = SumFunctionOnSet([h \in OpenIn(holds, a) |-> holds[h].held], {})
    BY <2>1, Zenon DEF HeldIn
  <2>3. HeldIn(holds, a) = 0
    BY <2>2, SumEmpty, Zenon
  <2>4. balance[a] = 0
    BY AccountLaw DEF Init
  <2>5. ClawedIn(topups, a) \in Nat
    BY <1>1, InvTypes
  <2> QED
    BY <2>3, <2>4, <2>5 DEF Slack
<1> QED
  BY <1>1, <1>2, <1>3 DEF BalanceInv

----------------------------------------------------------------------------
(* Steps that leave the top-ups or the holds alone.                        *)

\* The top-ups stay sound where nobody touches them.
LEMMA TopupsKept ==
    ASSUME TopupsSound, UNCHANGED <<intents, topups>>
    PROVE  TopupsSound'
  BY DEF TopupsSound, TopupAddsUp, TopupOnce, InForceSettled

\* The holds stay decided once where nobody touches them.
LEMMA HoldsKept ==
    ASSUME ChargedOnce, UNCHANGED <<holds, settlements>>
    PROVE  ChargedOnce'
  BY DEF ChargedOnce, Open

\* Money that comes to an account, or is free and leaves it, keeps the bound.
LEMMA MoneyMoves ==
    ASSUME BalanceInv, TypeOK', UNCHANGED <<holds, topups>>,
           \A a \in HoldAccounts : balance'[a] >= balance[a] \/ balance'[a] - HeldIn(holds, a) >= 0
    PROVE  OverspendIsClawback'
<1> SUFFICES ASSUME NEW a \in HoldAccounts, Slack(balance, holds, topups, a) >= 0
             PROVE  Slack(balance', holds', topups', a) >= 0
  BY SlackStep
<1>1. balance[a] \in Int /\ HeldIn(holds, a) \in Nat /\ ClawedIn(topups, a) \in Nat
  BY InvTypes DEF BalanceInv
<1>2. balance'[a] \in Int
  BY AccountLaw DEF TypeOK
<1>3. HeldIn(holds', a) = HeldIn(holds, a) /\ ClawedIn(topups', a) = ClawedIn(topups, a)
  BY Zenon
<1> QED
  BY <1>1, <1>2, <1>3 DEF Slack

\* A new top-up intent moves no money.
LEMMA StartTopupInv ==
    ASSUME BalanceInv, NEW i \in Intents, NEW o \in Owners, NEW p \in Providers, NEW amount \in TopupCents,
           StartTopup(i, o, p, amount)
    PROVE  BalanceInv'
<1>1. TypeOK'
  BY DEF BalanceInv, TypeOK, StartTopup, IntentRow
<1>2. TopupsSound'
  <2>1. UNCHANGED topups /\ intents[i].status = "none" /\ \A j \in Intents \ {i} : intents'[j] = intents[j]
    BY DEF BalanceInv, TypeOK, StartTopup, NoRow
  <2>2. TopupAddsUp' /\ TopupOnce'
    BY <2>1 DEF BalanceInv, TopupsSound, TopupAddsUp, TopupOnce
  <2>3. InForceSettled'
    BY <2>1 DEF BalanceInv, TypeOK, TopupsSound, InForceSettled, TopupRow
  <2> QED
    BY <2>2, <2>3 DEF TopupsSound
<1>3. ChargedOnce'
  BY HoldsKept DEF BalanceInv, StartTopup
<1>4. OverspendIsClawback'
  <2>1. UNCHANGED <<balance, holds, topups>> /\ \A a \in HoldAccounts : balance[a] \in Int
    BY InvTypes DEF BalanceInv, StartTopup
  <2> QED
    BY <1>1, <2>1, MoneyMoves
<1> QED
  BY <1>1, <1>2, <1>3, <1>4 DEF BalanceInv

\* A failed checkout had not been paid.
LEMMA FailTopupInv ==
    ASSUME BalanceInv, NEW i \in Intents, FailTopup(i)
    PROVE  BalanceInv'
<1>1. TypeOK'
  <2>1. intents[i] \in IntentRow
    BY DEF BalanceInv, TypeOK, FailTopup, NoRow
  <2>2. [intents[i] EXCEPT !.status = "failed"] \in IntentRow
    BY <2>1 DEF IntentRow
  <2> QED
    BY <2>2 DEF BalanceInv, TypeOK, FailTopup
<1>2. TopupsSound'
  <2>1. UNCHANGED topups /\ intents[i].status = "created" /\ \A j \in Intents \ {i} : intents'[j] = intents[j]
    BY DEF BalanceInv, TypeOK, FailTopup
  <2>2. TopupAddsUp' /\ TopupOnce'
    BY <2>1 DEF BalanceInv, TopupsSound, TopupAddsUp, TopupOnce
  <2>3. InForceSettled'
    BY <2>1 DEF BalanceInv, TypeOK, TopupsSound, InForceSettled, TopupRow
  <2> QED
    BY <2>2, <2>3 DEF TopupsSound
<1>3. ChargedOnce'
  BY HoldsKept DEF BalanceInv, FailTopup
<1>4. OverspendIsClawback'
  <2>1. UNCHANGED <<balance, holds, topups>> /\ \A a \in HoldAccounts : balance[a] \in Int
    BY InvTypes DEF BalanceInv, FailTopup
  <2> QED
    BY <1>1, <2>1, MoneyMoves
<1> QED
  BY <1>1, <1>2, <1>3, <1>4 DEF BalanceInv

\* Sandbox credit comes from its issuer, which holds draw nothing on.
LEMMA SandboxGrantInv ==
    ASSUME BalanceInv, NEW o \in Owners, NEW n \in Amounts, SandboxGrant(o, n)
    PROVE  BalanceInv'
<1>1. n \in Nat
  BY BalanceAssumption
<1>2. /\ balance' \in [Accounts -> Int]
      /\ \A a \in HoldAccounts : balance'[a] = IF a = Sandbox(o) THEN balance[a] + n ELSE balance[a]
  <2>1. /\ SandboxIssuer \in Accounts \ HoldAccounts /\ Sandbox(o) \in HoldAccounts
        /\ HoldAccounts \subseteq Accounts /\ balance \in [Accounts -> Int]
    BY AccountLaw, InvTypes DEF BalanceInv
  <2>2. /\ Moved(balance, SandboxIssuer, Sandbox(o), n) \in [Accounts -> Int]
        /\ \A a \in Accounts : Moved(balance, SandboxIssuer, Sandbox(o), n)[a] =
             IF a = SandboxIssuer THEN balance[a] - n
             ELSE IF a = Sandbox(o) THEN balance[a] + n ELSE balance[a]
    <3>1. SandboxIssuer # Sandbox(o) /\ n \in Int /\ SandboxIssuer \in Accounts /\ Sandbox(o) \in Accounts
      BY <1>1, <2>1
    <3> HIDE DEF SandboxIssuer, Sandbox
    <3> QED
      BY <2>1, <3>1 DEF Moved
  <2> QED
    BY <2>1, <2>2 DEF SandboxGrant
<1>3. TypeOK'
  BY <1>2 DEF BalanceInv, TypeOK, SandboxGrant
<1>4. TopupsSound' /\ ChargedOnce'
  BY TopupsKept, HoldsKept DEF BalanceInv, SandboxGrant
<1>5. OverspendIsClawback'
  <2>1. \A a \in HoldAccounts : balance'[a] >= balance[a]
    BY <1>1, <1>2, InvTypes DEF BalanceInv
  <2> QED
    BY <1>3, <2>1, MoneyMoves DEF SandboxGrant
<1> QED
  BY <1>3, <1>4, <1>5 DEF BalanceInv

\* A transfer takes free money only.
LEMMA TransferInv ==
    ASSUME BalanceInv, NEW u \in People, NEW p \in Projects, NEW n \in Amounts, Transfer(u, p, n)
    PROVE  BalanceInv'
<1>1. n \in Nat /\ u \in Owners /\ p \in Owners /\ UsdCredit(u) # UsdCredit(p)
  BY BalanceAssumption DEF Owners, UsdCredit
<1>2. /\ balance' \in [Accounts -> Int]
      /\ \A a \in HoldAccounts :
           balance'[a] = IF a = UsdCredit(u) THEN balance[a] - n
                         ELSE IF a = UsdCredit(p) THEN balance[a] + n ELSE balance[a]
  <2>1. /\ UsdCredit(u) \in Accounts /\ UsdCredit(p) \in Accounts /\ n \in Int
        /\ HoldAccounts \subseteq Accounts /\ balance \in [Accounts -> Int]
    BY <1>1, AccountLaw, InvTypes DEF BalanceInv
  <2>2. /\ Moved(balance, UsdCredit(u), UsdCredit(p), n) \in [Accounts -> Int]
        /\ \A a \in Accounts : Moved(balance, UsdCredit(u), UsdCredit(p), n)[a] =
             IF a = UsdCredit(u) THEN balance[a] - n
             ELSE IF a = UsdCredit(p) THEN balance[a] + n ELSE balance[a]
    BY <1>1, <2>1 DEF Moved
  <2> QED
    BY <2>1, <2>2 DEF Transfer
<1>3. TypeOK'
  BY <1>2 DEF BalanceInv, TypeOK, Transfer
<1>4. TopupsSound' /\ ChargedOnce'
  BY TopupsKept, HoldsKept DEF BalanceInv, Transfer
<1>5. OverspendIsClawback'
  <2>1. balance[UsdCredit(u)] - HeldIn(holds, UsdCredit(u)) >= n
    BY <1>1, AccountLaw, InvTypes DEF BalanceInv, Transfer, Covers
  <2>2. \A a \in HoldAccounts : balance'[a] >= balance[a] \/ balance'[a] - HeldIn(holds, a) >= 0
    BY <1>1, <1>2, <2>1, InvTypes DEF BalanceInv
  <2> QED
    BY <1>3, <2>2, MoneyMoves DEF Transfer
<1> QED
  BY <1>3, <1>4, <1>5 DEF BalanceInv

\* Vibes are bought with free money only.
LEMMA BuyVibesInv ==
    ASSUME BalanceInv, NEW u \in People, NEW vibes \in VibesAmounts, BuyVibes(u, vibes)
    PROVE  BalanceInv'
<1> DEFINE price == VibesPrice(vibes)
           paid == Moved(balance, UsdCredit(u), UsdRevenue, price)
<1>1. price \in Int /\ vibes \in Int /\ u \in Owners
  <2>1. vibes * 100 * NanoPerCent + BitsPerUsd - 1 \in Int /\ BitsPerUsd \in Nat \ {0} /\ vibes \in Int
    BY BalanceAssumption, RatesAssumption
  <2> QED
    BY <2>1, DivLaw DEF VibesPrice, Owners
<1> HIDE DEF price
<1>2. /\ paid \in [Accounts -> Int]
      /\ \A a \in HoldAccounts : paid[a] = IF a = UsdCredit(u) THEN balance[a] - price ELSE balance[a]
  <2>1. /\ UsdRevenue \in Accounts \ HoldAccounts /\ UsdCredit(u) \in HoldAccounts
        /\ HoldAccounts \subseteq Accounts /\ balance \in [Accounts -> Int]
    BY <1>1, AccountLaw, InvTypes DEF BalanceInv
  <2>2. UsdCredit(u) # UsdRevenue /\ UsdCredit(u) \in Accounts /\ UsdRevenue \in Accounts
    BY <2>1
  <2>3. /\ Moved(balance, UsdCredit(u), UsdRevenue, price) \in [Accounts -> Int]
        /\ \A a \in Accounts : Moved(balance, UsdCredit(u), UsdRevenue, price)[a] =
             IF a = UsdCredit(u) THEN balance[a] - price
             ELSE IF a = UsdRevenue THEN balance[a] + price ELSE balance[a]
    BY <1>1, <2>1, <2>2 DEF Moved
  <2> QED
    BY <2>1, <2>3
<1>3. FxBits # VibesCredit(u)
  BY DEF FxBits, VibesCredit
<1>4. balance' = Moved(paid, FxBits, VibesCredit(u), vibes) /\ Covers(UsdCredit(u), price)
  BY DEF BuyVibes, price
<1> HIDE DEF paid
<1>5. /\ balance' \in [Accounts -> Int]
      /\ \A a \in HoldAccounts : balance'[a] = paid[a]
  <2>1. /\ FxBits \in Accounts \ HoldAccounts /\ VibesCredit(u) \in Accounts \ HoldAccounts
        /\ HoldAccounts \subseteq Accounts
    BY AccountLaw
  <2>2. /\ Moved(paid, FxBits, VibesCredit(u), vibes) \in [Accounts -> Int]
        /\ \A a \in Accounts : Moved(paid, FxBits, VibesCredit(u), vibes)[a] =
             IF a = FxBits THEN paid[a] - vibes
             ELSE IF a = VibesCredit(u) THEN paid[a] + vibes ELSE paid[a]
    <3>1. FxBits \in Accounts /\ VibesCredit(u) \in Accounts
      BY <2>1
    <3> QED
      BY <1>1, <1>2, <1>3, <3>1 DEF Moved
  <2> QED
    BY <1>4, <2>1, <2>2
<1>6. TypeOK'
  BY <1>5 DEF BalanceInv, TypeOK, BuyVibes
<1>7. TopupsSound' /\ ChargedOnce'
  BY TopupsKept, HoldsKept DEF BalanceInv, BuyVibes
<1>8. OverspendIsClawback'
  <2>1. balance[UsdCredit(u)] - HeldIn(holds, UsdCredit(u)) >= price
    BY <1>1, <1>4, AccountLaw, InvTypes DEF BalanceInv, Covers
  <2>2. \A a \in HoldAccounts : balance'[a] >= balance[a] \/ balance'[a] - HeldIn(holds, a) >= 0
    BY <1>1, <1>2, <1>5, <2>1, InvTypes DEF BalanceInv
  <2> QED
    BY <1>6, <2>2, MoneyMoves DEF BuyVibes
<1> QED
  BY <1>6, <1>7, <1>8 DEF BalanceInv

----------------------------------------------------------------------------
(* Holds.                                                                  *)

\* A step of one hold keeps the bound when the money it frees or takes is free.
LEMMA HoldStep ==
    ASSUME BalanceInv, TypeOK', UNCHANGED topups, NEW h \in Holds, NEW row \in HoldRow,
           holds' = [holds EXCEPT ![h] = row],
           \A a \in HoldAccounts :
              \/ balance'[a] - HeldBy(row, a) + HeldBy(holds[h], a) >= balance[a]
              \/ balance'[a] - HeldIn(holds, a) + HeldBy(holds[h], a) - HeldBy(row, a) >= 0
    PROVE  OverspendIsClawback'
<1> SUFFICES ASSUME NEW a \in HoldAccounts, Slack(balance, holds, topups, a) >= 0
             PROVE  Slack(balance', holds', topups', a) >= 0
  BY SlackStep
<1>1. /\ balance[a] \in Int /\ HeldIn(holds, a) \in Nat /\ ClawedIn(topups, a) \in Nat
      /\ holds \in HoldTable
  BY InvTypes DEF BalanceInv
<1>2. balance'[a] \in Int
  BY AccountLaw DEF TypeOK
<1>3. ClawedIn(topups', a) = ClawedIn(topups, a)
  BY Zenon
<1>4. HeldIn(holds', a) = HeldIn(holds, a) - HeldBy(holds[h], a) + HeldBy(row, a)
  <2>1. HeldIn([holds EXCEPT ![h] = row], a) = HeldIn(holds, a) - HeldBy(holds[h], a) + HeldBy(row, a)
    BY <1>1, HoldChange
  <2> QED
    BY <2>1, Zenon
<1>5. HeldBy(holds[h], a) \in Int /\ HeldBy(row, a) \in Int
  BY <1>1 DEF HeldBy, HoldTable, HoldRow, NoRow
<1> QED
  BY <1>1, <1>2, <1>3, <1>4, <1>5 DEF Slack

\* An open hold is a row, and has not been charged.
LEMMA OpenIsRow ==
    ASSUME BalanceInv, NEW h \in Holds, Open(h)
    PROVE  holds[h] \in HoldRow /\ settlements[h] = NoRow /\ holds[h].account \in HoldAccounts
<1>1. holds[h] \in HoldRow
  BY DEF BalanceInv, TypeOK, Open, NoRow
<1> QED
  BY <1>1 DEF BalanceInv, ChargedOnce, Open, HoldRow

\* A new hold reserves free money.
LEMMA CreateHoldInv ==
    ASSUME BalanceInv, NEW h \in Holds, NEW a \in HoldAccounts, NEW max \in Amounts, CreateHold(h, a, max)
    PROVE  BalanceInv'
<1> DEFINE row == [status |-> "active", account |-> a, held |-> max, lease |-> now + Lease]
<1>1. row \in HoldRow /\ max \in Nat
  BY BalanceAssumption DEF BalanceInv, TypeOK, HoldRow
<1>2. holds' = [holds EXCEPT ![h] = row] /\ holds[h] = NoRow /\ UNCHANGED <<balance, intents, topups, settlements>>
  BY DEF CreateHold
<1>3. TypeOK'
  BY <1>1 DEF BalanceInv, TypeOK, CreateHold
<1>4. TopupsSound'
  BY TopupsKept DEF BalanceInv, CreateHold
<1>5. ChargedOnce'
  BY <1>2 DEF BalanceInv, TypeOK, ChargedOnce, Open, NoRow
<1>6. OverspendIsClawback'
  <2>1. balance[a] - HeldIn(holds, a) >= max
    BY InvTypes DEF BalanceInv, CreateHold, Covers
  <2>2. \A b : HeldBy(holds[h], b) = 0 /\ HeldBy(row, b) = IF b = a THEN max ELSE 0
    BY <1>2 DEF HeldBy, NoRow
  <2> HIDE DEF row
  <2>3. \A b \in HoldAccounts :
           \/ balance'[b] - HeldBy(row, b) + HeldBy(holds[h], b) >= balance[b]
           \/ balance'[b] - HeldIn(holds, b) + HeldBy(holds[h], b) - HeldBy(row, b) >= 0
    BY <1>1, <1>2, <2>1, <2>2, InvTypes DEF BalanceInv
  <2> QED
    BY <1>1, <1>2, <1>3, <2>3, HoldStep
<1> QED
  BY <1>3, <1>4, <1>5, <1>6 DEF BalanceInv

\* An extension reserves free money.
LEMMA ExtendHoldInv ==
    ASSUME BalanceInv, NEW h \in Holds, NEW add \in Amounts, ExtendHold(h, add)
    PROVE  BalanceInv'
<1> DEFINE old == holds[h]
           row == [old EXCEPT !.status = "extended", !.held = @ + add,
                              !.lease = AtLeast(@, now + ExtendLease)]
<1>1. old \in HoldRow /\ settlements[h] = NoRow /\ Open(h) /\ add \in Nat
  BY OpenIsRow, BalanceAssumption DEF ExtendHold
<1>2. row \in HoldRow /\ row.account = old.account /\ row.held = old.held + add /\ row.status = "extended"
  <2>1. now + ExtendLease \in Nat /\ old.lease \in Nat /\ old.held + add \in Nat
    BY <1>1, BalanceAssumption DEF BalanceInv, TypeOK, HoldRow
  <2>2. AtLeast(old.lease, now + ExtendLease) \in Nat
    BY <2>1 DEF AtLeast
  <2> QED
    BY <1>1, <2>1, <2>2 DEF HoldRow
<1>3. holds' = [holds EXCEPT ![h] = row] /\ UNCHANGED <<balance, intents, topups, settlements>>
  BY DEF ExtendHold
<1>4. TypeOK'
  <2>1. holds \in [Holds -> HoldRow \cup {NoRow}]
    BY DEF BalanceInv, TypeOK
  <2>2. holds' \in [Holds -> HoldRow \cup {NoRow}]
    BY <1>2, <1>3, <2>1
  <2> QED
    BY <2>2 DEF BalanceInv, TypeOK, ExtendHold
<1>5. TopupsSound'
  BY TopupsKept DEF BalanceInv, ExtendHold
<1>6. ChargedOnce'
  <2> HIDE DEF row
  <2> QED
    BY <1>1, <1>2, <1>3 DEF BalanceInv, TypeOK, ChargedOnce, Open, NoRow
<1>7. OverspendIsClawback'
  <2> DEFINE a == old.account
  <2>1. a \in HoldAccounts
    BY <1>1 DEF HoldRow
  <2>2. balance[a] - HeldIn(holds, a) >= add
    BY <2>1, InvTypes DEF BalanceInv, ExtendHold, Covers
  <2>3. \A b \in HoldAccounts :
           /\ HeldBy(old, b) = IF b = a THEN old.held ELSE 0
           /\ HeldBy(row, b) = IF b = a THEN old.held + add ELSE 0
    BY <1>1, <1>2 DEF HeldBy, Open
  <2>4. old.held \in Nat
    BY <1>1 DEF HoldRow
  <2> HIDE DEF row, old, a
  <2>5. \A b \in HoldAccounts :
           \/ balance'[b] - HeldBy(row, b) + HeldBy(old, b) >= balance[b]
           \/ balance'[b] - HeldIn(holds, b) + HeldBy(old, b) - HeldBy(row, b) >= 0
    BY <1>1, <1>3, <2>2, <2>3, <2>4, InvTypes DEF BalanceInv
  <2> QED
    BY <1>2, <1>3, <1>4, <2>5, HoldStep DEF old
<1> QED
  BY <1>4, <1>5, <1>6, <1>7 DEF BalanceInv

\* Ending a hold without a charge frees what it held.
LEMMA CloseHold ==
    ASSUME BalanceInv, NEW h \in Holds, NEW end \in {"released", "expired"}, Open(h),
           holds' = [holds EXCEPT ![h].status = end, ![h].held = 0],
           due' \subseteq Holds, UNCHANGED <<balance, intents, topups, settlements, now>>
    PROVE  BalanceInv'
<1> DEFINE old == holds[h]
           row == [old EXCEPT !.status = end, !.held = 0]
<1>1. old \in HoldRow /\ settlements[h] = NoRow
  BY OpenIsRow
<1>2. row \in HoldRow /\ row.held = 0 /\ row.status = end
  BY <1>1 DEF HoldRow
<1>3. holds' = [holds EXCEPT ![h] = row]
  OBVIOUS
<1>4. TypeOK'
  <2>1. holds \in [Holds -> HoldRow \cup {NoRow}]
    BY DEF BalanceInv, TypeOK
  <2>2. holds' \in [Holds -> HoldRow \cup {NoRow}]
    BY <1>2, <1>3, <2>1
  <2> QED
    BY <2>2 DEF BalanceInv, TypeOK
<1>5. TopupsSound'
  BY TopupsKept DEF BalanceInv
<1>6. ChargedOnce'
  <2> HIDE DEF row
  <2> QED
    BY <1>1, <1>2, <1>3 DEF BalanceInv, TypeOK, ChargedOnce, Open, NoRow
<1>7. OverspendIsClawback'
  <2>1. \A b \in HoldAccounts : HeldBy(row, b) = 0 /\ HeldBy(old, b) \in Nat
    BY <1>1, <1>2 DEF HeldBy, HoldRow
  <2> HIDE DEF row, old
  <2>2. \A b \in HoldAccounts : balance'[b] - HeldBy(row, b) + HeldBy(old, b) >= balance[b]
    BY <2>1, InvTypes DEF BalanceInv
  <2> QED
    BY <1>2, <1>3, <1>4, <2>2, HoldStep DEF old
<1> QED
  BY <1>4, <1>5, <1>6, <1>7 DEF BalanceInv

\* A hold is given back,
LEMMA ReleaseHoldInv ==
    ASSUME BalanceInv, NEW h \in Holds, ReleaseHold(h)
    PROVE  BalanceInv'
<1>1. due' \subseteq Holds
  BY DEF BalanceInv, TypeOK, ReleaseHold
<1> QED
  BY <1>1, CloseHold DEF ReleaseHold

\* or expires, if it is still open.
LEMMA SweepExpireInv ==
    ASSUME BalanceInv, NEW h \in Holds, SweepExpire(h)
    PROVE  BalanceInv'
<1>1. due' \subseteq Holds /\ UNCHANGED <<balance, intents, topups, settlements, now>>
  BY DEF BalanceInv, TypeOK, SweepExpire
<1>2. CASE Open(h)
  BY <1>1, <1>2, CloseHold DEF SweepExpire, StillOpen
<1>3. CASE ~Open(h)
  <2>1. UNCHANGED holds
    BY <1>3 DEF SweepExpire, StillOpen
  <2>2. TypeOK'
    BY <1>1, <2>1 DEF BalanceInv, TypeOK
  <2>3. TopupsSound' /\ ChargedOnce'
    BY <1>1, <2>1, TopupsKept, HoldsKept DEF BalanceInv
  <2>4. OverspendIsClawback'
    <3>1. \A a \in HoldAccounts : balance'[a] >= balance[a]
      BY <1>1, InvTypes DEF BalanceInv
    <3> QED
      BY <1>1, <2>1, <2>2, <3>1, MoneyMoves
  <2> QED
    BY <2>2, <2>3, <2>4 DEF BalanceInv
<1> QED
  BY <1>2, <1>3

\* A settlement within the hold leaves more free than before; one beyond it takes
\* no more than is free.
LEMMA SettleHoldInv ==
    ASSUME BalanceInv, NEW h \in Holds, NEW charge \in Charges, SettleHold(h, charge)
    PROVE  BalanceInv'
<1> DEFINE old == holds[h]
           a == old.account
           row == [old EXCEPT !.status = "settled", !.held = 0]
           collected == Collected(h, charge)
           into == IF a[1] = "usd_credit" THEN UsdRevenue ELSE SandboxIssuer
           settled == [status |-> "posted", charge |-> collected,
                       released |-> AtLeast(0, old.held - collected), shortfall |-> charge - collected]
<1>1. old \in HoldRow /\ settlements[h] = NoRow /\ Open(h) /\ charge \in Nat /\ a \in HoldAccounts /\ old.held \in Nat
  BY OpenIsRow, BalanceAssumption DEF SettleHold, HoldRow
<1>2. row \in HoldRow /\ row.held = 0 /\ row.status = "settled"
  BY <1>1 DEF HoldRow
<1>3. /\ holds' = [holds EXCEPT ![h] = row] /\ UNCHANGED <<intents, topups, due, now>>
      /\ balance' = Moved(balance, a, into, collected)
      /\ settlements' = [settlements EXCEPT ![h] = settled]
      /\ collected >= 0
  BY DEF SettleHold
<1>4. /\ collected \in Int /\ collected =< charge
      /\ collected =< old.held \/ collected =< old.held + (balance[a] - HeldIn(holds, a))
  <2>1. /\ Available(a) = balance[a] - HeldIn(holds, a)
        /\ balance[a] \in Int /\ HeldIn(holds, a) \in Nat
    BY <1>1, InvTypes DEF BalanceInv
  <2> QED
    BY <1>1, <2>1 DEF Collected, Room, AtMost
<1> HIDE DEF collected
<1>5. settled \in SettlementRow
  BY <1>1, <1>3, <1>4 DEF SettlementRow, AtLeast
<1>6. /\ balance' \in [Accounts -> Int]
      /\ \A b \in HoldAccounts : balance'[b] = IF b = a THEN balance[b] - collected ELSE balance[b]
  <2>1. /\ into \in Accounts \ HoldAccounts /\ HoldAccounts \subseteq Accounts
        /\ balance \in [Accounts -> Int]
    BY AccountLaw, InvTypes DEF BalanceInv
  <2> HIDE DEF into, a
  <2> QED
    BY <1>1, <1>3, <1>4, <2>1 DEF Moved
<1> HIDE DEF settled
<1>7. TypeOK'
  <2>1. holds \in [Holds -> HoldRow \cup {NoRow}] /\ settlements \in [Holds -> SettlementRow \cup {NoRow}]
    BY DEF BalanceInv, TypeOK
  <2>2. holds' \in [Holds -> HoldRow \cup {NoRow}] /\ settlements' \in [Holds -> SettlementRow \cup {NoRow}]
    BY <1>2, <1>3, <1>5, <2>1
  <2> QED
    BY <1>3, <1>6, <2>2 DEF BalanceInv, TypeOK
<1>8. TopupsSound'
  BY <1>3, TopupsKept DEF BalanceInv
<1>9. ChargedOnce'
  <2> HIDE DEF row
  <2>1. settled # NoRow
    BY <1>5 DEF SettlementRow, NoRow
  <2> QED
    BY <1>1, <1>2, <1>3, <2>1 DEF BalanceInv, TypeOK, ChargedOnce, Open, NoRow
<1>10. OverspendIsClawback'
  <2>1. \A b \in HoldAccounts :
           /\ HeldBy(old, b) = IF b = a THEN old.held ELSE 0
           /\ HeldBy(row, b) = 0
    BY <1>1, <1>2 DEF HeldBy, Open
  <2> HIDE DEF row, old, a
  <2>2. \A b \in HoldAccounts :
           \/ balance'[b] - HeldBy(row, b) + HeldBy(old, b) >= balance[b]
           \/ balance'[b] - HeldIn(holds, b) + HeldBy(old, b) - HeldBy(row, b) >= 0
    BY <1>1, <1>4, <1>6, <2>1, InvTypes DEF BalanceInv
  <2> QED
    BY <1>2, <1>3, <1>7, <2>2, HoldStep DEF old
<1> QED
  BY <1>7, <1>8, <1>9, <1>10 DEF BalanceInv

----------------------------------------------------------------------------
(* Top-ups and their reversals.                                            *)

\* A top-up step keeps the bound when what it takes it also records as taken.
LEMMA TopupStep ==
    ASSUME BalanceInv, TypeOK', UNCHANGED holds, NEW r \in Receipts, NEW row \in TopupRow,
           topups' = [topups EXCEPT ![r] = row],
           \A a \in HoldAccounts :
              balance'[a] + ClawedBy(row, a) >= balance[a] + ClawedBy(topups[r], a)
    PROVE  OverspendIsClawback'
<1> SUFFICES ASSUME NEW a \in HoldAccounts, Slack(balance, holds, topups, a) >= 0
             PROVE  Slack(balance', holds', topups', a) >= 0
  BY SlackStep
<1>1. /\ balance[a] \in Int /\ HeldIn(holds, a) \in Nat /\ ClawedIn(topups, a) \in Nat
      /\ topups \in TopupTable
  BY InvTypes DEF BalanceInv
<1>2. balance'[a] \in Int
  BY AccountLaw DEF TypeOK
<1>3. HeldIn(holds', a) = HeldIn(holds, a)
  BY Zenon
<1>4. ClawedIn(topups', a) = ClawedIn(topups, a) - ClawedBy(topups[r], a) + ClawedBy(row, a)
  <2>1. ClawedIn([topups EXCEPT ![r] = row], a) = ClawedIn(topups, a) - ClawedBy(topups[r], a) + ClawedBy(row, a)
    BY <1>1, TopupChange
  <2> QED
    BY <2>1, Zenon
<1>5. ClawedBy(topups[r], a) \in Int /\ ClawedBy(row, a) \in Int
  BY <1>1 DEF ClawedBy, TopupTable, TopupRow
<1> QED
  BY <1>1, <1>2, <1>3, <1>4, <1>5 DEF Slack

\* A payment credits its intent's amount, and only to an intent nobody paid.
LEMMA SettleTopupInv ==
    ASSUME BalanceInv, NEW r \in Receipts, NEW i \in Intents, NEW p \in Providers, NEW paid \in PaidCents,
           SettleTopup(r, i, p, paid)
    PROVE  BalanceInv'
<1> DEFINE old == intents[i]
           nano == old.amount * NanoPerCent
           row == [status |-> "posted", intent |-> i, owner |-> old.owner, provider |-> p, paid |-> paid,
                   nano |-> nano, refunded |-> 0, clawed |-> 0, debt |-> 0]
<1>1. old \in IntentRow /\ old.owner \in Owners /\ old.amount \in Nat /\ old.status # "settled"
      /\ paid \in Nat \ {0}
  BY BalanceAssumption DEF BalanceInv, TypeOK, SettleTopup, IntentOpen, IntentRow
<1>2. nano \in Nat /\ NanoPerCent \in Nat
  BY <1>1, BalanceAssumption
<1>3. row \in TopupRow
  BY <1>1, <1>2 DEF TopupRow
<1>4. /\ topups' = [topups EXCEPT ![r] = row] /\ topups[r] = NoRow
      /\ intents' = [intents EXCEPT ![i].status = "settled"]
      /\ UNCHANGED <<holds, settlements, due, now>>
  BY DEF SettleTopup
<1>5. /\ balance' \in [Accounts -> Int]
      /\ \A a \in HoldAccounts :
           balance'[a] = IF a = UsdCredit(old.owner) THEN balance[a] + nano ELSE balance[a]
  <2>1. /\ UsdClearing(p) \in Accounts \ HoldAccounts /\ UsdRevenue \in Accounts \ HoldAccounts
        /\ UsdCredit(old.owner) \in HoldAccounts /\ HoldAccounts \subseteq Accounts
        /\ balance \in [Accounts -> Int]
    BY <1>1, AccountLaw, InvTypes DEF BalanceInv
  <2>2. paid * NanoPerCent \in Int
    BY <1>1, <1>2
  <2>3. balance' = [balance EXCEPT ![UsdClearing(p)] = @ - paid * NanoPerCent,
                                   ![UsdCredit(old.owner)] = @ + nano,
                                   ![UsdRevenue] = @ + (paid * NanoPerCent - nano)]
    BY DEF SettleTopup
  <2> HIDE DEF old, nano
  <2> DEFINE fee == paid * NanoPerCent
  <2> HIDE DEF fee
  <2>4. fee \in Int /\ balance' = [balance EXCEPT ![UsdClearing(p)] = @ - fee,
                                   ![UsdCredit(old.owner)] = @ + nano, ![UsdRevenue] = @ + (fee - nano)]
    BY <2>2, <2>3 DEF fee
  <2> QED
    BY <1>2, <2>1, <2>4
<1>6. TypeOK'
  <2>1. [old EXCEPT !.status = "settled"] \in IntentRow
    BY <1>1 DEF IntentRow
  <2>2. intents' \in [Intents -> IntentRow \cup {NoRow}]
    BY <1>4, <2>1 DEF BalanceInv, TypeOK
  <2>3. topups' \in [Receipts -> TopupRow \cup {NoRow}]
    BY <1>3, <1>4 DEF BalanceInv, TypeOK
  <2> QED
    BY <1>4, <1>5, <2>2, <2>3 DEF BalanceInv, TypeOK
<1>7. TopupsSound'
  <2>1. /\ \A s \in Receipts : topups'[s] = IF s = r THEN row ELSE topups[s]
        /\ \A j \in Intents \ {i} : intents'[j] = intents[j]
        /\ intents'[i].status = "settled"
    BY <1>1, <1>4 DEF BalanceInv, TypeOK, IntentRow
  <2>2. \A s \in Receipts : topups[s] # NoRow =>
           /\ topups[s].refunded \in Nat /\ topups[s].paid \in Nat /\ topups[s].intent \in Intents
           /\ topups[s].refunded =< topups[s].paid
    BY BalanceAssumption DEF BalanceInv, TypeOK, TopupRow, TopupsSound, TopupAddsUp
  <2>3. \A s \in Receipts : topups[s] # NoRow /\ topups[s].intent = i => topups[s].refunded = topups[s].paid
    BY <1>1, <2>2 DEF BalanceInv, TopupsSound, InForceSettled
  <2>4. TopupAddsUp'
    <3>1. (nano * 0) \div paid = 0
      BY <1>1, <1>2, DivLaw
    <3>2. row.refunded =< row.paid /\ row.clawed + row.debt = (row.nano * row.refunded) \div row.paid
      BY <1>1, <3>1
    <3> HIDE DEF row
    <3> QED
      BY <2>1, <3>2 DEF BalanceInv, TopupsSound, TopupAddsUp
  <2>5. TopupOnce'
    <3>1. row.intent = i
      OBVIOUS
    <3> HIDE DEF row
    <3> QED
      BY <2>1, <2>3, <3>1 DEF BalanceInv, TopupsSound, TopupOnce
  <2>6. InForceSettled'
    <3>1. row.intent = i
      OBVIOUS
    <3> HIDE DEF row
    <3> QED
      BY <2>1, <2>2, <3>1 DEF BalanceInv, TopupsSound, InForceSettled
  <2> QED
    BY <2>4, <2>5, <2>6 DEF TopupsSound
<1>8. ChargedOnce'
  BY <1>4, HoldsKept DEF BalanceInv
<1>9. OverspendIsClawback'
  <2>1. \A a : ClawedBy(row, a) = 0 /\ ClawedBy(topups[r], a) = 0
    BY <1>4 DEF ClawedBy
  <2> HIDE DEF row, nano, old
  <2>2. \A a \in HoldAccounts :
           balance'[a] + ClawedBy(row, a) >= balance[a] + ClawedBy(topups[r], a)
    BY <1>2, <1>5, <2>1, InvTypes DEF BalanceInv
  <2> QED
    BY <1>3, <1>4, <1>6, <2>2, TopupStep
<1> QED
  BY <1>6, <1>7, <1>8, <1>9 DEF BalanceInv

\* A reversal covers at most what is left of the payment, and revokes a share of
\* the credit that is never negative.
LEMMA RevokedLaw ==
    ASSUME NEW t \in TopupRow, t.refunded =< t.paid, NEW mode \in {"cumulative", "cents", "rest"},
           NEW n \in PaidCents, CentsToReverse(t, mode, n) > 0
    PROVE  LET cents == CentsToReverse(t, mode, n)
           IN  /\ cents \in Nat /\ t.refunded + cents =< t.paid
               /\ Revoked(t, cents) \in Nat
               /\ (t.nano * t.refunded) \div t.paid + Revoked(t, cents)
                    = (t.nano * (t.refunded + cents)) \div t.paid
<1> DEFINE cents == CentsToReverse(t, mode, n)
           before == (t.nano * t.refunded) \div t.paid
           after == (t.nano * (t.refunded + cents)) \div t.paid
<1>1. t.paid \in Nat \ {0} /\ t.refunded \in Nat /\ t.nano \in Nat /\ n \in Nat
  BY BalanceAssumption DEF TopupRow
<1>2. cents \in Int /\ cents =< t.paid - t.refunded /\ cents > 0
  BY <1>1 DEF CentsToReverse, AtMost
<1> HIDE DEF cents
<1>3. cents \in Nat /\ t.refunded + cents =< t.paid
  BY <1>1, <1>2
<1>4. before \in Int /\ after \in Int /\ before =< after
  <2>1. t.nano * t.refunded \in Int /\ t.nano * (t.refunded + cents) \in Int /\ t.nano * cents \in Nat
    BY <1>1, <1>3
  <2>2. t.nano * (t.refunded + cents) = t.nano * t.refunded + t.nano * cents
    BY <1>1, <1>3
  <2>3. t.nano * t.refunded =< t.nano * (t.refunded + cents)
    BY <2>1, <2>2
  <2> QED
    BY <1>1, <2>1, <2>3, DivLaw, DivMonotone
<1>5. Revoked(t, cents) = after - before
  BY DEF Revoked
<1> HIDE DEF before, after
<1>6. Revoked(t, cents) \in Nat /\ before + Revoked(t, cents) = after
  BY <1>4, <1>5
<1> QED
  BY <1>3, <1>6 DEF cents, before, after

\* A reversal takes what the balance still shows and books the rest as a debt.
LEMMA ReverseTopupInv ==
    ASSUME BalanceInv, NEW r \in Receipts, NEW mode \in {"cumulative", "cents", "rest"}, NEW n \in PaidCents,
           ReverseTopup(r, mode, n)
    PROVE  BalanceInv'
<1> DEFINE t == topups[r]
           c == UsdCredit(t.owner)
           cents == CentsToReverse(t, mode, n)
           part == Revoked(t, cents)
           clawed == AtLeast(0, AtMost(balance[c], part))
           debt == Debt(part, clawed)
           row == [t EXCEPT !.refunded = @ + cents, !.clawed = @ + clawed, !.debt = @ + debt]
           wholly == t.refunded + cents >= t.paid
<1>1. /\ t \in TopupRow /\ t.refunded =< t.paid
      /\ t.clawed + t.debt = (t.nano * t.refunded) \div t.paid
      /\ cents > 0 /\ c \in HoldAccounts /\ t.intent \in Intents
  <2>1. t \in TopupRow /\ t # NoRow /\ cents > 0
    BY DEF BalanceInv, TypeOK, ReverseTopup
  <2>2. t.refunded =< t.paid /\ t.clawed + t.debt = (t.nano * t.refunded) \div t.paid
    BY <2>1 DEF BalanceInv, TopupsSound, TopupAddsUp
  <2>3. t.owner \in Owners /\ t.intent \in Intents
    BY <2>1 DEF TopupRow
  <2> QED
    BY <2>1, <2>2, <2>3, AccountLaw
<1>2. /\ cents \in Nat /\ t.refunded + cents =< t.paid /\ part \in Nat
      /\ (t.nano * t.refunded) \div t.paid + part = (t.nano * (t.refunded + cents)) \div t.paid
  <2> HIDE DEF t
  <2> QED
    BY <1>1, RevokedLaw
<1>3. /\ topups' = [topups EXCEPT ![r] = row] /\ t # NoRow
      /\ intents' = IF wholly THEN [intents EXCEPT ![t.intent].status = "refunded"] ELSE intents
      /\ UNCHANGED <<holds, settlements, due, now>>
      /\ balance' = [balance EXCEPT ![UsdClearing(t.provider)] = @ + cents * NanoPerCent,
                                    ![c] = @ - clawed,
                                    ![UsdRevenue] = @ - AtLeast(0, cents * NanoPerCent - part),
                                    ![TopupDebt] = @ - debt]
  BY DEF ReverseTopup
<1>4. balance[c] \in Int /\ t.clawed \in Nat /\ t.debt \in Nat /\ t.refunded \in Nat /\ t.paid \in Nat \ {0}
      /\ t.provider \in Providers
  BY <1>1, InvTypes, BalanceAssumption DEF BalanceInv, TopupRow
<1> HIDE DEF part
<1>5. clawed \in Nat /\ debt \in Nat /\ clawed + debt = part
  BY <1>2, <1>4 DEF AtLeast, AtMost, Debt
<1> HIDE DEF clawed, debt, cents
<1>6. row \in TopupRow /\ row.refunded = t.refunded + cents /\ row.clawed = t.clawed + clawed
      /\ row.debt = t.debt + debt /\ row.paid = t.paid /\ row.nano = t.nano /\ row.owner = t.owner
      /\ row.intent = t.intent
  <2>1. t.refunded + cents \in Nat /\ t.clawed + clawed \in Nat /\ t.debt + debt \in Nat
    BY <1>2, <1>4, <1>5
  <2>2. t \in TopupRow
    BY <1>1
  <2> HIDE DEF t
  <2> QED
    BY <2>1, <2>2 DEF TopupRow
<1>7. /\ balance' \in [Accounts -> Int]
      /\ \A a \in HoldAccounts : balance'[a] = IF a = c THEN balance[a] - clawed ELSE balance[a]
  <2>1. /\ UsdClearing(t.provider) \in Accounts \ HoldAccounts /\ UsdRevenue \in Accounts \ HoldAccounts
        /\ TopupDebt \in Accounts \ HoldAccounts /\ HoldAccounts \subseteq Accounts
        /\ balance \in [Accounts -> Int]
    BY <1>4, AccountLaw, InvTypes DEF BalanceInv
  <2> DEFINE back == cents * NanoPerCent
             kept == AtLeast(0, back - part)
  <2>2. back \in Int
    BY <1>2, BalanceAssumption
  <2> HIDE DEF back
  <2>3. kept \in Int
    BY <1>2, <2>2 DEF AtLeast
  <2>4. balance' = [balance EXCEPT ![UsdClearing(t.provider)] = @ + back, ![c] = @ - clawed,
                                   ![UsdRevenue] = @ - kept, ![TopupDebt] = @ - debt]
    BY <1>3 DEF back
  <2> HIDE DEF kept, c, t
  <2> QED
    BY <1>1, <1>5, <2>1, <2>2, <2>3, <2>4
<1> HIDE DEF row
<1>8. TypeOK'
  <2>1. intents[t.intent] \in IntentRow
    <3>1. t.refunded < t.paid
      BY <1>1, <1>2, <1>4
    <3>2. intents[t.intent].status = "settled"
      BY <1>3, <3>1 DEF BalanceInv, TopupsSound, InForceSettled
    <3> QED
      BY <1>1, <3>2 DEF BalanceInv, TypeOK, NoRow
  <2>2. [intents[t.intent] EXCEPT !.status = "refunded"] \in IntentRow
    BY <2>1 DEF IntentRow
  <2>3. intents' \in [Intents -> IntentRow \cup {NoRow}]
    <3> HIDE DEF t
    <3> QED
      BY <1>3, <2>2 DEF BalanceInv, TypeOK
  <2>4. topups' \in [Receipts -> TopupRow \cup {NoRow}]
    BY <1>3, <1>6 DEF BalanceInv, TypeOK
  <2> QED
    BY <1>3, <1>7, <2>3, <2>4 DEF BalanceInv, TypeOK
<1>9. TopupsSound'
  <2>1. \A s \in Receipts : topups'[s] = IF s = r THEN row ELSE topups[s]
    BY <1>3 DEF BalanceInv, TypeOK
  <2>2. row # NoRow /\ \A s \in Receipts : topups[s] # NoRow => topups[s] \in TopupRow
    BY <1>6 DEF BalanceInv, TypeOK, TopupRow, NoRow
  <2>3. TopupAddsUp'
    <3>1. row.refunded =< row.paid /\ row.clawed + row.debt = (row.nano * row.refunded) \div row.paid
      <4>1. row.clawed + row.debt = (t.clawed + t.debt) + part
        BY <1>4, <1>5, <1>6
      <4>2. row.clawed + row.debt = (t.nano * (t.refunded + cents)) \div t.paid
        BY <1>1, <1>2, <4>1
      <4>3. (row.nano * row.refunded) \div row.paid = (t.nano * (t.refunded + cents)) \div t.paid
        BY <1>6
      <4> QED
        BY <1>2, <1>6, <4>2, <4>3
    <3> QED
      BY <2>1, <3>1 DEF BalanceInv, TopupsSound, TopupAddsUp
  <2>4. \A s \in Receipts \ {r} :
          topups[s] # NoRow /\ topups[s].intent = t.intent => topups[s].refunded = topups[s].paid
    <3>1. t.refunded # t.paid
      BY <1>1, <1>2, <1>4
    <3> QED
      BY <1>3, <3>1 DEF BalanceInv, TopupsSound, TopupOnce
  <2>5. TopupOnce'
    BY <1>6, <2>1, <2>4 DEF BalanceInv, TopupsSound, TopupOnce
  <2>6. InForceSettled'
    <3> SUFFICES ASSUME NEW s \in Receipts, topups'[s] # NoRow, topups'[s].refunded < topups'[s].paid
                 PROVE  intents'[topups'[s].intent].status = "settled"
      BY DEF InForceSettled
    <3>1. CASE s = r
      <4>1. ~wholly /\ topups'[s].intent = t.intent
        BY <1>2, <1>4, <1>6, <2>1, <3>1
      <4>2. intents' = intents
        BY <1>3, <4>1
      <4>3. intents[t.intent].status = "settled"
        BY <1>1, <1>2, <1>3, <1>4 DEF BalanceInv, TopupsSound, InForceSettled
      <4> QED
        BY <4>1, <4>2, <4>3
    <3>2. CASE s # r
      <4>1. topups'[s] = topups[s] /\ topups[s] \in TopupRow
        BY <2>1, <2>2, <3>2
      <4>2. topups[s].refunded # topups[s].paid
        BY <4>1, BalanceAssumption DEF TopupRow
      <4>3. topups[s].intent # t.intent
        BY <2>4, <3>2, <4>1, <4>2
      <4>4. intents[topups[s].intent].status = "settled"
        BY <4>1 DEF BalanceInv, TopupsSound, InForceSettled
      <4>5. intents'[topups[s].intent] = intents[topups[s].intent]
        <5>1. topups[s].intent \in Intents
          BY <4>1 DEF TopupRow
        <5> HIDE DEF t
        <5> QED
          BY <1>3, <4>3, <5>1 DEF BalanceInv, TypeOK
      <4> QED
        BY <4>1, <4>4, <4>5
    <3> QED
      BY <3>1, <3>2
  <2> QED
    BY <2>3, <2>5, <2>6 DEF TopupsSound
<1>10. ChargedOnce'
  BY <1>3, HoldsKept DEF BalanceInv
<1>11. OverspendIsClawback'
  <2>1. \A a : /\ ClawedBy(row, a) = IF a = c THEN t.clawed + clawed ELSE 0
               /\ ClawedBy(t, a) = IF a = c THEN t.clawed ELSE 0
    <3>1. row # NoRow
      BY <1>6 DEF TopupRow, NoRow
    <3> QED
      BY <1>3, <1>6, <3>1 DEF ClawedBy
  <2> HIDE DEF t, c
  <2>2. \A a \in HoldAccounts :
           balance'[a] + ClawedBy(row, a) >= balance[a] + ClawedBy(t, a)
    BY <1>4, <1>5, <1>7, <2>1, InvTypes DEF BalanceInv
  <2> QED
    BY <1>3, <1>6, <1>8, <2>2, TopupStep DEF t
<1> QED
  BY <1>8, <1>9, <1>10, <1>11 DEF BalanceInv

----------------------------------------------------------------------------
(* The theorems.                                                           *)

\* The sweeper's read, the clock and a stuttering step move nothing.
LEMMA IdleInv ==
    ASSUME BalanceInv, due' \subseteq Holds, now' \in Nat,
           UNCHANGED <<balance, intents, topups, holds, settlements>>
    PROVE  BalanceInv'
<1>1. TypeOK'
  BY DEF BalanceInv, TypeOK
<1>2. TopupsSound' /\ ChargedOnce'
  BY TopupsKept, HoldsKept DEF BalanceInv
<1>3. OverspendIsClawback'
  <2>1. \A a \in HoldAccounts : balance'[a] >= balance[a]
    BY InvTypes DEF BalanceInv
  <2> QED
    BY <1>1, <2>1, MoneyMoves
<1> QED
  BY <1>1, <1>2, <1>3 DEF BalanceInv

\* Every step keeps the invariant.
LEMMA NextInv == BalanceInv /\ [Next]_vars => BalanceInv'
<1> SUFFICES ASSUME BalanceInv, [Next]_vars PROVE BalanceInv'
  OBVIOUS
<1>1. CASE TopupNext
  BY <1>1, StartTopupInv, FailTopupInv, SettleTopupInv DEF TopupNext
<1>2. CASE ReversalNext
  BY <1>2, ReverseTopupInv DEF ReversalNext
<1>3. CASE HoldNext
  BY <1>3, CreateHoldInv, ExtendHoldInv, SettleHoldInv, ReleaseHoldInv DEF HoldNext
<1>4. CASE SweepNext
  <2>1. CASE SweepRead
    <3>1. due' \subseteq Holds /\ now' \in Nat /\ UNCHANGED <<balance, intents, topups, holds, settlements>>
      BY <2>1 DEF SweepRead, BalanceInv, TypeOK
    <3> QED
      BY <3>1, IdleInv
  <2> QED
    BY <1>4, <2>1, SweepExpireInv DEF SweepNext
<1>5. CASE SpendNext
  BY <1>5, TransferInv, BuyVibesInv DEF SpendNext
<1>6. CASE \E o \in Owners, n \in Amounts : SandboxGrant(o, n)
  BY <1>6, SandboxGrantInv
<1>7. CASE Tick
  <2>1. due' \subseteq Holds /\ now' \in Nat /\ UNCHANGED <<balance, intents, topups, holds, settlements>>
    BY <1>7 DEF Tick, BalanceInv, TypeOK
  <2> QED
    BY <2>1, IdleInv
<1>8. CASE UNCHANGED vars
  <2>1. due' \subseteq Holds /\ now' \in Nat /\ UNCHANGED <<balance, intents, topups, holds, settlements>>
    BY <1>8 DEF vars, BalanceInv, TypeOK
  <2> QED
    BY <2>1, IdleInv
<1> QED
  BY <1>1, <1>2, <1>3, <1>4, <1>5, <1>6, <1>7, <1>8 DEF Next

\* The invariant holds of every reachable state of the Balance.
THEOREM BalanceInvariant == Spec => []BalanceInv
<1>1. BalanceInv /\ [Next]_vars => BalanceInv'
  BY NextInv
<1> QED
  BY InitInv, <1>1, PTL DEF Spec

\* Every reachable state of the Balance is well typed.
THEOREM BalanceTypeCorrect == Spec => []TypeOK
<1>1. BalanceInv => TypeOK
  BY DEF BalanceInv
<1> QED
  BY BalanceInvariant, <1>1, PTL

\* However holds, extensions, settlements, sweeps, transfers and refunds of top-ups
\* interleave, an account's open holds exceed its balance by no more than refunds
\* took from it.
THEOREM NoOverspend == Spec => []OverspendIsClawback
<1>1. BalanceInv => OverspendIsClawback
  BY DEF BalanceInv
<1> QED
  BY BalanceInvariant, <1>1, PTL

\* A hold is charged once or not at all.
THEOREM HoldChargedOnce == Spec => []ChargedOnce
<1>1. BalanceInv => ChargedOnce
  BY DEF BalanceInv
<1> QED
  BY BalanceInvariant, <1>1, PTL

\* However a refund of a top-up is cut, what was clawed back and what is owed add
\* up to the share of the credit that the refunded cents bought.
THEOREM TopupRefundsAddUp == Spec => []TopupAddsUp
<1>1. BalanceInv => TopupAddsUp
  BY DEF BalanceInv, TopupsSound
<1> QED
  BY BalanceInvariant, <1>1, PTL

\* A top-up intent is credited again only after its payment was wholly refunded.
THEOREM TopupCreditedOnce == Spec => []TopupOnce
<1>1. BalanceInv => TopupOnce
  BY DEF BalanceInv, TopupsSound
<1> QED
  BY BalanceInvariant, <1>1, PTL

----------------------------------------------------------------------------
(* The dollar journal.                                                     *)

SandboxBooks == {Sandbox(o) : o \in Owners} \cup {SandboxIssuer}
DollarBooks == NanoAccounts \ SandboxBooks

\* Both books of a table of balances sum to zero.
BothBalance(b) == SumFunctionOnSet(b, SandboxBooks) = 0 /\ SumFunctionOnSet(b, DollarBooks) = 0

\* A top-up never credits more than was paid: what a refund revokes is covered
\* by the cents that go back.
PaidCovers == \A r \in Receipts : topups[r] # NoRow => topups[r].nano =< topups[r].paid * NanoPerCent

JournalInv == BalanceInv /\ PaidCovers /\ JournalBalanced

\* The journal is the two books.
LEMMA BooksLaw ==
    /\ JournalBalanced <=> BothBalance(balance)
    /\ JournalBalanced' <=> BothBalance(balance')
  BY Zenon DEF JournalBalanced, SumOver, BothBalance, SandboxBooks, DollarBooks

\* The image of a finite set under an account's address.
LEMMA FiniteAddresses ==
    ASSUME NEW S, IsFiniteSet(S), NEW kind
    PROVE  IsFiniteSet({<<kind, o>> : o \in S})
<1> DEFINE T == {<<kind, o>> : o \in S}
           f == [o \in S |-> <<kind, o>>]
<1>1. f \in [S -> T] /\ \A y \in T : \E x \in S : f[x] = y
  OBVIOUS
<1> HIDE DEF f, T
<1>2. IsFiniteSet(T)
  BY <1>1, FiniteImage
<1> QED
  BY <1>2 DEF T

\* Both books are finite, and each account is in one of them.
LEMMA BooksFinite ==
    /\ IsFiniteSet(SandboxBooks) /\ IsFiniteSet(DollarBooks)
    /\ SandboxBooks \subseteq Accounts /\ DollarBooks \subseteq Accounts
<1>1. IsFiniteSet(Owners)
  BY BalanceAssumption, FS_Union DEF Owners
<1>2. IsFiniteSet({Sandbox(o) : o \in Owners}) /\ IsFiniteSet({UsdCredit(o) : o \in Owners})
  BY <1>1, FiniteAddresses DEF Sandbox, UsdCredit
<1>3. IsFiniteSet({UsdClearing(p) : p \in Providers})
  BY BalanceAssumption, FiniteAddresses DEF UsdClearing
<1>4. IsFiniteSet({SandboxIssuer})
  BY FS_Singleton
<1>5. IsFiniteSet({SandboxIssuer, UsdRevenue, TopupDebt})
  <2>1. IsFiniteSet({} \cup {SandboxIssuer}) /\ IsFiniteSet({SandboxIssuer} \cup {UsdRevenue})
        /\ IsFiniteSet(({SandboxIssuer} \cup {UsdRevenue}) \cup {TopupDebt})
    BY <1>4, FS_Singleton, FS_Union, FS_EmptySet
  <2>2. ({SandboxIssuer} \cup {UsdRevenue}) \cup {TopupDebt} = {SandboxIssuer, UsdRevenue, TopupDebt}
    OBVIOUS
  <2> QED
    BY <2>1, <2>2
<1>6. IsFiniteSet(SandboxBooks)
  BY <1>2, <1>4, FS_Union DEF SandboxBooks
<1>7. IsFiniteSet(NanoAccounts)
  BY <1>2, <1>3, <1>5, FS_Union DEF NanoAccounts, HoldAccounts
<1>8. IsFiniteSet(DollarBooks)
  BY <1>7, FS_Difference DEF DollarBooks
<1>9. SandboxBooks \subseteq NanoAccounts
  BY DEF SandboxBooks, NanoAccounts, HoldAccounts
<1> QED
  BY <1>6, <1>8, <1>9 DEF DollarBooks, Accounts

\* Where the accounts are.
LEMMA BooksHold ==
    /\ \A o \in Owners : Sandbox(o) \in SandboxBooks /\ UsdCredit(o) \in DollarBooks /\ Sandbox(o) # SandboxIssuer
                         /\ UsdCredit(o) \notin {UsdRevenue, TopupDebt}
    /\ \A p \in Providers : UsdClearing(p) \in DollarBooks /\ UsdClearing(p) \notin {UsdRevenue, TopupDebt}
    /\ \A o \in Owners, p \in Providers : UsdCredit(o) # UsdClearing(p)
    /\ SandboxIssuer \in SandboxBooks /\ UsdRevenue \in DollarBooks /\ TopupDebt \in DollarBooks
    /\ UsdRevenue # TopupDebt
    /\ \A u \in People : VibesCredit(u) \notin SandboxBooks \cup DollarBooks /\ VibesCredit(u) \in Accounts
    /\ FxBits \notin SandboxBooks \cup DollarBooks /\ FxBits \in Accounts /\ \A u \in People : FxBits # VibesCredit(u)
<1>1. None \notin Owners
  BY BalanceAssumption DEF Owners
<1> QED
  BY <1>1 DEF SandboxBooks, DollarBooks, Accounts, NanoAccounts, HoldAccounts, UsdCredit, Sandbox, UsdClearing,
              VibesCredit, UsdRevenue, TopupDebt, SandboxIssuer, FxBits

\* Value moved within one book, or outside both, keeps both.
LEMMA MovedBooks ==
    ASSUME NEW b \in [Accounts -> Int], BothBalance(b), NEW x \in Accounts, NEW y \in Accounts, x # y,
           NEW n \in Int,
           \/ x \in SandboxBooks /\ y \in SandboxBooks
           \/ x \in DollarBooks /\ y \in DollarBooks
           \/ {x, y} \cap (SandboxBooks \cup DollarBooks) = {}
    PROVE  Moved(b, x, y, n) \in [Accounts -> Int] /\ BothBalance(Moved(b, x, y, n))
<1> DEFINE c == Moved(b, x, y, n)
<1>1. c \in [Accounts -> Int] /\ \A z \in Accounts :
        c[z] = IF z = x THEN b[x] - n ELSE IF z = y THEN b[y] + n ELSE b[z]
  BY DEF Moved
<1> HIDE DEF c
<1>2. ASSUME NEW S, IsFiniteSet(S), S \subseteq Accounts, (x \in S /\ y \in S) \/ (x \notin S /\ y \notin S)
      PROVE  SumFunctionOnSet(c, S) = SumFunctionOnSet(b, S)
  <2>1. \A z \in S : b[z] \in Int /\ c[z] \in Int
    BY <1>1, <1>2
  <2>2. CASE x \in S /\ y \in S
    <3>1. c[x] + c[y] = b[x] + b[y] /\ \A z \in S \ {x, y} : c[z] = b[z]
      BY <1>1, <1>2, <2>2
    <3> QED
      BY <1>2, <2>1, <2>2, <3>1, SumMove
  <2>3. CASE x \notin S /\ y \notin S
    <3>1. \A z \in S : b[z] \in Int /\ c[z] = b[z]
      BY <1>1, <1>2, <2>3
    <3> QED
      BY <1>2, <3>1, SumSame
  <2> QED
    BY <1>2, <2>2, <2>3
<1>3. SandboxBooks \cap DollarBooks = {}
  BY DEF DollarBooks
<1>4. SumFunctionOnSet(c, SandboxBooks) = SumFunctionOnSet(b, SandboxBooks)
  BY <1>2, <1>3, BooksFinite
<1>5. SumFunctionOnSet(c, DollarBooks) = SumFunctionOnSet(b, DollarBooks)
  BY <1>2, <1>3, BooksFinite
<1>6. BothBalance(c)
  BY <1>4, <1>5 DEF BothBalance
<1> QED
  BY <1>1, <1>6 DEF c


\* Only one of the accounts holds draw on changes, to m.
OnlyAt(c, m) == \A a \in HoldAccounts : balance'[a] = IF a = c THEN m ELSE balance[a]

\* A reversal revokes no more than the cents that go back are worth.
LEMMA RevokedWithin ==
    ASSUME NEW t \in TopupRow, t.nano =< t.paid * NanoPerCent, NEW c \in Nat
    PROVE  Revoked(t, c) =< c * NanoPerCent
<1> DEFINE m == t.paid
           x == t.nano * t.refunded
           y == t.nano * (t.refunded + c)
           p == x \div m
           q == y \div m
           z == c * NanoPerCent
<1>1. m \in Nat \ {0} /\ t.nano \in Nat /\ t.refunded \in Nat /\ NanoPerCent \in Nat
  BY BalanceAssumption DEF TopupRow
<1>2. x \in Nat /\ y \in Nat /\ z \in Nat /\ y = x + t.nano * c /\ t.nano * c \in Nat
  BY <1>1
<1>3. t.nano * c =< m * z
  <2>1. (t.paid * NanoPerCent - t.nano) * c \in Nat
    BY <1>1
  <2>2. (t.paid * NanoPerCent - t.nano) * c = m * z - t.nano * c
    BY <1>1
  <2>3. m * z \in Nat
    BY <1>1, <1>2
  <2> QED
    BY <1>2, <2>1, <2>2, <2>3
<1>4. Revoked(t, c) = q - p
  BY DEF Revoked
<1> HIDE DEF x, y, z, m
<1>5. p \in Int /\ m * p =< x /\ x < m * p + m
  BY <1>1, <1>2, DivLaw
<1>6. q \in Int /\ m * q =< y /\ y < m * q + m
  <2>1. y \in Int /\ m \in Nat \ {0}
    BY <1>1, <1>2
  <2> QED
    BY <2>1, DivLaw
<1> HIDE DEF p, q
<1>7. m * p \in Int /\ m * q \in Int /\ m * z \in Int
  BY <1>1, <1>2, <1>5, <1>6
<1> DEFINE mp == m * p
           mq == m * q
           mz == m * z
           nc == t.nano * c
<1>8. mq < mp + m + mz
  <2>1. mq =< y /\ y = x + nc /\ nc =< mz /\ x < mp + m
    BY <1>2, <1>3, <1>5, <1>6
  <2>2. mq \in Int /\ mp \in Int /\ mz \in Int /\ nc \in Int /\ x \in Int /\ y \in Int /\ m \in Int
    BY <1>1, <1>2, <1>7
  <2> HIDE DEF mp, mq, mz, nc
  <2> QED
    BY <2>1, <2>2
<1>9. ASSUME q - p > z PROVE FALSE
  <2>1. q - p - z - 1 \in Nat
    BY <1>2, <1>5, <1>6, <1>9
  <2>2. m * (q - p - z - 1) \in Nat
    BY <1>1, <2>1
  <2>3. m * (q - p - z - 1) = m * q - m * p - m * z - m
    BY <1>1, <1>2, <1>5, <1>6
  <2> QED
    BY <1>1, <1>7, <1>8, <2>2, <2>3
<1>10. q - p =< z
  BY <1>2, <1>5, <1>6, <1>9
<1> QED
  BY <1>4, <1>10 DEF z

\* The books and the payments are sound where nobody touches them.
LEMMA BooksKept ==
    ASSUME JournalInv, UNCHANGED <<balance, topups>>
    PROVE  PaidCovers' /\ BothBalance(balance')
<1>1. BothBalance(balance) /\ PaidCovers
  BY BooksLaw DEF JournalInv
<1> QED
  BY <1>1 DEF PaidCovers, BothBalance

\* So are they where value moves within one book and no top-up changes.
LEMMA BooksMoved ==
    ASSUME JournalInv, UNCHANGED topups, NEW x \in Accounts, NEW y \in Accounts, x # y, NEW n \in Int,
           balance' = Moved(balance, x, y, n),
           \/ x \in SandboxBooks /\ y \in SandboxBooks
           \/ x \in DollarBooks /\ y \in DollarBooks
    PROVE  PaidCovers' /\ BothBalance(balance')
<1>1. BothBalance(balance) /\ PaidCovers /\ balance \in [Accounts -> Int]
  BY BooksLaw, InvTypes DEF JournalInv, BalanceInv
<1>2. BothBalance(Moved(balance, x, y, n))
  BY <1>1, MovedBooks
<1> QED
  BY <1>1, <1>2 DEF PaidCovers

\* Charging a hold moves money to revenue, sandbox credit back to its issuer.
LEMMA SettleHoldBooks ==
    ASSUME JournalInv, NEW h \in Holds, NEW charge \in Charges, SettleHold(h, charge)
    PROVE  PaidCovers' /\ BothBalance(balance')
<1> DEFINE a == holds[h].account
           n == Collected(h, charge)
           into == IF a[1] = "usd_credit" THEN UsdRevenue ELSE SandboxIssuer
<1>1. /\ holds[h] \in HoldRow /\ a \in HoldAccounts /\ charge \in Nat /\ UNCHANGED topups
      /\ balance' = Moved(balance, a, into, n)
  BY OpenIsRow, BalanceAssumption DEF JournalInv, SettleHold
<1>2. n \in Int
  <2>1. holds[h].held \in Nat /\ Available(a) \in Int
    BY <1>1, InvTypes DEF JournalInv, BalanceInv, HoldRow
  <2> QED
    BY <1>1, <2>1 DEF Collected, Room, AtMost
<1> HIDE DEF n
<1>3. CASE \E o \in Owners : a = UsdCredit(o)
  <2>1. into = UsdRevenue /\ a # UsdRevenue /\ a \in DollarBooks /\ UsdRevenue \in DollarBooks
    BY <1>3, BooksHold DEF UsdCredit
  <2> HIDE DEF a, into
  <2> QED
    BY <1>1, <1>2, <2>1, BooksFinite, BooksMoved
<1>4. CASE \E o \in Owners : a = Sandbox(o)
  <2>1. into = SandboxIssuer /\ a # SandboxIssuer /\ a \in SandboxBooks /\ SandboxIssuer \in SandboxBooks
    BY <1>4, BooksHold DEF Sandbox
  <2> HIDE DEF a, into
  <2> QED
    BY <1>1, <1>2, <2>1, BooksFinite, BooksMoved
<1> QED
  BY <1>1, <1>3, <1>4 DEF HoldAccounts

\* Buying Vibes moves dollars to revenue, and the Vibes outside both books.
LEMMA BuyVibesBooks ==
    ASSUME JournalInv, NEW u \in People, NEW vibes \in VibesAmounts, BuyVibes(u, vibes)
    PROVE  PaidCovers' /\ BothBalance(balance')
<1> DEFINE price == VibesPrice(vibes)
           paid == Moved(balance, UsdCredit(u), UsdRevenue, price)
<1>1. price \in Int /\ vibes \in Int /\ u \in Owners
  <2>1. vibes * 100 * NanoPerCent + BitsPerUsd - 1 \in Int /\ BitsPerUsd \in Nat \ {0} /\ vibes \in Int
    BY BalanceAssumption, RatesAssumption
  <2> QED
    BY <2>1, DivLaw DEF VibesPrice, Owners
<1>2. BothBalance(balance) /\ PaidCovers /\ balance \in [Accounts -> Int]
  BY BooksLaw, InvTypes DEF JournalInv, BalanceInv
<1>3. balance' = Moved(paid, FxBits, VibesCredit(u), vibes) /\ UNCHANGED topups
  BY DEF BuyVibes
<1> HIDE DEF price
<1>4. paid \in [Accounts -> Int] /\ BothBalance(paid)
  <2>1. /\ UsdCredit(u) \in DollarBooks /\ UsdRevenue \in DollarBooks /\ UsdCredit(u) # UsdRevenue
        /\ UsdCredit(u) \in Accounts /\ UsdRevenue \in Accounts
    BY <1>1, BooksHold, BooksFinite
  <2> QED
    BY <1>1, <1>2, <2>1, MovedBooks
<1> HIDE DEF paid
<1>5. BothBalance(Moved(paid, FxBits, VibesCredit(u), vibes))
  <2>1. /\ FxBits \in Accounts /\ VibesCredit(u) \in Accounts /\ FxBits # VibesCredit(u)
        /\ {FxBits, VibesCredit(u)} \cap (SandboxBooks \cup DollarBooks) = {}
    BY BooksHold
  <2> QED
    BY <1>1, <1>4, <2>1, MovedBooks
<1> QED
  BY <1>2, <1>3, <1>5 DEF PaidCovers

\* A payment: what was paid leaves the provider's clearing account, the amount as
\* credit and the rest as revenue.
LEMMA SettleTopupBooks ==
    ASSUME JournalInv, NEW r \in Receipts, NEW i \in Intents, NEW p \in Providers, NEW paid \in PaidCents,
           SettleTopup(r, i, p, paid)
    PROVE  /\ PaidCovers' /\ BothBalance(balance')
           /\ intents[i] \in IntentRow /\ intents[i].amount * NanoPerCent \in Nat
           /\ OnlyAt(UsdCredit(intents[i].owner),
                     balance[UsdCredit(intents[i].owner)] + intents[i].amount * NanoPerCent)
<1> DEFINE old == intents[i]
           nano == old.amount * NanoPerCent
           rest == paid * NanoPerCent - nano
           x == UsdClearing(p)
           c == UsdCredit(old.owner)
           fee == FeeCents(old.amount)
           b == Moved(balance, x, c, nano)
<1>1. old \in IntentRow /\ old.amount \in Nat /\ old.owner \in Owners
  BY BalanceAssumption DEF JournalInv, BalanceInv, TypeOK, SettleTopup, IntentOpen, IntentRow
<1>2. paid \in Nat /\ NanoPerCent \in Nat /\ fee \in Nat
  <2>1. old.amount * FeeBps + 9999 \in Nat
    BY <1>1, BalanceAssumption
  <2>2. (old.amount * FeeBps + 9999) \div 10000 \in Nat
    BY <2>1
  <2> QED
    BY <2>2, BalanceAssumption DEF FeeCents
<1>3. /\ paid >= old.amount + fee
      /\ balance' = [balance EXCEPT ![x] = @ - paid * NanoPerCent, ![c] = @ + nano,
                                    ![UsdRevenue] = @ + (paid * NanoPerCent - nano)]
      /\ topups' = [topups EXCEPT ![r] =
           [status |-> "posted", intent |-> i, owner |-> old.owner, provider |-> p, paid |-> paid,
            nano |-> nano, refunded |-> 0, clawed |-> 0, debt |-> 0]]
  BY DEF SettleTopup
<1>4. nano \in Nat /\ paid * NanoPerCent \in Nat /\ nano =< paid * NanoPerCent
  <2>1. (paid - old.amount) * NanoPerCent \in Nat
    <3> HIDE DEF fee, old
    <3> QED
      BY <1>1, <1>2, <1>3
  <2>2. (paid - old.amount) * NanoPerCent = paid * NanoPerCent - nano /\ nano \in Nat /\ paid * NanoPerCent \in Nat
    BY <1>1, <1>2
  <2> QED
    BY <2>1, <2>2
<1>5. PaidCovers'
  <2>1. topups \in TopupTable /\ PaidCovers
    BY InvTypes DEF JournalInv, BalanceInv
  <2> HIDE DEF nano
  <2> QED
    BY <1>3, <1>4, <2>1 DEF PaidCovers, TopupTable
<1>6. /\ x \in DollarBooks /\ c \in DollarBooks /\ UsdRevenue \in DollarBooks
      /\ x # c /\ c # UsdRevenue /\ x # UsdRevenue
      /\ x \in Accounts /\ c \in Accounts /\ UsdRevenue \in Accounts
  BY <1>1, BooksHold, BooksFinite
<1>7. BothBalance(balance) /\ balance \in [Accounts -> Int]
  BY BooksLaw, InvTypes DEF JournalInv, BalanceInv
<1> DEFINE all == paid * NanoPerCent
<1>8. rest \in Int /\ all \in Int /\ rest = all - nano
  BY <1>4
<1> HIDE DEF nano, rest, x, c, all
<1>9. b \in [Accounts -> Int] /\ BothBalance(b)
  BY <1>4, <1>6, <1>7, MovedBooks
<1>10. Moved(b, x, UsdRevenue, rest) \in [Accounts -> Int] /\ BothBalance(Moved(b, x, UsdRevenue, rest))
  <2> HIDE DEF b
  <2> QED
    BY <1>6, <1>8, <1>9, MovedBooks
<1>11. balance' = Moved(b, x, UsdRevenue, rest)
  <2> DEFINE d == Moved(b, x, UsdRevenue, rest)
  <2>1. balance' = [balance EXCEPT ![x] = @ - all, ![c] = @ + nano, ![UsdRevenue] = @ + rest]
    BY <1>3 DEF all, rest
  <2> HIDE DEF UsdRevenue
  <2>2. balance' \in [Accounts -> Int] /\ \A a \in Accounts :
          balance'[a] = IF a = x THEN balance[x] - all ELSE IF a = c THEN balance[c] + nano
                        ELSE IF a = UsdRevenue THEN balance[UsdRevenue] + rest ELSE balance[a]
    BY <1>4, <1>6, <1>7, <1>8, <2>1
  <2>3. \A a \in Accounts : b[a] = IF a = x THEN balance[x] - nano ELSE IF a = c THEN balance[c] + nano
                                   ELSE balance[a]
    BY <1>6, <1>7 DEF b, Moved
  <2> HIDE DEF b
  <2>4. d \in [Accounts -> Int] /\ \A a \in Accounts :
          d[a] = IF a = x THEN b[x] - rest ELSE IF a = UsdRevenue THEN b[UsdRevenue] + rest ELSE b[a]
    BY <1>6, <1>8, <1>9 DEF Moved
  <2> HIDE DEF d
  <2>5. \A a \in Accounts : balance'[a] = d[a]
    BY <1>4, <1>6, <1>7, <1>8, <2>2, <2>3, <2>4
  <2>6. balance' = d
    BY <2>2, <2>4, <2>5
  <2> QED
    BY <2>6 DEF d
<1>12. OnlyAt(c, balance[c] + nano)
  <2>1. x \notin HoldAccounts /\ UsdRevenue \notin HoldAccounts /\ HoldAccounts \subseteq Accounts
    BY AccountLaw DEF x
  <2>2. balance' = [balance EXCEPT ![x] = @ - all, ![c] = @ + nano, ![UsdRevenue] = @ + rest]
    BY <1>3 DEF all, rest
  <2> HIDE DEF UsdRevenue
  <2> QED
    BY <1>4, <1>6, <1>7, <1>8, <2>1, <2>2 DEF OnlyAt
<1> QED
  BY <1>1, <1>4, <1>5, <1>10, <1>11, <1>12 DEF nano, c

\* A reversal: the cents that go back come out of the credit, of a debt where it is
\* gone, and of revenue.
LEMMA ReverseTopupBooks ==
    ASSUME JournalInv, NEW r \in Receipts, NEW mode \in {"cumulative", "cents", "rest"}, NEW n \in PaidCents,
           ReverseTopup(r, mode, n)
    PROVE  /\ PaidCovers' /\ BothBalance(balance')
           /\ LET t == topups[r]
                  c == UsdCredit(t.owner)
                  cents == CentsToReverse(t, mode, n)
                  clawed == AtLeast(0, AtMost(balance[c], Revoked(t, cents)))
              IN  clawed \in Nat /\ cents \in Nat /\ OnlyAt(c, balance[c] - clawed)
<1> DEFINE t == topups[r]
           x == UsdClearing(t.provider)
           c == UsdCredit(t.owner)
           cents == CentsToReverse(t, mode, n)
           part == Revoked(t, cents)
           clawed == AtLeast(0, AtMost(balance[c], part))
           debt == Debt(part, clawed)
           all == cents * NanoPerCent
           rest == AtLeast(0, cents * NanoPerCent - part)
           row == [t EXCEPT !.refunded = @ + cents, !.clawed = @ + clawed, !.debt = @ + debt]
           b1 == Moved(balance, c, x, clawed)
           b2 == Moved(b1, TopupDebt, x, debt)
           b3 == Moved(b2, UsdRevenue, x, rest)
<1>1. /\ t \in TopupRow /\ t # NoRow /\ t.refunded =< t.paid /\ t.nano =< t.paid * NanoPerCent
      /\ cents > 0 /\ t.owner \in Owners /\ t.provider \in Providers
  <2>1. t \in TopupRow /\ t # NoRow /\ cents > 0
    BY DEF JournalInv, BalanceInv, TypeOK, ReverseTopup
  <2>2. t.refunded =< t.paid /\ t.nano =< t.paid * NanoPerCent
    BY <2>1 DEF JournalInv, PaidCovers, BalanceInv, TopupsSound, TopupAddsUp
  <2>3. t.owner \in Owners /\ t.provider \in Providers
    BY <2>1 DEF TopupRow
  <2> QED
    BY <2>1, <2>2, <2>3
<1>2. cents \in Nat /\ part \in Nat /\ part =< all
  <2> HIDE DEF t
  <2>1. cents \in Nat /\ part \in Nat
    BY <1>1, RevokedLaw
  <2> HIDE DEF cents
  <2> QED
    BY <1>1, <2>1, RevokedWithin
<1>3. /\ topups' = [topups EXCEPT ![r] = row]
      /\ balance' = [balance EXCEPT ![x] = @ + all, ![c] = @ - clawed, ![UsdRevenue] = @ - rest,
                                    ![TopupDebt] = @ - debt]
  BY DEF ReverseTopup
<1>4. BothBalance(balance) /\ balance \in [Accounts -> Int]
  BY BooksLaw, InvTypes DEF JournalInv, BalanceInv
<1>5. /\ x \in DollarBooks /\ c \in DollarBooks /\ UsdRevenue \in DollarBooks /\ TopupDebt \in DollarBooks
      /\ c # x /\ UsdRevenue # x /\ TopupDebt # x /\ c # UsdRevenue /\ c # TopupDebt /\ UsdRevenue # TopupDebt
      /\ x \in Accounts /\ c \in Accounts /\ UsdRevenue \in Accounts /\ TopupDebt \in Accounts
  BY <1>1, BooksHold, BooksFinite
<1>6. PaidCovers'
  <2>1. topups \in TopupTable /\ PaidCovers
    BY InvTypes DEF JournalInv, BalanceInv
  <2>2. row.nano = t.nano /\ row.paid = t.paid
    BY <1>1 DEF TopupRow
  <2> HIDE DEF row
  <2> QED
    BY <1>1, <1>3, <2>1, <2>2 DEF PaidCovers, TopupTable
<1>7. balance[c] \in Int
  BY <1>4, <1>5
<1> HIDE DEF part, row
<1>8. all \in Int /\ rest \in Int /\ clawed \in Nat /\ clawed \in Int /\ debt \in Int /\ clawed + debt + rest = all
  <2>1. all \in Nat
    BY <1>2, BalanceAssumption
  <2>2. cents * NanoPerCent = all
    OBVIOUS
  <2> HIDE DEF all, cents, c
  <2> QED
    BY <1>2, <1>7, <2>1, <2>2 DEF AtLeast, AtMost, Debt
<1> HIDE DEF clawed, debt, all, rest, x, c, cents, t
<1>9. b1 \in [Accounts -> Int] /\ BothBalance(b1)
  BY <1>4, <1>5, <1>8, MovedBooks
<1>10. b2 \in [Accounts -> Int] /\ BothBalance(b2)
  <2> HIDE DEF b1
  <2> QED
    BY <1>5, <1>8, <1>9, MovedBooks
<1>11. b3 \in [Accounts -> Int] /\ BothBalance(b3)
  <2> HIDE DEF b2
  <2> QED
    BY <1>5, <1>8, <1>10, MovedBooks
<1>12. balance' = b3
  <2> HIDE DEF UsdRevenue, TopupDebt
  <2>1. balance' \in [Accounts -> Int] /\ \A a \in Accounts :
          balance'[a] = IF a = x THEN balance[x] + all ELSE IF a = c THEN balance[c] - clawed
                        ELSE IF a = UsdRevenue THEN balance[UsdRevenue] - rest
                        ELSE IF a = TopupDebt THEN balance[TopupDebt] - debt ELSE balance[a]
    BY <1>3, <1>4, <1>5, <1>8
  <2>2. \A a \in Accounts : b1[a] = IF a = c THEN balance[c] - clawed ELSE IF a = x THEN balance[x] + clawed
                                    ELSE balance[a]
    BY <1>4, <1>5 DEF Moved
  <2> HIDE DEF b1
  <2>3. \A a \in Accounts : b2[a] = IF a = TopupDebt THEN b1[TopupDebt] - debt ELSE IF a = x THEN b1[x] + debt
                                    ELSE b1[a]
    BY <1>5, <1>9 DEF Moved
  <2> HIDE DEF b2
  <2>4. \A a \in Accounts : b3[a] = IF a = UsdRevenue THEN b2[UsdRevenue] - rest ELSE IF a = x THEN b2[x] + rest
                                    ELSE b2[a]
    BY <1>5, <1>10 DEF Moved
  <2> HIDE DEF b3
  <2>5. \A a \in Accounts \ {x} : balance'[a] = b3[a]
    BY <1>5, <2>1, <2>2, <2>3, <2>4
  <2>6. balance'[x] = b3[x]
    <3>1. b3[x] = balance[x] + clawed + debt + rest
      BY <1>5, <2>2, <2>3, <2>4
    <3>2. balance'[x] = balance[x] + all /\ balance[x] \in Int
      BY <1>4, <1>5, <2>1
    <3> QED
      BY <1>8, <3>1, <3>2
  <2>7. \A a \in Accounts : balance'[a] = b3[a]
    BY <2>5, <2>6
  <2> QED
    BY <1>11, <2>1, <2>7
<1>13. OnlyAt(c, balance[c] - clawed)
  <2>1. /\ x \notin HoldAccounts /\ UsdRevenue \notin HoldAccounts /\ TopupDebt \notin HoldAccounts
        /\ HoldAccounts \subseteq Accounts
    BY <1>1, AccountLaw DEF x
  <2> HIDE DEF UsdRevenue, TopupDebt
  <2> QED
    BY <1>3, <1>4, <1>5, <1>8, <2>1 DEF OnlyAt
<1> QED
  BY <1>2, <1>6, <1>8, <1>11, <1>12, <1>13 DEF clawed, part, c, t, cents


\* The books are balanced at first.
LEMMA InitJournal == Init => JournalInv
<1> SUFFICES ASSUME Init PROVE JournalInv
  OBVIOUS
<1>1. \A a \in Accounts : balance[a] = 0
  BY DEF Init
<1>2. SumFunctionOnSet(balance, SandboxBooks) = 0 /\ SumFunctionOnSet(balance, DollarBooks) = 0
  BY <1>1, BooksFinite, SumZero
<1>3. JournalBalanced
  BY <1>2, BooksLaw DEF BothBalance
<1>4. PaidCovers
  BY DEF Init, PaidCovers
<1> QED
  BY <1>3, <1>4, InitInv DEF JournalInv

\* Every step keeps the books balanced.
LEMMA NextJournal == JournalInv /\ [Next]_vars => JournalInv'
<1> SUFFICES ASSUME JournalInv, [Next]_vars PROVE PaidCovers' /\ BothBalance(balance')
  BY NextInv, BooksLaw DEF JournalInv
<1>1. CASE TopupNext
  <2>1. ASSUME NEW i \in Intents, NEW o \in Owners, NEW p \in Providers, NEW amount \in TopupCents,
               StartTopup(i, o, p, amount)
        PROVE  UNCHANGED <<balance, topups>>
    BY <2>1 DEF StartTopup
  <2>2. ASSUME NEW i \in Intents, FailTopup(i) PROVE UNCHANGED <<balance, topups>>
    BY <2>2 DEF FailTopup
  <2> QED
    BY <1>1, <2>1, <2>2, BooksKept, SettleTopupBooks DEF TopupNext
<1>2. CASE ReversalNext
  BY <1>2, ReverseTopupBooks DEF ReversalNext
<1>3. CASE HoldNext
  <2>1. ASSUME NEW h \in Holds, NEW a \in HoldAccounts, NEW max \in Amounts, CreateHold(h, a, max)
        PROVE  UNCHANGED <<balance, topups>>
    BY <2>1 DEF CreateHold
  <2>2. ASSUME NEW h \in Holds, NEW add \in Amounts, ExtendHold(h, add) PROVE UNCHANGED <<balance, topups>>
    BY <2>2 DEF ExtendHold
  <2>3. ASSUME NEW h \in Holds, ReleaseHold(h) PROVE UNCHANGED <<balance, topups>>
    BY <2>3 DEF ReleaseHold
  <2> QED
    BY <1>3, <2>1, <2>2, <2>3, BooksKept, SettleHoldBooks DEF HoldNext
<1>4. CASE SweepNext
  <2>1. UNCHANGED <<balance, topups>>
    BY <1>4 DEF SweepNext, SweepRead, SweepExpire
  <2> QED
    BY <2>1, BooksKept
<1>5. CASE SpendNext
  <2>1. ASSUME NEW u \in People, NEW p \in Projects, NEW n \in Amounts, Transfer(u, p, n)
        PROVE  PaidCovers' /\ BothBalance(balance')
    <3>1. n \in Int /\ u \in Owners /\ p \in Owners /\ UsdCredit(u) # UsdCredit(p)
      BY BalanceAssumption DEF Owners, UsdCredit
    <3>2. /\ UsdCredit(u) \in Accounts /\ UsdCredit(p) \in Accounts
          /\ UsdCredit(u) \in DollarBooks /\ UsdCredit(p) \in DollarBooks
      BY <3>1, BooksHold, BooksFinite
    <3>3. balance' = Moved(balance, UsdCredit(u), UsdCredit(p), n) /\ UNCHANGED topups
      BY <2>1 DEF Transfer
    <3> QED
      BY <3>1, <3>2, <3>3, BooksMoved
  <2> QED
    BY <1>5, <2>1, BuyVibesBooks DEF SpendNext
<1>6. ASSUME NEW o \in Owners, NEW n \in Amounts, SandboxGrant(o, n)
      PROVE  PaidCovers' /\ BothBalance(balance')
  <2>1. /\ SandboxIssuer \in Accounts /\ Sandbox(o) \in Accounts /\ SandboxIssuer # Sandbox(o)
        /\ SandboxIssuer \in SandboxBooks /\ Sandbox(o) \in SandboxBooks /\ n \in Int
    BY BooksHold, BooksFinite, BalanceAssumption
  <2>2. balance' = Moved(balance, SandboxIssuer, Sandbox(o), n) /\ UNCHANGED topups
    BY <1>6 DEF SandboxGrant
  <2> QED
    BY <2>1, <2>2, BooksMoved
<1>7. CASE Tick
  BY <1>7, BooksKept DEF Tick
<1>8. CASE UNCHANGED vars
  BY <1>8, BooksKept DEF vars
<1> QED
  BY <1>1, <1>2, <1>3, <1>4, <1>5, <1>6, <1>7, <1>8 DEF Next

\* The dollar journal sums to zero in every reachable state, and so do the sandbox
\* books by themselves.
THEOREM DollarsBalance == Spec => []JournalBalanced
<1>1. JournalInv /\ [Next]_vars => JournalInv'
  BY NextJournal
<1>2. JournalInv => JournalBalanced
  BY DEF JournalInv
<1> QED
  BY InitJournal, <1>1, <1>2, PTL DEF Spec


----------------------------------------------------------------------------
(* The Balance implements the pockets.                                     *)

\* Moving money from or to a hold's account changes only that account, as far as
\* holds can see.
LEMMA MovedAt ==
    ASSUME BalanceInv, NEW x \in Accounts, NEW y \in Accounts, x # y, NEW n \in Int,
           balance' = Moved(balance, x, y, n)
    PROVE  /\ x \in HoldAccounts /\ y \notin HoldAccounts => OnlyAt(x, balance[x] - n)
           /\ x \notin HoldAccounts /\ y \in HoldAccounts => OnlyAt(y, balance[y] + n)
<1>1. balance \in [Accounts -> Int] /\ HoldAccounts \subseteq Accounts
  BY InvTypes, AccountLaw DEF BalanceInv
<1>2. \A a \in Accounts : balance'[a] = IF a = x THEN balance[x] - n ELSE IF a = y THEN balance[y] + n ELSE balance[a]
  BY <1>1 DEF Moved
<1> QED
  BY <1>1, <1>2 DEF OnlyAt

\* The pockets in terms of the tables.
LEMMA PocketTables ==
    /\ FreeMoney = [a \in HoldAccounts |-> balance[a] - HeldIn(holds, a)]
    /\ FreeMoney' = [a \in HoldAccounts |-> balance'[a] - HeldIn(holds', a)]
    /\ Reclaimed = [a \in HoldAccounts |-> ClawedIn(topups, a)]
    /\ Reclaimed' = [a \in HoldAccounts |-> ClawedIn(topups', a)]
<1>1. /\ FreeMoney = [a \in HoldAccounts |-> balance[a] - HeldIn(holds, a)]
      /\ FreeMoney' = [a \in HoldAccounts |-> balance'[a] - HeldIn(holds', a)]
  BY DEF FreeMoney, Available, Held, OpenOn, Open, HeldIn, OpenIn
<1>2. /\ Reclaimed = [a \in HoldAccounts |-> ClawedIn(topups, a)]
      /\ Reclaimed' = [a \in HoldAccounts |-> ClawedIn(topups', a)]
  BY DEF Reclaimed, Clawed, SumOver, ClawedIn, CreditedIn
<1> QED
  BY <1>1, <1>2

\* What is free on an account, before and after a step.
LEMMA FreeLaw ==
    ASSUME BalanceInv, TypeOK'
    PROVE  /\ \A a \in HoldAccounts :
                /\ FreeMoney[a] = balance[a] - HeldIn(holds, a) /\ FreeMoney'[a] = balance'[a] - HeldIn(holds', a)
                /\ Reclaimed[a] = ClawedIn(topups, a) /\ Reclaimed'[a] = ClawedIn(topups', a)
                /\ FreeMoney[a] \in Int /\ FreeMoney'[a] \in Int /\ Reclaimed[a] \in Int
           /\ FreeMoney = [a \in HoldAccounts |-> FreeMoney[a]] /\ FreeMoney' = [a \in HoldAccounts |-> FreeMoney'[a]]
           /\ Reclaimed = [a \in HoldAccounts |-> Reclaimed[a]] /\ Reclaimed' = [a \in HoldAccounts |-> Reclaimed'[a]]
<1>1. /\ FreeMoney = [a \in HoldAccounts |-> balance[a] - HeldIn(holds, a)]
      /\ FreeMoney' = [a \in HoldAccounts |-> balance'[a] - HeldIn(holds', a)]
      /\ Reclaimed = [a \in HoldAccounts |-> ClawedIn(topups, a)]
      /\ Reclaimed' = [a \in HoldAccounts |-> ClawedIn(topups', a)]
  BY PocketTables
<1>2. ASSUME NEW a \in HoldAccounts
      PROVE  /\ balance[a] \in Int /\ HeldIn(holds, a) \in Int /\ ClawedIn(topups, a) \in Int
             /\ balance'[a] \in Int /\ HeldIn(holds', a) \in Int
  <2>1. balance[a] \in Int /\ HeldIn(holds, a) \in Int /\ ClawedIn(topups, a) \in Int
    BY InvTypes DEF BalanceInv
  <2>2. holds' \in HoldTable /\ topups' \in TopupTable /\ balance'[a] \in Int
    BY AccountLaw DEF TypeOK, HoldTable, TopupTable
  <2> QED
    BY <2>1, <2>2, TableTypes
<1> QED
  BY <1>1, <1>2

\* Where only one account changes, its free money is the only that does.
LEMMA FreeOne ==
    ASSUME BalanceInv, TypeOK', NEW p \in HoldAccounts, \A a \in HoldAccounts \ {p} : FreeMoney'[a] = FreeMoney[a]
    PROVE  FreeMoney' = [FreeMoney EXCEPT ![p] = FreeMoney'[p]]
<1> DEFINE f == FreeMoney
           g == FreeMoney'
<1>1. f = [a \in HoldAccounts |-> f[a]] /\ g = [a \in HoldAccounts |-> g[a]]
  BY FreeLaw
<1>2. \A a \in HoldAccounts \ {p} : g[a] = f[a]
  OBVIOUS
<1> HIDE DEF f, g
<1>3. g = [f EXCEPT ![p] = g[p]]
  BY <1>1, <1>2
<1> QED
  BY <1>3 DEF f, g

\* Steps that touch no hold, or no top-up, leave that side of the pockets alone.
LEMMA PocketsStill ==
    /\ UNCHANGED <<holds, settlements>> => UNCHANGED <<PotOf, Reserved, Phase, Charged, Unpaid>>
    /\ UNCHANGED settlements => UNCHANGED <<Charged, Unpaid>>
    /\ UNCHANGED topups => UNCHANGED Reclaimed
    /\ UNCHANGED <<balance, holds>> => UNCHANGED FreeMoney
<1>1. UNCHANGED topups => UNCHANGED Reclaimed
  BY PocketTables
<1>2. UNCHANGED <<balance, holds>> => UNCHANGED FreeMoney
  BY PocketTables
<1> QED
  BY <1>1, <1>2 DEF PotOf, Reserved, Phase, Charged, Unpaid, Open

\* A hold as the pockets see it.
PotBy(row) == IF row = NoRow THEN None ELSE row.account
ReservedBy(row) == IF row.status \in {"active", "extended"} THEN row.held ELSE 0
PhaseBy(row) == IF row.status = "extended" THEN "active" ELSE row.status

\* A step that changes one hold changes one hold of the pockets, and what is free by
\* what it reserves less or more.
LEMMA OneHold ==
    ASSUME BalanceInv, TypeOK', NEW h \in Holds, NEW row \in HoldRow, holds' = [holds EXCEPT ![h] = row]
    PROVE  /\ PotOf' = [PotOf EXCEPT ![h] = row.account] /\ PotOf[h] = PotBy(holds[h])
           /\ Reserved' = [Reserved EXCEPT ![h] = ReservedBy(row)] /\ Reserved[h] = ReservedBy(holds[h])
           /\ Phase' = [Phase EXCEPT ![h] = PhaseBy(row)] /\ Phase[h] = PhaseBy(holds[h])
           /\ \A a \in HoldAccounts :
                FreeMoney'[a] = balance'[a] - (HeldIn(holds, a) - HeldBy(holds[h], a) + HeldBy(row, a))
<1>1. holds \in HoldTable
  BY InvTypes DEF BalanceInv
<1>2. row # NoRow
  BY DEF HoldRow, NoRow
<1>3. \A g \in Holds : holds'[g] = IF g = h THEN row ELSE holds[g]
  BY <1>1 DEF HoldTable
<1> DEFINE H == holds'
<1>4. /\ PotOf = [g \in Holds |-> PotBy(holds[g])] /\ PotOf' = [g \in Holds |-> PotBy(H[g])]
      /\ Reserved = [g \in Holds |-> ReservedBy(holds[g])] /\ Reserved' = [g \in Holds |-> ReservedBy(H[g])]
      /\ Phase = [g \in Holds |-> PhaseBy(holds[g])] /\ Phase' = [g \in Holds |-> PhaseBy(H[g])]
  BY DEF PotOf, PotBy, Reserved, ReservedBy, Phase, PhaseBy, Open
<1>5. \A g \in Holds \ {h} : H[g] = holds[g]
  BY <1>3
<1>6. H[h] = row /\ PotBy(row) = row.account
  BY <1>2, <1>3 DEF PotBy
<1>a. /\ PotOf' = [PotOf EXCEPT ![h] = row.account] /\ PotOf[h] = PotBy(holds[h])
      /\ Reserved' = [Reserved EXCEPT ![h] = ReservedBy(row)] /\ Reserved[h] = ReservedBy(holds[h])
      /\ Phase' = [Phase EXCEPT ![h] = PhaseBy(row)] /\ Phase[h] = PhaseBy(holds[h])
  <2> HIDE DEF H
  <2> QED
    BY <1>4, <1>5, <1>6
<1>7. ASSUME NEW a \in HoldAccounts
      PROVE  FreeMoney'[a] = balance'[a] - (HeldIn(holds, a) - HeldBy(holds[h], a) + HeldBy(row, a))
  <2>1. HeldIn([holds EXCEPT ![h] = row], a) = HeldIn(holds, a) - HeldBy(holds[h], a) + HeldBy(row, a)
    BY <1>1, HoldChange
  <2>2. HeldIn(holds', a) = HeldIn([holds EXCEPT ![h] = row], a)
    BY Zenon
  <2> QED
    BY <2>1, <2>2, FreeLaw
<1> QED
  BY <1>a, <1>7

\* Money that comes to an account nobody holds more or less of.
LEMMA PocketsDeposit ==
    ASSUME BalanceInv, TypeOK', UNCHANGED <<topups, holds, settlements>>, NEW p \in HoldAccounts, NEW n \in Nat,
           OnlyAt(p, balance[p] + n)
    PROVE  Pockets!Deposit(p)
<1>1. \A a \in HoldAccounts : HeldIn(holds', a) = HeldIn(holds, a)
  BY Zenon
<1>2. \A a \in HoldAccounts \ {p} : FreeMoney'[a] = FreeMoney[a]
  BY <1>1, FreeLaw DEF OnlyAt
<1>3. FreeMoney'[p] >= FreeMoney[p]
  <2>1. balance[p] \in Int /\ HeldIn(holds, p) \in Nat
    BY InvTypes DEF BalanceInv
  <2> QED
    BY <1>1, <2>1, FreeLaw DEF OnlyAt
<1>4. UNCHANGED <<Reclaimed, PotOf, Reserved, Phase, Charged, Unpaid>>
  BY PocketsStill
<1> QED
  BY <1>2, <1>3, <1>4, FreeOne DEF Pockets!Deposit, Pockets!Free, Pockets!hold

\* Money that leaves an account where it was free.
LEMMA PocketsSpend ==
    ASSUME BalanceInv, TypeOK', UNCHANGED <<topups, holds, settlements>>, NEW p \in HoldAccounts, NEW n \in Nat,
           OnlyAt(p, balance[p] - n), FreeMoney[p] >= n
    PROVE  Pockets!Spend(p)
<1>1. \A a \in HoldAccounts : HeldIn(holds', a) = HeldIn(holds, a)
  BY Zenon
<1>2. \A a \in HoldAccounts \ {p} : FreeMoney'[a] = FreeMoney[a]
  BY <1>1, FreeLaw DEF OnlyAt
<1>3. FreeMoney'[p] =< FreeMoney[p] /\ FreeMoney'[p] >= 0
  <2>1. balance[p] \in Int /\ HeldIn(holds, p) \in Nat
    BY InvTypes DEF BalanceInv
  <2> QED
    BY <1>1, <2>1, FreeLaw DEF OnlyAt
<1>4. UNCHANGED <<Reclaimed, PotOf, Reserved, Phase, Charged, Unpaid>>
  BY PocketsStill
<1> QED
  BY <1>2, <1>3, <1>4, FreeOne DEF Pockets!Spend, Pockets!Free, Pockets!hold


\* A payment credits the Balance of its intent's owner.
LEMMA PocketsPayment ==
    ASSUME JournalInv, TypeOK', NEW r \in Receipts, NEW i \in Intents, NEW p \in Providers, NEW paid \in PaidCents,
           SettleTopup(r, i, p, paid)
    PROVE  \E q \in HoldAccounts : Pockets!Deposit(q)
<1> DEFINE old == intents[i]
           nano == old.amount * NanoPerCent
           c == UsdCredit(old.owner)
           row == [status |-> "posted", intent |-> i, owner |-> old.owner, provider |-> p, paid |-> paid,
                   nano |-> nano, refunded |-> 0, clawed |-> 0, debt |-> 0]
<1>1. old \in IntentRow /\ nano \in Nat /\ OnlyAt(c, balance[c] + nano)
  BY SettleTopupBooks
<1>2. c \in HoldAccounts /\ BalanceInv
  BY <1>1, AccountLaw DEF IntentRow, JournalInv
<1>3. topups' = [topups EXCEPT ![r] = row] /\ topups[r] = NoRow /\ UNCHANGED <<holds, settlements>>
  BY DEF SettleTopup
<1>4. row \in TopupRow
  <2>1. paid \in PaidCents /\ old.owner \in Owners
    BY <1>1 DEF IntentRow
  <2> QED
    BY <1>1, <2>1 DEF TopupRow
<1>5. \A a : ClawedBy(row, a) = 0 /\ ClawedBy(topups[r], a) = 0
  BY <1>3 DEF ClawedBy
<1> HIDE DEF row, c, nano, old
<1>6. \A a \in HoldAccounts : ClawedIn(topups', a) = ClawedIn(topups, a)
  <2> SUFFICES ASSUME NEW a \in HoldAccounts PROVE ClawedIn(topups', a) = ClawedIn(topups, a)
    OBVIOUS
  <2>1. topups \in TopupTable /\ ClawedIn(topups, a) \in Nat
    BY <1>2, InvTypes DEF BalanceInv
  <2>2. ClawedIn([topups EXCEPT ![r] = row], a) = ClawedIn(topups, a) - ClawedBy(topups[r], a) + ClawedBy(row, a)
    BY <1>4, <2>1, TopupChange
  <2>3. ClawedIn(topups', a) = ClawedIn([topups EXCEPT ![r] = row], a)
    BY <1>3, Zenon
  <2> QED
    BY <1>5, <2>1, <2>2, <2>3
<1>7. Reclaimed' = Reclaimed
  BY <1>6, PocketTables
<1>8. \A a \in HoldAccounts : HeldIn(holds', a) = HeldIn(holds, a)
  BY <1>3, Zenon
<1>9. \A a \in HoldAccounts \ {c} : FreeMoney'[a] = FreeMoney[a]
  BY <1>1, <1>2, <1>8, FreeLaw DEF OnlyAt
<1>10. FreeMoney'[c] >= FreeMoney[c]
  <2>1. balance[c] \in Int /\ HeldIn(holds, c) \in Nat
    BY <1>2, InvTypes DEF BalanceInv
  <2> QED
    BY <1>1, <1>2, <1>8, <2>1, FreeLaw DEF OnlyAt
<1>11. UNCHANGED <<PotOf, Reserved, Phase, Charged, Unpaid>>
  BY <1>3, PocketsStill
<1>12. Pockets!Deposit(c)
  BY <1>2, <1>7, <1>9, <1>10, <1>11, FreeOne DEF Pockets!Deposit, Pockets!Free, Pockets!hold
<1> QED
  BY <1>2, <1>12

\* A refund of a top-up takes from its owner's Balance what it records as taken.
LEMMA PocketsRefund ==
    ASSUME JournalInv, TypeOK', NEW r \in Receipts, NEW mode \in {"cumulative", "cents", "rest"}, NEW n \in PaidCents,
           ReverseTopup(r, mode, n)
    PROVE  \E q \in HoldAccounts : Pockets!Reclaim(q)
<1> DEFINE t == topups[r]
           c == UsdCredit(t.owner)
           cents == CentsToReverse(t, mode, n)
           clawed == AtLeast(0, AtMost(balance[c], Revoked(t, cents)))
           debt == Debt(Revoked(t, cents), clawed)
           row == [t EXCEPT !.refunded = @ + cents, !.clawed = @ + clawed, !.debt = @ + debt]
<1>1. clawed \in Nat /\ OnlyAt(c, balance[c] - clawed)
  BY ReverseTopupBooks
<1>2. t \in TopupRow /\ t # NoRow /\ c \in HoldAccounts /\ BalanceInv
  <2>1. t \in TopupRow /\ t # NoRow /\ BalanceInv
    BY DEF JournalInv, BalanceInv, TypeOK, ReverseTopup
  <2>2. t.owner \in Owners
    BY <2>1 DEF TopupRow
  <2> QED
    BY <2>1, <2>2, AccountLaw
<1>3. topups' = [topups EXCEPT ![r] = row] /\ UNCHANGED <<holds, settlements>>
  BY DEF ReverseTopup
<1>4. row \in TopupRow /\ row.clawed = t.clawed + clawed /\ row.owner = t.owner /\ t.clawed \in Nat
  <2>1. topups'[r] = row
    BY <1>3, InvTypes, <1>2 DEF BalanceInv, TopupTable
  <2>2. row.status = "posted" /\ row.clawed = t.clawed + clawed /\ row.owner = t.owner /\ t.clawed \in Nat
    BY <1>2 DEF TopupRow
  <2>3. row # NoRow
    BY <2>2 DEF NoRow
  <2>4. topups'[r] \in TopupRow
    BY <2>1, <2>3 DEF TypeOK
  <2> QED
    BY <2>1, <2>2, <2>4
<1>5. \A a : /\ ClawedBy(row, a) = IF a = c THEN t.clawed + clawed ELSE 0
             /\ ClawedBy(t, a) = IF a = c THEN t.clawed ELSE 0
  <2>1. row # NoRow
    BY <1>4 DEF TopupRow, NoRow
  <2> QED
    BY <1>2, <1>4, <2>1 DEF ClawedBy
<1> HIDE DEF row, clawed, c, cents, debt
<1>6. \A a \in HoldAccounts :
        ClawedIn(topups', a) = IF a = c THEN ClawedIn(topups, a) + clawed ELSE ClawedIn(topups, a)
  <2> SUFFICES ASSUME NEW a \in HoldAccounts
               PROVE  ClawedIn(topups', a) = IF a = c THEN ClawedIn(topups, a) + clawed ELSE ClawedIn(topups, a)
    OBVIOUS
  <2>1. topups \in TopupTable /\ ClawedIn(topups, a) \in Nat
    BY <1>2, InvTypes DEF BalanceInv
  <2>2. ClawedIn([topups EXCEPT ![r] = row], a) = ClawedIn(topups, a) - ClawedBy(topups[r], a) + ClawedBy(row, a)
    BY <1>4, <2>1, TopupChange
  <2>3. ClawedIn(topups', a) = ClawedIn([topups EXCEPT ![r] = row], a)
    BY <1>3, Zenon
  <2> HIDE DEF t
  <2> QED
    BY <1>1, <1>4, <1>5, <2>1, <2>2, <2>3 DEF t
<1> HIDE DEF t
<1>7. \A a \in HoldAccounts : HeldIn(holds', a) = HeldIn(holds, a)
  BY <1>3, Zenon
<1>8. \A a \in HoldAccounts \ {c} : FreeMoney'[a] = FreeMoney[a]
  BY <1>1, <1>2, <1>7, FreeLaw DEF OnlyAt
<1>9. FreeMoney'[c] = FreeMoney[c] - clawed
  <2>1. balance[c] \in Int /\ HeldIn(holds, c) \in Nat
    BY <1>2, InvTypes DEF BalanceInv
  <2> QED
    BY <1>1, <1>2, <1>7, <2>1, FreeLaw DEF OnlyAt
<1>10. FreeMoney' = [FreeMoney EXCEPT ![c] = FreeMoney'[c]]
  BY <1>2, <1>8, FreeOne
<1>11. Reclaimed' = [Reclaimed EXCEPT ![c] = @ + FreeMoney[c] - FreeMoney'[c]]
  <2> DEFINE R == Reclaimed
             Q == Reclaimed'
             f == FreeMoney[c]
             g == FreeMoney'[c]
  <2>1. /\ R = [a \in HoldAccounts |-> R[a]] /\ Q = [a \in HoldAccounts |-> Q[a]]
        /\ \A a \in HoldAccounts : R[a] = ClawedIn(topups, a) /\ Q[a] = ClawedIn(topups', a) /\ R[a] \in Int
        /\ f \in Int /\ g \in Int /\ g = f - clawed
    BY <1>2, <1>9, FreeLaw
  <2>2. \A a \in HoldAccounts : Q[a] = IF a = c THEN R[a] + clawed ELSE R[a]
    BY <1>6, <2>1
  <2> HIDE DEF R, Q, f, g
  <2>3. R[c] + clawed = R[c] + f - g
    BY <1>1, <1>2, <2>1
  <2>4. Q = [R EXCEPT ![c] = R[c] + f - g]
    BY <1>2, <2>1, <2>2, <2>3
  <2> QED
    BY <2>4 DEF R, Q, f, g
<1>12. FreeMoney'[c] =< FreeMoney[c]
  BY <1>1, <1>2, <1>9, FreeLaw
<1>13. UNCHANGED <<PotOf, Reserved, Phase, Charged, Unpaid>>
  BY <1>3, PocketsStill
<1>14. Pockets!Reclaim(c)
  BY <1>10, <1>11, <1>12, <1>13 DEF Pockets!Reclaim, Pockets!Free, Pockets!hold
<1> QED
  BY <1>2, <1>14

\* Steps the pockets do not see.
LEMMA PocketsIdle ==
    ASSUME UNCHANGED <<balance, topups, holds, settlements>>
    PROVE  UNCHANGED Pockets!vars
  BY PocketsStill DEF Pockets!vars

\* Sandbox credit is a deposit.
LEMMA PocketsGrant ==
    ASSUME BalanceInv, TypeOK', NEW o \in Owners, NEW n \in Amounts, SandboxGrant(o, n)
    PROVE  \E q \in HoldAccounts : Pockets!Deposit(q)
<1>1. /\ SandboxIssuer \in Accounts \ HoldAccounts /\ Sandbox(o) \in HoldAccounts /\ Sandbox(o) \in Accounts
      /\ SandboxIssuer # Sandbox(o) /\ n \in Nat
  BY AccountLaw, BalanceAssumption
<1>2. balance' = Moved(balance, SandboxIssuer, Sandbox(o), n) /\ UNCHANGED <<topups, holds, settlements>>
  BY DEF SandboxGrant
<1> HIDE DEF SandboxIssuer, Sandbox
<1>3. OnlyAt(Sandbox(o), balance[Sandbox(o)] + n)
  BY <1>1, <1>2, MovedAt
<1>4. Pockets!Deposit(Sandbox(o))
  BY <1>1, <1>2, <1>3, PocketsDeposit
<1> QED
  BY <1>1, <1>4

\* Vibes are bought with free money.
LEMMA PocketsPurchase ==
    ASSUME BalanceInv, TypeOK', NEW u \in People, NEW vibes \in VibesAmounts, BuyVibes(u, vibes)
    PROVE  \E q \in HoldAccounts : Pockets!Spend(q)
<1> DEFINE a == UsdCredit(u)
           n == VibesPrice(vibes)
<1>1. n \in Nat
  <2>1. vibes * 100 * NanoPerCent \in Nat /\ BitsPerUsd \in Nat \ {0}
    BY BalanceAssumption, RatesAssumption
  <2>2. vibes * 100 * NanoPerCent + BitsPerUsd - 1 \in Nat
    BY <2>1
  <2>3. \A m \in Nat, d \in Nat \ {0} : m \div d \in Nat
    OBVIOUS
  <2> QED
    BY <2>1, <2>2, <2>3, Zenon DEF VibesPrice
<1>2. /\ a \in HoldAccounts /\ a \in Accounts /\ UsdRevenue \in Accounts \ HoldAccounts
      /\ {FxBits, VibesCredit(u)} \subseteq Accounts \ HoldAccounts
  BY AccountLaw DEF Owners
<1>3. /\ balance' = Moved(Moved(balance, a, UsdRevenue, n), FxBits, VibesCredit(u), vibes)
      /\ Available(a) >= n /\ UNCHANGED <<topups, holds, settlements>>
  BY DEF BuyVibes, Covers
<1>4. balance \in [Accounts -> Int] /\ HoldAccounts \subseteq Accounts
  BY InvTypes, AccountLaw DEF BalanceInv
<1> HIDE DEF a, n
<1>5. OnlyAt(a, balance[a] - n)
  BY <1>1, <1>2, <1>3, <1>4 DEF OnlyAt, Moved
<1>6. FreeMoney[a] >= n
  BY <1>2, <1>3 DEF FreeMoney
<1>7. Pockets!Spend(a)
  BY <1>1, <1>2, <1>3, <1>5, <1>6, PocketsSpend
<1> QED
  BY <1>2, <1>7

\* A transfer moves free money.
LEMMA PocketsTransfer ==
    ASSUME BalanceInv, TypeOK', NEW u \in People, NEW p \in Projects, NEW n \in Amounts, Transfer(u, p, n)
    PROVE  \E x \in HoldAccounts : \E y \in HoldAccounts : Pockets!Move(x, y)
<1> DEFINE x == UsdCredit(u)
           y == UsdCredit(p)
           f == FreeMoney
           g == FreeMoney'
<1>1. n \in Nat /\ x \in HoldAccounts /\ y \in HoldAccounts /\ x # y
  BY AccountLaw, BalanceAssumption DEF Owners, UsdCredit
<1>2. balance' = Moved(balance, x, y, n) /\ Available(x) >= n /\ UNCHANGED <<topups, holds, settlements>>
  BY DEF Transfer, Covers
<1>3. balance \in [Accounts -> Int] /\ HoldAccounts \subseteq Accounts
  BY InvTypes, AccountLaw DEF BalanceInv
<1>4. f[x] >= n
  BY <1>1, <1>2 DEF FreeMoney
<1>5. \A a \in HoldAccounts : HeldIn(holds', a) = HeldIn(holds, a)
  BY <1>2, Zenon
<1> HIDE DEF x, y
<1>6. \A a \in HoldAccounts :
        balance'[a] = IF a = x THEN balance[a] - n ELSE IF a = y THEN balance[a] + n ELSE balance[a]
  BY <1>1, <1>2, <1>3 DEF Moved
<1>7. /\ f = [a \in HoldAccounts |-> f[a]] /\ g = [a \in HoldAccounts |-> g[a]]
      /\ \A a \in HoldAccounts : /\ f[a] = balance[a] - HeldIn(holds, a) /\ g[a] = balance'[a] - HeldIn(holds', a)
                                 /\ f[a] \in Int /\ balance[a] \in Int /\ HeldIn(holds, a) \in Int
  BY FreeLaw, InvTypes DEF BalanceInv
<1> HIDE DEF f, g
<1>8. \A a \in HoldAccounts : g[a] = IF a = x THEN f[a] - n ELSE IF a = y THEN f[a] + n ELSE f[a]
  BY <1>1, <1>5, <1>6, <1>7
<1>9. g = [f EXCEPT ![x] = g[x], ![y] = g[y]]
  BY <1>1, <1>7, <1>8
<1>10. g[x] =< f[x] /\ g[x] >= 0 /\ g[x] + g[y] = f[x] + f[y]
  BY <1>1, <1>4, <1>7, <1>8
<1>11. UNCHANGED <<Reclaimed, PotOf, Reserved, Phase, Charged, Unpaid>>
  BY <1>2, PocketsStill
<1>12. Pockets!Move(x, y)
  BY <1>1, <1>9, <1>10, <1>11 DEF Pockets!Move, Pockets!hold, f, g
<1> QED
  BY <1>1, <1>12

\* A new hold reserves free money.
LEMMA PocketsReserve ==
    ASSUME BalanceInv, TypeOK', NEW h \in Holds, NEW a \in HoldAccounts, NEW max \in Amounts, CreateHold(h, a, max)
    PROVE  Pockets!Reserve(h, a)
<1> DEFINE row == [status |-> "active", account |-> a, held |-> max, lease |-> now + Lease]
<1>1. row \in HoldRow /\ max \in Nat
  BY BalanceAssumption DEF BalanceInv, TypeOK, HoldRow
<1>2. holds' = [holds EXCEPT ![h] = row] /\ holds[h] = NoRow /\ UNCHANGED <<balance, topups, settlements>>
  BY DEF CreateHold
<1>3. Available(a) >= max
  BY DEF CreateHold, Covers
<1>4. /\ ReservedBy(row) = max /\ PhaseBy(row) = "active" /\ row.account = a /\ PhaseBy(holds[h]) = "none"
      /\ \A b : HeldBy(holds[h], b) = 0 /\ HeldBy(row, b) = IF b = a THEN max ELSE 0
  BY <1>2 DEF ReservedBy, PhaseBy, HeldBy, NoRow
<1> HIDE DEF row
<1>5. /\ PotOf' = [PotOf EXCEPT ![h] = a]
      /\ Reserved' = [Reserved EXCEPT ![h] = max] /\ Reserved'[h] = ReservedBy(holds'[h])
      /\ Phase' = [Phase EXCEPT ![h] = "active"] /\ Phase[h] = "none"
      /\ \A b \in HoldAccounts :
             FreeMoney'[b] = balance'[b] - (HeldIn(holds, b) - HeldBy(holds[h], b) + HeldBy(row, b))
  <2>1. Reserved'[h] = ReservedBy(holds'[h])
    BY DEF Reserved, ReservedBy, Open
  <2>2. /\ PotOf' = [PotOf EXCEPT ![h] = row.account]
        /\ Reserved' = [Reserved EXCEPT ![h] = ReservedBy(row)]
        /\ Phase' = [Phase EXCEPT ![h] = PhaseBy(row)] /\ Phase[h] = PhaseBy(holds[h])
        /\ \A b \in HoldAccounts :
             FreeMoney'[b] = balance'[b] - (HeldIn(holds, b) - HeldBy(holds[h], b) + HeldBy(row, b))
    BY <1>1, <1>2, OneHold
  <2> QED
    BY <1>4, <2>1, <2>2, Zenon
<1>6. \A b \in HoldAccounts :
        /\ FreeMoney[b] = balance[b] - HeldIn(holds, b) /\ FreeMoney[b] \in Int
        /\ balance[b] \in Int /\ HeldIn(holds, b) \in Int
  BY FreeLaw, InvTypes DEF BalanceInv
<1>7. \A b \in HoldAccounts : FreeMoney'[b] = IF b = a THEN FreeMoney[b] - max ELSE FreeMoney[b]
  BY <1>1, <1>2, <1>4, <1>5, <1>6
<1>8. FreeMoney' = [FreeMoney EXCEPT ![a] = FreeMoney'[a]]
  BY <1>7, FreeOne
<1>9. FreeMoney'[a] >= 0 /\ max = FreeMoney[a] - FreeMoney'[a]
  BY <1>1, <1>3, <1>6, <1>7 DEF FreeMoney
<1>10. Reserved' = [Reserved EXCEPT ![h] = FreeMoney[a] - FreeMoney'[a]]
  BY <1>5, <1>9
<1>11. Reserved'[h] = max
  <2>1. holds'[h] = row
    BY <1>2, InvTypes DEF BalanceInv, HoldTable
  <2> QED
    BY <1>4, <1>5, <2>1
<1>12. UNCHANGED <<Reclaimed, Charged, Unpaid>>
  BY <1>2, PocketsStill
<1> QED
  BY <1>1, <1>5, <1>8, <1>9, <1>10, <1>11, <1>12 DEF Pockets!Reserve, Pockets!Free

\* An extension reserves more of it.
LEMMA PocketsGrow ==
    ASSUME BalanceInv, TypeOK', NEW h \in Holds, NEW add \in Amounts, ExtendHold(h, add)
    PROVE  Pockets!Grow(h)
<1> DEFINE old == holds[h]
           a == old.account
           row == [old EXCEPT !.status = "extended", !.held = @ + add,
                              !.lease = AtLeast(@, now + ExtendLease)]
<1>1. old \in HoldRow /\ Open(h) /\ add \in Nat /\ a \in HoldAccounts
  BY OpenIsRow, BalanceAssumption DEF ExtendHold
<1>2. row \in HoldRow /\ row.account = a /\ row.held = old.held + add /\ row.status = "extended" /\ old.held \in Nat
  <2>1. now + ExtendLease \in Nat /\ old.lease \in Nat /\ old.held + add \in Nat
    BY <1>1, BalanceAssumption DEF BalanceInv, TypeOK, HoldRow
  <2>2. AtLeast(old.lease, now + ExtendLease) \in Nat
    BY <2>1 DEF AtLeast
  <2> QED
    BY <1>1, <2>1, <2>2 DEF HoldRow
<1>3. holds' = [holds EXCEPT ![h] = row] /\ UNCHANGED <<balance, topups, settlements>> /\ Available(a) >= add
  BY DEF ExtendHold, Covers
<1> HIDE DEF row
<1>4. /\ ReservedBy(row) = old.held + add /\ PhaseBy(row) = "active"
      /\ PotBy(old) = a /\ ReservedBy(old) = old.held /\ PhaseBy(old) = "active"
      /\ \A b : /\ HeldBy(old, b) = IF b = a THEN old.held ELSE 0
                /\ HeldBy(row, b) = IF b = a THEN old.held + add ELSE 0
  BY <1>1, <1>2 DEF ReservedBy, PhaseBy, PotBy, HeldBy, Open, NoRow
<1>5. holds'[h] = row
  BY <1>3, InvTypes DEF BalanceInv, HoldTable
<1>6. Reserved'[h] = ReservedBy(holds'[h])
  BY DEF Reserved, ReservedBy, Open
<1> HIDE DEF old, a
<1>7. /\ PotOf' = [PotOf EXCEPT ![h] = a] /\ PotOf[h] = a
      /\ Reserved' = [Reserved EXCEPT ![h] = old.held + add] /\ Reserved[h] = old.held
      /\ Phase' = [Phase EXCEPT ![h] = "active"] /\ Phase[h] = "active"
      /\ \A b \in HoldAccounts : FreeMoney'[b] = balance'[b] - (HeldIn(holds, b) - HeldBy(old, b) + HeldBy(row, b))
  <2>1. /\ PotOf' = [PotOf EXCEPT ![h] = row.account] /\ PotOf[h] = PotBy(old)
        /\ Reserved' = [Reserved EXCEPT ![h] = ReservedBy(row)] /\ Reserved[h] = ReservedBy(old)
        /\ Phase' = [Phase EXCEPT ![h] = PhaseBy(row)] /\ Phase[h] = PhaseBy(old)
        /\ \A b \in HoldAccounts : FreeMoney'[b] = balance'[b] - (HeldIn(holds, b) - HeldBy(old, b) + HeldBy(row, b))
    BY <1>2, <1>3, OneHold DEF old
  <2> QED
    BY <1>2, <1>4, <2>1, Zenon
<1>8. \A b \in HoldAccounts :
        /\ FreeMoney[b] = balance[b] - HeldIn(holds, b) /\ FreeMoney[b] \in Int
        /\ balance[b] \in Int /\ HeldIn(holds, b) \in Int
  BY FreeLaw, InvTypes DEF BalanceInv
<1>9. \A b \in HoldAccounts : FreeMoney'[b] = IF b = a THEN FreeMoney[b] - add ELSE FreeMoney[b]
  BY <1>1, <1>2, <1>3, <1>4, <1>7, <1>8
<1>10. FreeMoney' = [FreeMoney EXCEPT ![a] = FreeMoney'[a]]
  BY <1>1, <1>9, FreeOne
<1>11. FreeMoney'[a] >= 0 /\ old.held + add = Reserved[h] + FreeMoney[a] - FreeMoney'[a]
  BY <1>1, <1>2, <1>3, <1>7, <1>8, <1>9 DEF FreeMoney
<1>12. Reserved'[h] >= Reserved[h]
  BY <1>1, <1>2, <1>4, <1>5, <1>6, <1>7
<1>13. UNCHANGED <<Reclaimed, PotOf, Phase, Charged, Unpaid>>
  <2>1. UNCHANGED <<Reclaimed, Charged, Unpaid>>
    BY <1>3, PocketsStill
  <2>2. PotOf = [g \in Holds |-> PotOf[g]] /\ Phase = [g \in Holds |-> Phase[g]]
    BY DEF PotOf, Phase
  <2>3. PotOf' = PotOf /\ Phase' = Phase
    BY <1>7, <2>2
  <2> QED
    BY <2>1, <2>3
<1>14. Reserved' = [Reserved EXCEPT ![h] = @ + FreeMoney[a] - FreeMoney'[a]]
  BY <1>7, <1>11
<1> QED
  BY <1>7, <1>10, <1>11, <1>12, <1>13, <1>14 DEF Pockets!Grow, Pockets!Free

\* A settlement as the pockets see it.
ChargedBy(row) == IF row = NoRow THEN 0 ELSE row.charge
UnpaidBy(row) == IF row = NoRow THEN 0 ELSE row.shortfall

\* Two settlements of one hold are the same.
LEMMA OneSettlement ==
    ASSUME BalanceInv, NEW h \in Holds, NEW row \in SettlementRow, settlements' = [settlements EXCEPT ![h] = row]
    PROVE  /\ Charged' = [Charged EXCEPT ![h] = row.charge] /\ Charged'[h] = row.charge
           /\ Unpaid' = [Unpaid EXCEPT ![h] = row.shortfall] /\ Unpaid'[h] = row.shortfall
<1>1. settlements \in [Holds -> SettlementRow \cup {NoRow}] /\ row # NoRow
  BY DEF BalanceInv, TypeOK, SettlementRow, NoRow
<1> DEFINE S == settlements'
<1>2. \A g \in Holds : S[g] = IF g = h THEN row ELSE settlements[g]
  BY <1>1
<1>3. /\ Charged = [g \in Holds |-> ChargedBy(settlements[g])] /\ Charged' = [g \in Holds |-> ChargedBy(S[g])]
      /\ Unpaid = [g \in Holds |-> UnpaidBy(settlements[g])] /\ Unpaid' = [g \in Holds |-> UnpaidBy(S[g])]
  BY DEF Charged, Unpaid, ChargedBy, UnpaidBy
<1>4. ChargedBy(row) = row.charge /\ UnpaidBy(row) = row.shortfall
  BY <1>1 DEF ChargedBy, UnpaidBy
<1>5. S[h] = row /\ \A g \in Holds \ {h} : S[g] = settlements[g]
  BY <1>2
<1> HIDE DEF S
<1>6. Charged' = [Charged EXCEPT ![h] = row.charge] /\ Charged'[h] = row.charge
  BY <1>3, <1>4, <1>5
<1>7. Unpaid' = [Unpaid EXCEPT ![h] = row.shortfall] /\ Unpaid'[h] = row.shortfall
  BY <1>3, <1>4, <1>5
<1> QED
  BY <1>6, <1>7

\* A hold of account a ends, and n of its account's money is gone.
Ends(h, a, end, n) ==
    /\ PotOf[h] = a /\ Reserved[h] = holds[h].held /\ Reserved[h] \in Nat
    /\ Phase[h] = "active" /\ Phase' = [Phase EXCEPT ![h] = end]
    /\ Reserved' = [Reserved EXCEPT ![h] = 0]
    /\ FreeMoney' = [FreeMoney EXCEPT ![a] = FreeMoney'[a]]
    /\ FreeMoney'[a] = FreeMoney[a] + Reserved[h] - n /\ FreeMoney[a] \in Int
    /\ UNCHANGED <<Reclaimed, PotOf>>

\* A hold's row once it ended.
Shut(row, end) == [row EXCEPT !.status = end, !.held = 0]

\* Ending a hold as the pockets see it.
LEMMA PocketsEnd ==
    ASSUME BalanceInv, TypeOK', NEW h \in Holds, NEW end \in {"settled", "released", "expired"}, Open(h),
           NEW n \in Int, holds' = [holds EXCEPT ![h] = Shut(holds[h], end)], UNCHANGED topups,
           OnlyAt(holds[h].account, balance[holds[h].account] - n)
    PROVE  Ends(h, holds[h].account, end, n)
<1> DEFINE old == holds[h]
           a == old.account
           row == [old EXCEPT !.status = end, !.held = 0]
<1>1. old \in HoldRow /\ a \in HoldAccounts /\ old.held \in Nat
  BY OpenIsRow DEF HoldRow
<1>2. row \in HoldRow /\ row.held = 0 /\ row.status = end /\ row.account = a
  BY <1>1 DEF HoldRow
<1>3. holds' = [holds EXCEPT ![h] = row] /\ UNCHANGED topups /\ OnlyAt(a, balance[a] - n)
  BY DEF Shut
<1> HIDE DEF row
<1>4. /\ ReservedBy(row) = 0 /\ PhaseBy(row) = end
      /\ PotBy(old) = a /\ ReservedBy(old) = old.held /\ PhaseBy(old) = "active"
      /\ \A b : HeldBy(old, b) = (IF b = a THEN old.held ELSE 0) /\ HeldBy(row, b) = 0
  BY <1>1, <1>2 DEF ReservedBy, PhaseBy, PotBy, HeldBy, Open, NoRow
<1> HIDE DEF old, a
<1>5. /\ PotOf' = [PotOf EXCEPT ![h] = a] /\ PotOf[h] = a
      /\ Reserved' = [Reserved EXCEPT ![h] = 0] /\ Reserved[h] = old.held
      /\ Phase' = [Phase EXCEPT ![h] = end] /\ Phase[h] = "active"
      /\ \A b \in HoldAccounts : FreeMoney'[b] = balance'[b] - (HeldIn(holds, b) - HeldBy(old, b) + HeldBy(row, b))
  <2>1. /\ PotOf' = [PotOf EXCEPT ![h] = row.account] /\ PotOf[h] = PotBy(old)
        /\ Reserved' = [Reserved EXCEPT ![h] = ReservedBy(row)] /\ Reserved[h] = ReservedBy(old)
        /\ Phase' = [Phase EXCEPT ![h] = PhaseBy(row)] /\ Phase[h] = PhaseBy(old)
        /\ \A b \in HoldAccounts : FreeMoney'[b] = balance'[b] - (HeldIn(holds, b) - HeldBy(old, b) + HeldBy(row, b))
    BY <1>2, <1>3, OneHold DEF old
  <2> QED
    BY <1>2, <1>4, <2>1, Zenon
<1>6. \A b \in HoldAccounts :
        /\ FreeMoney[b] = balance[b] - HeldIn(holds, b) /\ FreeMoney[b] \in Int
        /\ balance[b] \in Int /\ HeldIn(holds, b) \in Int
  BY FreeLaw, InvTypes DEF BalanceInv
<1>7. \A b \in HoldAccounts : FreeMoney'[b] = IF b = a THEN FreeMoney[b] + old.held - n ELSE FreeMoney[b]
  BY <1>1, <1>3, <1>4, <1>5, <1>6 DEF OnlyAt
<1>8. FreeMoney' = [FreeMoney EXCEPT ![a] = FreeMoney'[a]]
  BY <1>1, <1>7, FreeOne
<1>9. PotOf' = PotOf
  <2>1. PotOf = [g \in Holds |-> PotOf[g]]
    BY DEF PotOf
  <2> QED
    BY <1>5, <2>1
<1>10. Reclaimed' = Reclaimed
  BY <1>3, PocketsStill
<1> QED
  BY <1>1, <1>5, <1>6, <1>7, <1>8, <1>9, <1>10 DEF old, a, Ends

\* A hold is charged out of its reserve, then out of what is free beside it, and
\* leaves usage unpaid only when that is used up.
LEMMA PocketsCharge ==
    ASSUME BalanceInv, TypeOK', NEW h \in Holds, NEW charge \in Charges, SettleHold(h, charge)
    PROVE  Pockets!Charge(h)
<1> DEFINE held == holds[h].held
           a == holds[h].account
           into == IF a[1] = "usd_credit" THEN UsdRevenue ELSE SandboxIssuer
           n == Collected(h, charge)
           row == [status |-> "posted", charge |-> n, released |-> AtLeast(0, held - n), shortfall |-> charge - n]
<1>1. Open(h) /\ charge \in Nat /\ a \in HoldAccounts /\ held \in Nat
  BY OpenIsRow, BalanceAssumption DEF SettleHold, HoldRow
<1>2. /\ holds' = [holds EXCEPT ![h].status = "settled", ![h].held = 0] /\ UNCHANGED topups
      /\ balance' = Moved(balance, a, into, n) /\ settlements' = [settlements EXCEPT ![h] = row] /\ n >= 0
  BY DEF SettleHold
<1>3. /\ n \in Nat
      /\ \/ charge =< held /\ n = charge
         \/ charge > held /\ n = charge /\ n =< held + FreeMoney[a]
         \/ charge > n /\ n = held + FreeMoney[a]
  <2>1. Available(a) = FreeMoney[a] /\ Available(a) \in Int
    BY <1>1, InvTypes DEF BalanceInv, FreeMoney
  <2> QED
    BY <1>1, <1>2, <2>1 DEF Collected, Room, AtMost
<1> HIDE DEF n
<1>4. row \in SettlementRow /\ row.charge = n /\ row.shortfall = charge - n
  <2>1. charge - n \in Nat /\ AtLeast(0, held - n) \in Nat
    <3>1. FreeMoney[a] \in Int
      BY <1>1, FreeLaw
    <3> QED
      BY <1>1, <1>3, <3>1 DEF AtLeast
  <2> QED
    BY <1>3, <2>1 DEF SettlementRow
<1> HIDE DEF row
<1>5. OnlyAt(a, balance[a] - n)
  <2>1. into \in Accounts \ HoldAccounts /\ a \in Accounts
    BY <1>1, AccountLaw
  <2> HIDE DEF into, a
  <2> QED
    BY <1>1, <1>2, <1>3, <2>1, MovedAt
<1>6. Ends(h, a, "settled", n)
  <2>1. holds' = [holds EXCEPT ![h] = Shut(holds[h], "settled")]
    BY <1>2 DEF Shut
  <2>2. "settled" \in {"settled", "released", "expired"} /\ n \in Int
    BY <1>3
  <2> QED
    BY <1>1, <1>2, <1>5, <2>1, <2>2, PocketsEnd, Zenon
<1>7. /\ Charged' = [Charged EXCEPT ![h] = n] /\ Charged'[h] = n
      /\ Unpaid' = [Unpaid EXCEPT ![h] = charge - n] /\ Unpaid'[h] = charge - n
  <2>1. /\ Charged' = [Charged EXCEPT ![h] = row.charge] /\ Charged'[h] = row.charge
        /\ Unpaid' = [Unpaid EXCEPT ![h] = row.shortfall] /\ Unpaid'[h] = row.shortfall
    BY <1>2, <1>4, OneSettlement
  <2> QED
    BY <1>4, <2>1, Zenon
<1> HIDE DEF a, held, into
<1>8. n = FreeMoney[a] + Reserved[h] - FreeMoney'[a]
  BY <1>3, <1>6 DEF Ends
<1>9. FreeMoney'[a] >= FreeMoney[a] \/ FreeMoney'[a] >= 0
  BY <1>1, <1>3, <1>6 DEF Ends, held
<1>10. charge - n > 0 => FreeMoney'[a] = 0
  BY <1>1, <1>3, <1>6 DEF Ends, held
<1>11. Charged' = [Charged EXCEPT ![h] = FreeMoney[a] + Reserved[h] - FreeMoney'[a]]
  BY <1>7, <1>8, Zenon
<1>12. Unpaid' = [Unpaid EXCEPT ![h] = Unpaid'[h]] /\ (Unpaid'[h] > 0 => FreeMoney'[a] = 0)
  BY <1>7, <1>10
<1>13. Charged'[h] >= 0
  BY <1>3, <1>7
<1> QED
  BY <1>6, <1>9, <1>11, <1>12, <1>13, Zenon DEF Pockets!Charge, Pockets!Free, Ends

\* A hold that ends without a charge gives all of it back.
LEMMA PocketsGiveBack ==
    ASSUME BalanceInv, TypeOK', NEW h \in Holds, NEW end \in {"released", "expired"}, Open(h),
           holds' = [holds EXCEPT ![h].status = end, ![h].held = 0], UNCHANGED <<balance, topups, settlements>>
    PROVE  Pockets!GiveBack(h)
<1> DEFINE a == holds[h].account
<1>1. a \in HoldAccounts /\ OnlyAt(a, balance[a] - 0)
  BY OpenIsRow, InvTypes DEF BalanceInv, OnlyAt
<1>2. Ends(h, a, end, 0)
  <2>1. holds' = [holds EXCEPT ![h] = Shut(holds[h], end)]
    BY DEF Shut
  <2>2. end \in {"settled", "released", "expired"} /\ 0 \in Int /\ UNCHANGED topups
    OBVIOUS
  <2> QED
    BY <1>1, <2>1, <2>2, PocketsEnd, Zenon
<1> HIDE DEF a
<1>3. FreeMoney'[a] = FreeMoney[a] + Reserved[h]
  BY <1>2 DEF Ends
<1>4. FreeMoney' = [FreeMoney EXCEPT ![a] = FreeMoney[a] + Reserved[h]]
  BY <1>2, <1>3, Zenon DEF Ends
<1>5. UNCHANGED <<Charged, Unpaid>>
  BY PocketsStill
<1> QED
  BY <1>2, <1>4, <1>5, Zenon DEF Pockets!GiveBack, Pockets!Free, Ends

\* The Balance starts as empty pockets,
LEMMA PocketsInit == Init => Pockets!Init
<1> SUFFICES ASSUME Init PROVE Pockets!Init
  OBVIOUS
<1>1. /\ PotOf = [h \in Holds |-> None] /\ Reserved = [h \in Holds |-> 0] /\ Phase = [h \in Holds |-> "none"]
      /\ Charged = [h \in Holds |-> 0] /\ Unpaid = [h \in Holds |-> 0]
  BY DEF Init, PotOf, Reserved, Phase, Charged, Unpaid, Open, NoRow
<1>2. \A a : OpenIn(holds, a) = {} /\ CreditedIn(topups, a) = {}
  BY DEF Init, OpenIn, CreditedIn, NoRow
<1>3. \A a \in HoldAccounts : balance[a] = 0 /\ HeldIn(holds, a) = 0 /\ ClawedIn(topups, a) = 0
  <2>1. \A a \in HoldAccounts : balance[a] = 0
    BY AccountLaw DEF Init
  <2> QED
    BY <1>2, <2>1, SumEmpty DEF HeldIn, ClawedIn
<1>4. FreeMoney = [a \in HoldAccounts |-> 0] /\ Reclaimed = [a \in HoldAccounts |-> 0]
  BY <1>3, PocketTables
<1> QED
  BY <1>1, <1>4 DEF Pockets!Init

\* and every step of it is a step of the pockets, or one they do not see.
LEMMA PocketsNext == JournalInv /\ [Next]_vars => [Pockets!Next]_(Pockets!vars)
<1> SUFFICES ASSUME JournalInv, [Next]_vars PROVE Pockets!Next \/ UNCHANGED Pockets!vars
  OBVIOUS
<1>1. BalanceInv /\ TypeOK'
  BY NextInv DEF JournalInv, BalanceInv
<1> HIDE DEF JournalInv
<1>2. CASE TopupNext
  <2>1. ASSUME NEW i \in Intents, NEW o \in Owners, NEW p \in Providers, NEW amount \in TopupCents,
               StartTopup(i, o, p, amount)
        PROVE  UNCHANGED Pockets!vars
    BY <2>1, PocketsIdle DEF StartTopup
  <2>2. ASSUME NEW i \in Intents, FailTopup(i) PROVE UNCHANGED Pockets!vars
    BY <2>2, PocketsIdle DEF FailTopup
  <2>3. ASSUME NEW r \in Receipts, NEW i \in Intents, NEW p \in Providers, NEW paid \in PaidCents,
               SettleTopup(r, i, p, paid)
        PROVE  Pockets!Next
    BY <1>1, <2>3, PocketsPayment DEF Pockets!Next
  <2> QED
    BY <1>2, <2>1, <2>2, <2>3 DEF TopupNext
<1>3. CASE ReversalNext
  BY <1>1, <1>3, PocketsRefund DEF ReversalNext, Pockets!Next
<1>4. CASE HoldNext
  <2>1. ASSUME NEW h \in Holds, NEW a \in HoldAccounts, NEW max \in Amounts, CreateHold(h, a, max)
        PROVE  Pockets!Next
    BY <1>1, <2>1, PocketsReserve DEF Pockets!Next
  <2>2. ASSUME NEW h \in Holds, NEW add \in Amounts, ExtendHold(h, add) PROVE Pockets!Next
    BY <1>1, <2>2, PocketsGrow DEF Pockets!Next
  <2>3. ASSUME NEW h \in Holds, NEW charge \in Charges, SettleHold(h, charge) PROVE Pockets!Next
    BY <1>1, <2>3, PocketsCharge DEF Pockets!Next
  <2>4. ASSUME NEW h \in Holds, ReleaseHold(h) PROVE Pockets!Next
    BY <1>1, <2>4, PocketsGiveBack DEF Pockets!Next, ReleaseHold
  <2> QED
    BY <1>4, <2>1, <2>2, <2>3, <2>4 DEF HoldNext
<1>5. CASE SweepNext
  <2>1. CASE SweepRead
    BY <2>1, PocketsIdle DEF SweepRead
  <2>2. ASSUME NEW h \in Holds, SweepExpire(h) PROVE Pockets!Next \/ UNCHANGED Pockets!vars
    <3>1. CASE Open(h)
      BY <1>1, <2>2, <3>1, PocketsGiveBack DEF Pockets!Next, SweepExpire, StillOpen
    <3>2. CASE ~Open(h)
      BY <2>2, <3>2, PocketsIdle DEF SweepExpire, StillOpen
    <3> QED
      BY <3>1, <3>2
  <2> QED
    BY <1>5, <2>1, <2>2 DEF SweepNext
<1>6. CASE SpendNext
  <2>1. ASSUME NEW u \in People, NEW p \in Projects, NEW n \in Amounts, Transfer(u, p, n) PROVE Pockets!Next
    BY <1>1, <2>1, PocketsTransfer DEF Pockets!Next
  <2>2. ASSUME NEW u \in People, NEW vibes \in VibesAmounts, BuyVibes(u, vibes) PROVE Pockets!Next
    BY <1>1, <2>2, PocketsPurchase DEF Pockets!Next
  <2> QED
    BY <1>6, <2>1, <2>2 DEF SpendNext
<1>7. ASSUME NEW o \in Owners, NEW n \in Amounts, SandboxGrant(o, n) PROVE Pockets!Next
  BY <1>1, <1>7, PocketsGrant DEF Pockets!Next
<1>8. CASE Tick
  BY <1>8, PocketsIdle DEF Tick
<1>9. CASE UNCHANGED vars
  BY <1>9, PocketsIdle DEF vars
<1> QED
  BY <1>2, <1>3, <1>4, <1>5, <1>6, <1>7, <1>8, <1>9 DEF Next

\* Every history of the Balance is a history of the pockets: what a hold reserved is
\* its own until it is charged or given back, unless a provider takes the payment
\* back, and usage goes unpaid only when its account has nothing free (credits.js,
\* docs/balance.md, "No overspend", "No silent loss").
THEOREM PocketsKept == Spec => KeepsPockets
<1>1. JournalInv /\ [Next]_vars => JournalInv'
  BY NextJournal
<1>2. JournalInv /\ [Next]_vars => [Pockets!Next]_(Pockets!vars)
  BY PocketsNext
<1> QED
  BY InitJournal, PocketsInit, <1>1, <1>2, PTL DEF Spec, KeepsPockets, Pockets!Spec

=============================================================================
