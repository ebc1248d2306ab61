-------------------------- MODULE Programs_proofs --------------------------
(***************************************************************************)
(* Proofs about the programs that MCPrograms runs, each for its own        *)
(* specification and all values of its constants: the EJB test runner (T), *)
(* the JNDI map service with any names and keys (M), the security services *)
(* with any names, resources and domains (S), the VIP calculators with any *)
(* amounts and limits (V), the bounded queue of any size (R), the EJB      *)
(* adaptor with lists of attributes of any length (A), the JMS examples    *)
(* with any number of clients, messages and beans (J), the CR/LF           *)
(* conversion of any input (Crlf itself), the linked queue on any heap (Q) *)
(* and the CDP walk of any network (W).  The four programs of the contest  *)
(* and the library are in Contests_proofs.                                 *)
(***************************************************************************)
EXTENDS MCPrograms, Lemmas, TLAPS

-----------------------------------------------------------------------------
(* The EJB test runner *)

(* What the exceptions kept on the way are about: an assertion names a phase *)
(* whose body threw.                                                         *)
Honest(e) ==
    e.kind = "assert" => e.of \in T!Phases /\ body[e.of] = "threw"

(* A phase that is left without an exception called its body, which did not  *)
(* throw; tearDown is reached only after the other two, with the exception   *)
(* of the test in one of two variables.                                      *)
VerdictInv ==
    /\ phase \in T!Phases
    /\ body \in [T!Phases -> {"no", "ok", "threw"}]
    /\ Honest(exc) /\ Honest(exception) /\ Honest(inflight) /\ Honest(thrown)
    /\ tpc \in {"create", "bindings", "instance"} =>
          phase = "setUp" /\ exception = T!NoExc /\ inflight = T!NoExc
    /\ tpc \in {"create", "bindings", "instance", "begin", "body", "commit", "rollback", "end"} =>
          outcome = "none" /\ thrown = T!NoExc
    /\ tpc \in {"create", "bindings", "instance", "begin", "body"} => body[phase] = "no"
    /\ phase = "setUp" => body["run"] = "no"
    /\ phase # "tearDown" => body["tearDown"] = "no"
    /\ tpc \in {"body", "commit"} => exc = T!NoExc
    /\ tpc = "commit" => body[phase] = "ok"
    /\ tpc = "rollback" => exc # T!NoExc
    /\ tpc = "end" => exc # T!NoExc \/ body[phase] = "ok"
    /\ phase # "setUp" => body["setUp"] = "ok"
    /\ phase # "tearDown" => exception = T!NoExc /\ inflight = T!NoExc
    /\ phase = "tearDown" =>
          body["run"] = "ok" \/ exception # T!NoExc \/ inflight # T!NoExc
    /\ tpc = "returned" /\ thrown = T!NoExc => body["setUp"] = "ok" /\ body["run"] = "ok"
    /\ VerdictRight

(* No test is reported as passed that was not run or that threw, and a       *)
(* failure names a body that threw, whatever fails in the transactions       *)
(* around the three phases of EJBTestRunnerBean.run.                         *)
THEOREM VerdictHolds == T!Spec => []VerdictRight
<1>1. T!Init => VerdictInv
    BY DEF T!Init, VerdictInv, VerdictRight, T!VerdictRight, T!Phases, T!NoExc, Honest
<1>2. VerdictInv /\ [T!Next]_(T!vars) => VerdictInv'
  <2> SUFFICES ASSUME VerdictInv, [T!Next]_(T!vars) PROVE VerdictInv'
    OBVIOUS
  <2> USE DEF VerdictInv, VerdictRight, T!VerdictRight, T!NoExc, T!Exc, Honest
  <2>1. CASE T!getEJBTestRunner
    BY <2>1 DEF T!getEJBTestRunner
  <2>2. CASE T!ListBindings
    BY <2>2 DEF T!ListBindings
  <2>3. CASE T!getTestInstance
    BY <2>3 DEF T!getTestInstance
  <2>4. CASE T!Begin
    BY <2>4 DEF T!Begin
  <2>5. CASE T!Body
    BY <2>5 DEF T!Body, T!Phases
  <2>6. CASE T!Commit
    BY <2>6 DEF T!Commit
  <2>7. CASE T!Rollback
    BY <2>7 DEF T!Rollback
  <2>8. CASE T!SetUpEnds
    BY <2>8 DEF T!SetUpEnds, T!Phases
  <2>9. CASE T!RunEnds
    BY <2>9 DEF T!RunEnds, T!Wrapped, T!Phases
  <2>10. CASE T!TearDownEnds
    BY <2>10 DEF T!TearDownEnds, T!Wrapped
  <2>11. CASE T!ClientCatch
    BY <2>11 DEF T!ClientCatch
  <2>12. CASE T!Remove
    BY <2>12 DEF T!Remove
  <2>13. CASE UNCHANGED T!vars
    BY <2>13 DEF T!vars
  <2> QED BY <2>1, <2>2, <2>3, <2>4, <2>5, <2>6, <2>7, <2>8, <2>9, <2>10, <2>11, <2>12, <2>13 DEF T!Next
<1>3. VerdictInv => VerdictRight
    BY DEF VerdictInv
<1> QED BY <1>1, <1>2, <1>3, PTL DEF T!Spec

-----------------------------------------------------------------------------
(* The JNDI map and the security services *)

(* A service that failed to start is renamed without unbinding anything, so  *)
(* its old name must not be bound: of the versions other than ex1 nothing is *)
(* bound then but names the naming service refused to unbind.                *)
MapInv ==
    /\ mstate \in {"CREATED", "STARTED", "STOPPED", "FAILED"}
    /\ ~M!Started => bound \subseteq leaked
    /\ M!BoundUnderName

(* The map is bound under its own name and no other, in all three versions   *)
(* of JNDIMap and through any sequence of calls some of which fail.          *)
LEMMA MapKept == M!Spec => []M!BoundUnderName
<1>1. M!Init => MapInv
  <2> SUFFICES ASSUME M!Init PROVE MapInv
    OBVIOUS
  <2>1. mstate = "CREATED" /\ bound = {}
    BY DEF M!Init
  <2> QED BY <2>1 DEF MapInv, M!BoundUnderName, M!Started
<1>2. MapInv /\ [M!Next]_(M!vars) => MapInv'
  <2> SUFFICES ASSUME MapInv, [M!Next]_(M!vars) PROVE MapInv'
    OBVIOUS
  <2> USE DEF MapInv, M!BoundUnderName, M!Started
  <2>1. ASSUME NEW n \in Names, M!setJndiName(n) PROVE MapInv'
    <3>1. jndiName' = n /\ mstate' = mstate /\ variant' = variant
      BY <2>1 DEF M!setJndiName
    <3>2. CASE ~M!Started
      <4>1. UNCHANGED <<bound, leaked, failed>>
        BY <2>1, <3>2 DEF M!setJndiName
      <4> QED BY <3>1, <3>2, <4>1
    <3>3. CASE M!Started
      <4>1. PICK u \in M!unbind(jndiName) : M!rebind(n, u)
        BY <2>1, <3>3 DEF M!setJndiName
      <4>2. u[1] \subseteq u[2]
        BY <4>1 DEF M!unbind
      <4> QED BY <3>1, <3>3, <4>1, <4>2 DEF M!rebind
    <3> QED BY <3>2, <3>3
  <2>2. ASSUME NEW ks \in SUBSET Keys, M!setInitialValues(ks) PROVE MapInv'
    BY <2>2 DEF M!setInitialValues
  <2>3. ASSUME NEW k \in Keys, M!PutKey(k) PROVE MapInv'
    BY <2>3 DEF M!PutKey
  <2>4. CASE M!start
    BY <2>4 DEF M!start, M!rebind
  <2>5. CASE M!stop
    BY <2>5 DEF M!stop, M!unbind
  <2>6. CASE UNCHANGED M!vars
    BY <2>6 DEF M!vars
  <2> QED BY <2>1, <2>2, <2>3, <2>4, <2>5, <2>6 DEF M!Next
<1>3. MapInv => M!BoundUnderName
    BY DEF MapInv
<1> QED BY <1>1, <1>2, <1>3, PTL DEF M!Spec

(* The states of the services, and the property.                             *)
TidyInv ==
    /\ cache \in {"stopped", "started", "failed"} /\ config \in {"stopped", "started", "failed"}
    /\ S!ServicesTidy

(* The cache service and the login configuration, with any names and any     *)
(* resources that share domains or not.                                      *)
LEMMA SecurityKept == S!Spec => []S!ServicesTidy
<1>1. S!Init => TidyInv
    BY DEF S!Init, TidyInv, S!ServicesTidy
<1>2. TidyInv /\ [S!Next]_(S!vars) => TidyInv'
  <2> SUFFICES ASSUME TidyInv, [S!Next]_(S!vars) PROVE TidyInv'
    OBVIOUS
  <2> USE DEF TidyInv, S!ServicesTidy, S!Idle, S!None, S!cacheVars, S!configVars
  <2>1. ASSUME NEW f \in {S!None, "lookup", "listen", "member"}, S!startCache(f)
        PROVE  TidyInv'
    BY <2>1 DEF S!startCache
  <2>2. ASSUME NEW f \in {S!None, "lookup", "listen", "member"}, S!stopCache(f)
        PROVE  TidyInv'
    BY <2>2 DEF S!stopCache
  <2>3. ASSUME NEW n \in CacheNames, S!setCacheJndiName(n) PROVE TidyInv'
    BY <2>3 DEF S!setCacheJndiName
  <2>4. CASE S!loadConfig
    BY <2>4 DEF S!loadConfig
  <2>5. CASE S!noConfig
    BY <2>5 DEF S!noConfig
  <2>6. CASE S!removeConfigs
    BY <2>6 DEF S!removeConfigs
  <2>7. ASSUME NEW r \in Resources, S!setAuthConfig(r) \/ S!Undeploy(r) PROVE TidyInv'
    BY <2>7 DEF S!setAuthConfig, S!Undeploy
  <2>8. CASE S!startStore \/ S!stopStore
    BY <2>8 DEF S!startStore, S!stopStore
  <2>9. CASE UNCHANGED S!vars
    BY <2>9 DEF S!vars
  <2> QED BY <2>1, <2>2, <2>3, <2>4, <2>5, <2>6, <2>7, <2>8, <2>9
         DEF S!Next, S!CacheNext, S!ConfigNext, S!StoreNext
<1>3. TidyInv => S!ServicesTidy
    BY DEF TidyInv
<1> QED BY <1>1, <1>2, <1>3, PTL DEF S!Spec

(* The MBeans are bound under their own names; while no start or stop failed *)
(* a stopped SecurityConfig leaves no login domain, and a stopped cache      *)
(* service a listener only under a name that was changed before the stop,    *)
(* whatever names, resources and domains there are and however the calls     *)
(* follow each other.  Nothing is said of the bindings a stop leaves: that   *)
(* of the cache is never undone.                                             *)
THEOREM ServicesKept == M!Spec /\ S!Spec => []ServicesTidy
<1>1. M!BoundUnderName /\ S!ServicesTidy => ServicesTidy
    BY DEF ServicesTidy
<1> QED BY <1>1, MapKept, SecurityKept, PTL

-----------------------------------------------------------------------------
(* The VIP calculators *)

(* What is kept between two lines of the file. *)
VipInv ==
    /\ vcount \in Nat /\ amount \in Nat /\ target \in Nat
    /\ average \in Nat /\ growth \in Nat
    /\ shareOwn \in Nat /\ totalInvst \in Nat
    /\ shareOwn = 0 => totalInvst = 0
    /\ navs \in Seq(Navs)
    /\ ValueAveraged

(* A row that buys shares of value nav, to come to value or to a limit. *)
FairRow(p, nav, value) ==
    /\ p.nav = nav /\ p.bought \in Nat /\ p.invested \in Nat
    /\ nav * p.bought = p.invested
    /\ p.invested <= Unit * maxInvest
    /\ p.invested \notin {Unit * minInvest, Unit * maxInvest} =>
          nav * (shareOwn + p.bought) = Unit * value
    /\ nav * (shareOwn + p.bought) < Unit * value => p.invested = Unit * maxInvest
    /\ p.invested < Unit * minInvest =>
          calculator # "funds" /\ nav * (shareOwn + p.bought) = Unit * value

(* Products: whatever is bought for some money costs it, and more shares are *)
(* worth no less.                                                            *)
LEMMA SharesCost ==
    ASSUME NEW nav \in Nat, NEW k \in Nat, NEW m \in Nat
    PROVE  m * k \in Nat /\ nav * (m * k) = (nav * k) * m
OBVIOUS

LEMMA Worth ==
    ASSUME NEW nav \in Nat, NEW a \in Int, NEW b \in Int
    PROVE  /\ nav * (a + b) = nav * a + nav * b
           /\ a <= b => nav * a <= nav * b
           /\ nav * a \in Int
           /\ b >= 0 => nav * b \in Nat
OBVIOUS

(* Every purchase is fair. *)
LEMMA PurchaseRight ==
    ASSUME NEW nav \in Navs \ {0}, NEW value \in Nat, shareOwn \in Nat
    PROVE  FairRow(V!Purchase(nav, value), nav, value)
<1> DEFINE k == Unit \div nav
           need == value * k - shareOwn
           cost == nav * need
           p == V!Purchase(nav, value)
           Deal(m) == [nav |-> nav, bought |-> m * k, invested |-> Unit * m]
<1>1. /\ nav \in Nat /\ nav > 0 /\ Unit \in Nat /\ Unit > 0
      /\ minInvest \in Nat /\ maxInvest \in Nat /\ minInvest <= maxInvest
    BY VipAssumption
<1>2. k \in Nat /\ nav * k = Unit
  <2>1. nav * k = Unit
    BY VipAssumption
  <2>2. k \in Nat
    BY <1>1
  <2> QED BY <2>1, <2>2
<1> HIDE DEF k
<1>3. \A m \in Nat : m * k \in Nat /\ nav * (m * k) = Unit * m
  <2> TAKE m \in Nat
  <2>1. m * k \in Nat /\ nav * (m * k) = (nav * k) * m
    BY <1>1, <1>2, SharesCost
  <2> QED BY <1>2, <2>1
<1>4. need \in Int /\ shareOwn + need = value * k
  <2>1. value * k \in Nat
    BY <1>3
  <2> DEFINE v == value * k
  <2>2. v \in Nat
    BY <2>1
  <2> HIDE DEF v
  <2>3. v - shareOwn \in Int /\ shareOwn + (v - shareOwn) = v
    BY <2>2
  <2> QED BY <2>3 DEF v
<1>5. p = CASE need < 0 -> Deal(minInvest)
            [] need >= 0 /\ cost > Unit * maxInvest -> Deal(maxInvest)
            [] need >= 0 /\ cost < Unit * minInvest /\ calculator = "funds" -> Deal(minInvest)
            [] OTHER -> [nav |-> nav, bought |-> need, invested |-> cost]
    BY Zenon DEF V!Purchase, V!Shares, k
<1> HIDE DEF need, p, Deal
<1>6. /\ cost \in Int /\ (need >= 0 => cost \in Nat)
      /\ nav * shareOwn + cost = Unit * value
      /\ need < 0 => nav * shareOwn >= Unit * value
  <2>1. nav * (shareOwn + need) = nav * shareOwn + nav * need
    BY <1>1, <1>4, Worth
  <2>2. nav * (shareOwn + need) = Unit * value
    BY <1>3, <1>4
  <2>3. /\ nav * need \in Int /\ (need >= 0 => nav * need \in Nat)
        /\ nav * shareOwn \in Int
    BY <1>1, <1>4, Worth
  <2>4. need <= 0 => nav * need <= nav * 0
    BY <1>1, <1>4, Worth
  <2>5. nav * 0 = 0
    BY <1>1
  <2> DEFINE x == nav * need
             y == nav * shareOwn
             z == Unit * value
  <2>6. /\ x \in Int /\ y \in Int /\ y + x = z /\ (need < 0 => x <= 0)
        /\ (need >= 0 => x \in Nat)
    BY <1>4, <2>1, <2>2, <2>3, <2>4, <2>5
  <2> HIDE DEF x, y, z
  <2>7. need < 0 => y >= z
    BY <2>6
  <2> QED BY <2>6, <2>7 DEF x, y, z
<1>7. /\ Unit * minInvest \in Nat /\ Unit * maxInvest \in Nat
      /\ Unit * minInvest <= Unit * maxInvest
    BY <1>1, Worth
<1>8. \A q \in Nat : nav * (shareOwn + q) = nav * shareOwn + nav * q
    BY <1>1, Worth
<1>9. nav * shareOwn \in Nat /\ Unit * value \in Nat
    BY <1>1, Worth
<1> DEFINE own == nav * shareOwn
           goal == Unit * value
           low == Unit * minInvest
           high == Unit * maxInvest
<1>10. ASSUME NEW m \in {minInvest, maxInvest},
              p = Deal(m),
              own + Unit * m < goal => m = maxInvest
       PROVE  FairRow(p, nav, value)
  <2>1. m \in Nat /\ m * k \in Nat /\ nav * (m * k) = Unit * m
    BY <1>1, <1>3, <1>10
  <2>2. /\ p.nav = nav /\ p.bought = m * k /\ p.invested = Unit * m
    BY <1>10 DEF Deal
  <2>3. /\ p.bought \in Nat /\ nav * p.bought = p.invested
        /\ p.invested \in {low, high}
        /\ nav * (shareOwn + p.bought) = own + Unit * m
    BY <1>8, <1>10, <2>1, <2>2
  <2>4. p.invested \in Nat /\ p.invested <= Unit * maxInvest /\ ~(p.invested < Unit * minInvest)
    <3> HIDE DEF low, high, own, goal
    <3>1. low \in Nat /\ high \in Nat /\ low <= high /\ p.invested \in {low, high}
      BY <1>7, <2>3 DEF low, high
    <3>2. p.invested \in Nat /\ p.invested <= high /\ ~(p.invested < low)
      BY <3>1
    <3> QED BY <3>2 DEF low, high
  <2>5. nav * (shareOwn + p.bought) < Unit * value => p.invested = Unit * maxInvest
    BY <1>10, <2>2, <2>3
  <2> QED BY <2>2, <2>3, <2>4, <2>5 DEF FairRow
<1>11. CASE need < 0
  <2>1. ~(own + Unit * minInvest < goal)
    <3> HIDE DEF own, goal
    <3>1. own \in Nat /\ goal \in Nat /\ own >= goal /\ Unit * minInvest \in Nat
      BY <1>6, <1>7, <1>9, <1>11 DEF own, goal
    <3> QED BY <3>1
  <2>2. p = Deal(minInvest)
    BY <1>4, <1>5, <1>11
  <2> QED BY <1>10, <2>1, <2>2, Zenon DEF p
<1>12. CASE need >= 0 /\ cost > Unit * maxInvest
  <2>1. p = Deal(maxInvest)
    <3>1. ~(need < 0)
      <4> HIDE DEF cost
      <4> QED BY <1>4, <1>12
    <3> DEFINE h == Unit * maxInvest
               l == Unit * minInvest
    <3>2. /\ need >= 0 /\ cost > h
          /\ p = CASE need < 0 -> Deal(minInvest)
                 [] need >= 0 /\ cost > h -> Deal(maxInvest)
                 [] need >= 0 /\ cost < l /\ calculator = "funds" -> Deal(minInvest)
                 [] OTHER -> [nav |-> nav, bought |-> need, invested |-> cost]
          /\ h \in Nat /\ l \in Nat /\ l <= h /\ cost \in Int
      BY <1>5, <1>6, <1>7, <1>12, Zenon
    <3> HIDE DEF h, l, cost
    <3> QED BY <3>1, <3>2
  <2> QED BY <1>10, <2>1, Zenon DEF p
<1>13. CASE need >= 0 /\ ~(cost > Unit * maxInvest) /\ cost < Unit * minInvest
            /\ calculator = "funds"
  <2>1. p = Deal(minInvest)
    BY <1>4, <1>5, <1>13
  <2>2. ~(own + Unit * minInvest < goal)
    <3> HIDE DEF own, goal, cost
    <3>1. /\ own \in Nat /\ goal \in Nat /\ Unit * minInvest \in Nat /\ cost \in Int
          /\ own + cost = goal /\ cost < Unit * minInvest
      BY <1>6, <1>7, <1>9, <1>13 DEF own, goal, cost
    <3> QED BY <3>1
  <2> QED BY <1>10, <2>1, <2>2, Zenon DEF p
<1>14. CASE need >= 0 /\ ~(cost > Unit * maxInvest)
            /\ ~(cost < Unit * minInvest /\ calculator = "funds")
  <2>1. p = [nav |-> nav, bought |-> need, invested |-> cost]
    BY <1>4, <1>5, <1>14
  <2>2. /\ p.nav = nav /\ p.bought = need /\ p.invested = cost /\ need \in Nat
        /\ nav * (shareOwn + need) = goal /\ cost \in Nat /\ cost <= Unit * maxInvest
    <3>1. need \in Nat /\ cost \in Nat
      BY <1>4, <1>6, <1>14
    <3>2. nav * (shareOwn + need) = goal
      BY <1>6, <1>8, <3>1
    <3> HIDE DEF cost
    <3>3. cost <= Unit * maxInvest
      BY <1>7, <1>14, <3>1
    <3> QED BY <2>1, <3>1, <3>2, <3>3
  <2>3. ~(goal < goal)
    <3> HIDE DEF goal
    <3> QED BY <1>9 DEF goal
  <2>4. /\ p.bought \in Nat /\ p.invested \in Nat
        /\ nav * p.bought = p.invested
        /\ nav * (shareOwn + p.bought) = Unit * value
        /\ p.invested <= Unit * maxInvest
    BY <2>2
  <2>5. p.invested < Unit * minInvest => calculator # "funds"
    BY <1>14, <2>2
  <2>6. ~(nav * (shareOwn + p.bought) < Unit * value)
    BY <2>2, <2>3
  <2> QED BY <2>2, <2>4, <2>5, <2>6, Zenon DEF FairRow, p
<1> QED BY <1>4, <1>11, <1>12, <1>13, <1>14 DEF p

(* Each row is paid, and reaches the target unless a limit keeps it from     *)
(* there; the lower limit binds "funds" only.  For all amounts, limits and   *)
(* positive values and a file of any length, with lines that are refused.    *)
THEOREM ValueHolds == V!Spec => []ValueAveraged
<1>1. V!Init => VipInv
  <2> SUFFICES ASSUME V!Init PROVE VipInv
    OBVIOUS
  <2>1. /\ vcount = 0 /\ amount = initInvest /\ target = 0 /\ shareOwn = 0
        /\ totalInvst = 0 /\ row = V!NoRow /\ vpc = "loop"
        /\ average \in Nat /\ growth \in Nat /\ initInvest \in Nat
    BY VipAssumption DEF V!Init
  <2>2. navs \in Seq(Navs)
    <3>1. PICK n \in 0 .. NavLines : navs \in [1 .. n -> Navs]
      BY DEF V!Init
    <3>2. n \in Nat
      BY <3>1, VipAssumption
    <3> QED BY <3>1, <3>2
  <2> QED BY <2>1, <2>2 DEF VipInv, ValueAveraged, V!ValueAveraged
<1>2. VipInv /\ [V!Next]_(V!vars) => VipInv'
  <2> SUFFICES ASSUME VipInv, [V!Next]_(V!vars) PROVE VipInv'
    OBVIOUS
  <2>1. CASE V!Installment
    <3> DEFINE nav == Head(navs)
    <3>1. nav \in Navs \ {0} /\ navs' \in Seq(Navs)
      BY <2>1 DEF V!Installment, VipInv
    <3>2. target' \in Nat
      BY <2>1, VipAssumption DEF V!Installment, VipInv, V!Target
    <3>3. /\ row' = V!Purchase(nav, target') /\ shareOwn \in Nat /\ totalInvst \in Nat
          /\ shareOwn' = shareOwn + row'.bought /\ (shareOwn = 0 => totalInvst = 0)
          /\ totalInvst' = totalInvst + row'.invested
          /\ calculator' = calculator /\ vcount' = vcount + 1
      BY <2>1 DEF V!Installment, VipInv
    <3>4. nav \in Nat /\ nav # 0
      BY <3>1, VipAssumption
    <3> HIDE DEF nav
    <3>5. FairRow(row', nav, target')
      BY <3>1, <3>2, <3>3, PurchaseRight
    <3>6. /\ row'.bought \in Nat /\ row'.invested \in Nat
          /\ row'.bought = 0 => row'.invested = 0
      BY <3>4, <3>5 DEF FairRow
    <3>7. shareOwn' \in Nat /\ totalInvst' \in Nat /\ (shareOwn' = 0 => totalInvst' = 0)
      <4>1. PICK b \in Nat, i \in Nat :
               b = row'.bought /\ i = row'.invested /\ (b = 0 => i = 0)
        BY <3>6
      <4>2. shareOwn' = shareOwn + b /\ totalInvst' = totalInvst + i
        BY <3>3, <4>1
      <4>3. shareOwn' \in Nat /\ totalInvst' \in Nat
        BY <3>3, <4>1, <4>2
      <4>4. shareOwn' = 0 => shareOwn = 0 /\ b = 0
        BY <3>3, <4>1, <4>2
      <4>5. shareOwn = 0 /\ b = 0 => totalInvst' = 0
        BY <3>3, <4>1, <4>2
      <4> QED BY <4>3, <4>4, <4>5
    <3>8. /\ amount' \in Nat /\ average' \in Nat /\ growth' \in Nat /\ vcount' \in Nat
          /\ vpc' \in {"loop", "summary"} /\ (vpc' = "summary" => vcount' >= installmentCount)
      BY <2>1 DEF V!Installment, VipInv
    <3>9. row'.invested \in 0 .. Unit * maxInvest
      <4>1. Unit * maxInvest \in Nat
        BY VipAssumption, Worth
      <4> DEFINE high == Unit * maxInvest
      <4>2. high \in Nat /\ row'.invested \in Nat /\ row'.invested <= high
        BY <3>5, <3>6, <4>1 DEF FairRow
      <4> HIDE DEF high
      <4>3. row'.invested \in 0 .. high
        BY <4>2
      <4> QED BY <4>3 DEF high
    <3>10. ValueAveraged'
      BY <3>3, <3>5, <3>8, <3>9, Zenon DEF ValueAveraged, V!ValueAveraged, FairRow
    <3> QED BY <3>1, <3>2, <3>7, <3>8, <3>10 DEF VipInv
  <2>2. CASE V!EndOfFile
    BY <2>2 DEF V!EndOfFile, VipInv, ValueAveraged, V!ValueAveraged
  <2>3. CASE V!printSummary
    BY <2>3 DEF V!printSummary, VipInv, ValueAveraged, V!ValueAveraged
  <2>4. CASE V!BadLine
    BY <2>4 DEF V!BadLine, VipInv, ValueAveraged, V!ValueAveraged
  <2>5. CASE UNCHANGED V!vars
    BY <2>5 DEF V!vars, VipInv, ValueAveraged, V!ValueAveraged
  <2> QED BY <2>1, <2>2, <2>3, <2>4, <2>5 DEF V!Next
<1>3. VipInv => ValueAveraged
    BY DEF VipInv
<1> QED BY <1>1, <1>2, <1>3, PTL DEF V!Spec

-----------------------------------------------------------------------------
(* The bounded queue *)

USE ProgramsAssumption

(* The buffer i places behind the front. *)
Pos(r, k) == IF r.front + k < r.size THEN r.front + k ELSE r.front + k - r.size

Rings(sz) ==
    [size : {sz}, queueFull : BOOLEAN, front : 0 .. sz - 1, tail : 0 .. sz - 1,
     item : [0 .. sz - 1 -> Nat]]

(* The values from front to tail were offered one after the other, and      *)
(* those returned before them.                                               *)
Ordered ==
    /\ ring.size \in Nat \ {0} /\ ring \in Rings(ring.size)
    /\ \A k \in 0 .. R!Reachable(ring) - 1 :
          /\ ring.item[Pos(ring, k)] <= offered
          /\ \A j \in 0 .. k - 1 : ring.item[Pos(ring, j)] < ring.item[Pos(ring, k)]
          /\ \A j \in 1 .. Len(returned) : returned[j] < ring.item[Pos(ring, k)]

(* The values returned, and those that can still be. *)
Kept(r, given) ==
    {given[j] : j \in 1 .. Len(given)}
        \cup {r.item[Pos(r, k)] : k \in 0 .. R!Reachable(r) - 1}

(* The queue has no buffers, and nothing can be pushed, or it is in order.   *)
RingInv ==
    /\ offered \in Nat /\ returned \in Seq(Nat)
    /\ unkept \subseteq 1 .. offered /\ Kept(ring, returned) = (1 .. offered) \ unkept
    /\ Ordered \/ (ring.size = 0 /\ ring.front = -1 /\ ring.tail = -1 /\ returned = <<>>)
    /\ \A j \in 1 .. Len(returned) : returned[j] <= offered
    /\ \A j, k \in 1 .. Len(returned) : j < k => returned[j] < returned[k]

(* Where the buffers are. *)
LEMMA Positions ==
    ASSUME NEW sz \in Nat \ {0}, NEW r \in Rings(sz)
    PROVE  /\ R!Reachable(r) \in 0 .. sz - 1
           /\ \A k \in 0 .. sz - 1 : Pos(r, k) \in 0 .. sz - 1
           /\ \A k \in 0 .. sz - 1 : Pos(r, k) = r.tail <=> k = R!Reachable(r)
           /\ Pos(r, 0) = r.front
<1>1. /\ r.size = sz /\ r.front \in 0 .. sz - 1 /\ r.tail \in 0 .. sz - 1
    BY DEF Rings
<1> QED BY <1>1 DEF R!Reachable, Pos

(* pop moves every value one place forward. *)
LEMMA Pops ==
    ASSUME NEW sz \in Nat \ {0}, NEW r \in Rings(sz), ~R!isEmpty(r)
    PROVE  /\ R!popped(r) \in Rings(sz)
           /\ R!popped(r).item = r.item /\ R!popped(r).size = sz
           /\ R!Reachable(r) > 0 /\ R!Reachable(R!popped(r)) = R!Reachable(r) - 1
           /\ \A k \in 0 .. sz - 2 : Pos(R!popped(r), k) = Pos(r, k + 1)
<1>1. /\ r.size = sz /\ r.front \in 0 .. sz - 1 /\ r.tail \in 0 .. sz - 1
      /\ r.front # r.tail /\ sz > 1
    BY DEF Rings, R!isEmpty
<1>2. R!next(r, r.front) \in 0 .. sz - 1
    BY <1>1 DEF R!next
<1>3. /\ R!popped(r).size = sz /\ R!popped(r).front = R!next(r, r.front)
      /\ R!popped(r).tail = r.tail /\ R!popped(r).item = r.item
      /\ R!popped(r) \in Rings(sz)
    BY <1>1, <1>2 DEF R!popped, Rings
<1> HIDE DEF R!popped
<1>4. R!Reachable(r) > 0 /\ R!Reachable(R!popped(r)) = R!Reachable(r) - 1
    BY <1>1, <1>3 DEF R!Reachable, R!next
<1>5. ASSUME NEW k \in 0 .. sz - 2 PROVE Pos(R!popped(r), k) = Pos(r, k + 1)
    BY <1>1, <1>3 DEF Pos, R!next
<1> QED BY <1>3, <1>4, <1>5

(* push leaves the values where they are, and the new one behind them or,    *)
(* when it fills the queue, out of reach.                                    *)
LEMMA Pushes ==
    ASSUME NEW sz \in Nat \ {0}, NEW r \in Rings(sz), NEW v \in Nat, ~r.queueFull
    PROVE  LET q == R!pushed(r, v) IN
           /\ q \in Rings(sz) /\ q.size = sz /\ q.front = r.front
           /\ R!Reachable(q) = IF q.queueFull THEN R!Reachable(r) ELSE R!Reachable(r) + 1
           /\ \A k \in 0 .. sz - 1 : Pos(q, k) = Pos(r, k)
           /\ q.item = [r.item EXCEPT ![r.tail] = v]
<1> DEFINE q == R!pushed(r, v)
<1>1. /\ r.size = sz /\ r.front \in 0 .. sz - 1 /\ r.tail \in 0 .. sz - 1
      /\ r.item \in [0 .. sz - 1 -> Nat]
    BY DEF Rings
<1>2. ASSUME R!next(r, r.tail) \notin {-1, r.front}
      PROVE  R!next(r, r.tail) \in 0 .. sz - 1
    BY <1>1, <1>2 DEF R!next
<1>3. /\ q.size = sz /\ q.front = r.front /\ q.item = [r.item EXCEPT ![r.tail] = v]
      /\ q.tail = IF R!next(r, r.tail) \in {-1, r.front} THEN r.tail
                                                         ELSE R!next(r, r.tail)
      /\ q.queueFull <=> R!next(r, r.tail) \in {-1, r.front}
      /\ q \in Rings(sz)
    BY <1>1, <1>2 DEF R!pushed, Rings
<1> HIDE DEF q
<1>4. R!Reachable(q) = IF q.queueFull THEN R!Reachable(r) ELSE R!Reachable(r) + 1
  <2>1. CASE R!next(r, r.tail) \in {-1, r.front}
    BY <1>1, <1>3, <2>1 DEF R!Reachable
  <2>2. CASE R!next(r, r.tail) \notin {-1, r.front}
    <3>1. q.tail = IF r.tail = sz - 1 THEN 0 ELSE r.tail + 1
      BY <1>1, <1>3, <2>2 DEF R!next
    <3>2. q.tail # r.front /\ q.front = r.front /\ q.size = sz
      BY <1>3, <2>2
    <3>3. PICK fr \in 0 .. sz - 1, tl \in 0 .. sz - 1 : r.front = fr /\ r.tail = tl
      BY <1>1
    <3>4. R!Reachable(r) = IF fr <= tl THEN tl - fr ELSE sz - fr + tl
      BY <1>1, <3>3 DEF R!Reachable
    <3>5. CASE tl = sz - 1
      <4>1. R!Reachable(q) = sz - fr
        BY <3>1, <3>2, <3>3, <3>5 DEF R!Reachable
      <4> QED BY <1>3, <2>2, <3>3, <3>4, <3>5, <4>1
    <3>6. CASE tl # sz - 1
      <4>1. R!Reachable(q) = IF fr <= tl + 1 THEN tl + 1 - fr ELSE sz - fr + tl + 1
        BY <3>1, <3>2, <3>3, <3>6 DEF R!Reachable
      <4>2. tl + 1 # fr
        BY <3>1, <3>2, <3>3, <3>6
      <4> QED BY <1>3, <2>2, <3>3, <3>4, <4>1, <4>2
    <3> QED BY <3>5, <3>6
  <2> QED BY <2>1, <2>2
<1>5. \A k \in 0 .. sz - 1 : Pos(q, k) = Pos(r, k)
    BY <1>1, <1>3 DEF Pos
<1> QED BY <1>3, <1>4, <1>5 DEF q

(* The remainder in At is Pos. *)
LEMMA Wraps ==
    ASSUME NEW a \in Nat, NEW b \in Nat, a < 2 * b
    PROVE  a % b = IF a < b THEN a ELSE a - b
OBVIOUS

LEMMA AtIsPos ==
    ASSUME ring.size \in Nat \ {0}, ring \in Rings(ring.size),
           NEW k \in 0 .. ring.size - 1
    PROVE  R!At(k) = ring.item[Pos(ring, k)]
<1>1. PICK sz \in Nat, fr \in Nat : ring.size = sz /\ ring.front = fr /\ fr < sz
    BY DEF Rings
<1>0. fr + k \in Nat /\ fr + k < 2 * sz
  <2>1. k \in 0 .. sz - 1
    BY <1>1
  <2> QED BY <1>1, <2>1
<1>2. (fr + k) % sz = IF fr + k < sz THEN fr + k ELSE fr + k - sz
  <2>1. PICK a \in Nat : a = fr + k /\ a < 2 * sz
    BY <1>0
  <2>2. a % sz = IF a < sz THEN a ELSE a - sz
    BY <1>1, <2>1, Wraps
  <2> QED BY <2>1, <2>2
<1>3. (ring.front + k) % ring.size = Pos(ring, k)
    BY <1>1, <1>2 DEF Pos
<1> QED BY <1>3 DEF R!At

(* pop keeps the order and every value: what is returned comes before all    *)
(* that is left.                                                             *)
LEMMA PopKeeps ==
    ASSUME RingInv, R!pop PROVE RingInv'
<1>1. /\ ring' = R!popped(ring) /\ returned' = Append(returned, ring.item[ring.front])
      /\ offered' = offered /\ unkept' = unkept /\ ~R!isEmpty(ring)
    BY DEF R!pop
<1>2. Ordered
    BY <1>1 DEF RingInv, R!isEmpty
<1>3. PICK sz \in Nat \ {0} : ring.size = sz /\ ring \in Rings(sz)
    BY <1>2 DEF Ordered
<1>4. /\ ring' \in Rings(sz) /\ ring'.item = ring.item /\ ring'.size = sz
      /\ R!Reachable(ring) > 0 /\ R!Reachable(ring)' = R!Reachable(ring) - 1
      /\ \A k \in 0 .. sz - 2 : Pos(ring', k) = Pos(ring, k + 1)
  <2>1. R!Reachable(R!popped(ring)) = R!Reachable(ring) - 1
    BY <1>1, <1>3, Pops
  <2>2. R!Reachable(ring)' = R!Reachable(ring) - 1
    BY <1>1, <2>1 DEF R!Reachable
  <2> QED BY <1>1, <1>3, <2>2, Pops
<1>5. PICK n \in 1 .. sz - 1 : n = R!Reachable(ring)
    BY <1>3, <1>4, Positions
<1>6. PICK v \in Nat : v = ring.item[Pos(ring, 0)] /\ v = ring.item[ring.front]
    BY <1>3, Positions DEF Rings
<1>7. /\ v <= offered /\ \A j \in 1 .. Len(returned) : returned[j] < v
      /\ \A k \in 1 .. n - 1 : v < ring.item[Pos(ring, k)]
  <2>1. 0 \in 0 .. R!Reachable(ring) - 1
    BY <1>5
  <2>2. \A k \in 1 .. n - 1 : k \in 0 .. R!Reachable(ring) - 1 /\ 0 \in 0 .. k - 1
    BY <1>5
  <2> QED BY <1>2, <1>6, <2>1, <2>2 DEF Ordered
<1>8. /\ returned \in Seq(Nat) /\ returned' \in Seq(Nat)
      /\ Len(returned') = Len(returned) + 1 /\ Len(returned) \in Nat
      /\ returned'[Len(returned) + 1] = v
      /\ \A j \in 1 .. Len(returned) : returned'[j] = returned[j]
    BY <1>1, <1>6 DEF RingInv
<1>9. ASSUME NEW k \in 0 .. n - 2
      PROVE  /\ ring'.item[Pos(ring', k)] = ring.item[Pos(ring, k + 1)]
             /\ ring.item[Pos(ring, k + 1)] <= offered
             /\ v < ring.item[Pos(ring, k + 1)]
             /\ \A j \in 0 .. k - 1 : ring.item[Pos(ring, j + 1)] < ring.item[Pos(ring, k + 1)]
             /\ \A j \in 1 .. Len(returned) : returned[j] < ring.item[Pos(ring, k + 1)]
  <2>1. k \in 0 .. sz - 2 /\ k + 1 \in 1 .. n - 1 /\ k + 1 \in 0 .. R!Reachable(ring) - 1
    BY <1>5
  <2>2. \A j \in 0 .. k - 1 : j + 1 \in 0 .. (k + 1) - 1
    BY <2>1
  <2> QED BY <1>2, <1>4, <1>7, <2>1, <2>2 DEF Ordered
<1>10. Ordered'
  <2>1. ASSUME NEW k \in 0 .. n - 2
        PROVE  /\ ring'.item[Pos(ring', k)] <= offered
               /\ \A j \in 0 .. k - 1 : ring'.item[Pos(ring', j)] < ring'.item[Pos(ring', k)]
               /\ \A j \in 1 .. Len(returned') : returned'[j] < ring'.item[Pos(ring', k)]
    <3>1. \A j \in 0 .. k - 1 : ring'.item[Pos(ring', j)] = ring.item[Pos(ring, j + 1)]
      BY <1>4, <1>5
    <3>2. \A j \in 1 .. Len(returned') : j = Len(returned) + 1 \/ j \in 1 .. Len(returned)
      BY <1>8
    <3> QED BY <1>8, <1>9, <3>1, <3>2
  <2>2. Pos(ring', 0) = Pos(ring, 0)' /\ \A k : Pos(ring', k) = Pos(ring, k)'
    BY DEF Pos
  <2>3. R!Reachable(ring)' - 1 = n - 2 /\ ring'.size = sz /\ ring' \in Rings(sz)
    BY <1>4, <1>5
  <2> QED BY <1>1, <1>3, <2>1, <2>2, <2>3 DEF Ordered
<1>11. /\ \A j \in 1 .. Len(returned') : returned'[j] <= offered
       /\ \A j, k \in 1 .. Len(returned') : j < k => returned'[j] < returned'[k]
  <2>1. \A j \in 1 .. Len(returned') : j = Len(returned) + 1 \/ j \in 1 .. Len(returned)
    BY <1>8
  <2>2. /\ \A j \in 1 .. Len(returned) : returned[j] <= offered
        /\ \A j, k \in 1 .. Len(returned) : j < k => returned[j] < returned[k]
    BY DEF RingInv
  <2>3. \A j \in 1 .. Len(returned') : returned'[j] <= offered
    BY <1>7, <1>8, <2>1, <2>2
  <2>4. ASSUME NEW j \in 1 .. Len(returned'), NEW k \in 1 .. Len(returned'), j < k
        PROVE  returned'[j] < returned'[k]
    <3>1. j \in 1 .. Len(returned)
      BY <1>8, <2>4
    <3>2. CASE k = Len(returned) + 1
      BY <1>7, <1>8, <3>1, <3>2
    <3>3. CASE k \in 1 .. Len(returned)
      BY <1>8, <2>2, <2>4, <3>1, <3>3
    <3> QED BY <2>1, <3>2, <3>3
  <2> QED BY <2>3, <2>4
<1>12. Kept(ring', returned') = Kept(ring, returned)
  <2>1. R!Reachable(ring) = n /\ R!Reachable(ring') = n - 1
    BY <1>1, <1>3, <1>5, Pops
  <2>2. ASSUME NEW x \in Kept(ring, returned) PROVE x \in Kept(ring', returned')
    <3>1. CASE \E j \in 1 .. Len(returned) : x = returned[j]
      <4>1. PICK j \in 1 .. Len(returned) : x = returned[j]
        BY <3>1
      <4>2. j \in 1 .. Len(returned') /\ x = returned'[j]
        BY <1>8, <4>1
      <4> QED BY <4>2 DEF Kept
    <3>2. CASE \E k \in 0 .. n - 1 : x = ring.item[Pos(ring, k)]
      <4>1. PICK k \in 0 .. n - 1 : x = ring.item[Pos(ring, k)]
        BY <3>2
      <4>2. CASE k = 0
        <5>1. x = v
          BY <1>6, <4>1, <4>2, Zenon
        <5>2. Len(returned) + 1 \in 1 .. Len(returned') /\ x = returned'[Len(returned) + 1]
          BY <1>8, <5>1
        <5> QED BY <5>2 DEF Kept
      <4>3. CASE k # 0
        <5>1. k - 1 \in 0 .. sz - 2 /\ k - 1 \in 0 .. (n - 1) - 1 /\ (k - 1) + 1 = k
          BY <1>5, <4>3
        <5>2. x = ring'.item[Pos(ring', k - 1)]
          BY <1>4, <4>1, <5>1
        <5> QED BY <2>1, <5>1, <5>2 DEF Kept
      <4> QED BY <4>2, <4>3
    <3> QED BY <2>1, <2>2, <3>1, <3>2 DEF Kept
  <2>3. ASSUME NEW x \in Kept(ring', returned') PROVE x \in Kept(ring, returned)
    <3>1. CASE \E j \in 1 .. Len(returned') : x = returned'[j]
      <4>1. PICK j \in 1 .. Len(returned') : x = returned'[j]
        BY <3>1
      <4>2. CASE j \in 1 .. Len(returned)
        BY <1>8, <4>1, <4>2 DEF Kept
      <4>3. CASE j = Len(returned) + 1
        <5>1. 0 \in 0 .. n - 1 /\ x = ring.item[Pos(ring, 0)]
          BY <1>5, <1>6, <1>8, <4>1, <4>3
        <5> QED BY <2>1, <5>1 DEF Kept
      <4> QED BY <1>8, <4>2, <4>3
    <3>2. CASE \E k \in 0 .. (n - 1) - 1 : x = ring'.item[Pos(ring', k)]
      <4>1. PICK k \in 0 .. (n - 1) - 1 : x = ring'.item[Pos(ring', k)]
        BY <3>2
      <4>2. k \in 0 .. sz - 2 /\ k + 1 \in 0 .. n - 1
        BY <1>5
      <4>3. x = ring.item[Pos(ring, k + 1)]
        BY <1>4, <4>1, <4>2
      <4> QED BY <2>1, <4>2, <4>3 DEF Kept
    <3> QED BY <2>1, <2>3, <3>1, <3>2 DEF Kept
  <2> QED BY <2>2, <2>3
<1>13. Kept(ring, returned)' = Kept(ring', returned')
    BY DEF Kept, Pos, R!Reachable
<1>14. /\ unkept' \subseteq 1 .. offered'
       /\ Kept(ring, returned)' = (1 .. offered') \ unkept'
    BY <1>1, <1>12, <1>13 DEF RingInv
<1> QED BY <1>1, <1>8, <1>10, <1>11, <1>14 DEF RingInv

(* push keeps the order, and the new value unless it fills the queue. *)
LEMMA PushKeeps ==
    ASSUME RingInv, R!push
    PROVE  RingInv'
<1>1. /\ offered \in Nat /\ offered' = offered + 1 /\ ring' = R!pushed(ring, offered')
      /\ returned' = returned /\ ring.tail # -1 /\ ~ring.queueFull
      /\ unkept' = IF ring'.queueFull THEN unkept \cup {offered'} ELSE unkept
    BY DEF R!push, R!Offer, RingInv
<1>2. Ordered /\ returned \in Seq(Nat) /\ Len(returned) \in Nat
    BY <1>1 DEF RingInv
<1>3. PICK sz \in Nat \ {0} : ring.size = sz /\ ring \in Rings(sz)
    BY <1>2 DEF Ordered
<1>4. PICK v \in Nat : v = offered' /\ v = offered + 1
    BY <1>1
<1>5. /\ ring' \in Rings(sz) /\ ring'.size = sz /\ ring'.front = ring.front
      /\ R!Reachable(ring') = IF ring'.queueFull THEN R!Reachable(ring)
                                                 ELSE R!Reachable(ring) + 1
      /\ \A k \in 0 .. sz - 1 : Pos(ring', k) = Pos(ring, k)
      /\ ring'.item = [ring.item EXCEPT ![ring.tail] = v]
    BY <1>1, <1>3, <1>4, Pushes
<1>6. PICK n \in 0 .. sz - 1 : n = R!Reachable(ring)
    BY <1>3, Positions
<1>7. ring.item \in [0 .. sz - 1 -> Nat] /\ ring.tail \in 0 .. sz - 1
    BY <1>3 DEF Rings
<1>8. PICK m \in 0 .. sz - 1 :
         m = R!Reachable(ring') /\ m = IF ring'.queueFull THEN n ELSE n + 1
    BY <1>5, <1>6, Positions
<1>9. ASSUME NEW k \in 0 .. n - 1
      PROVE  /\ ring'.item[Pos(ring', k)] = ring.item[Pos(ring, k)]
             /\ ring.item[Pos(ring, k)] \in Nat
             /\ ring.item[Pos(ring, k)] <= offered
             /\ \A j \in 0 .. k - 1 : ring.item[Pos(ring, j)] < ring.item[Pos(ring, k)]
             /\ \A j \in 1 .. Len(returned) : returned[j] < ring.item[Pos(ring, k)]
  <2>1. k \in 0 .. sz - 1 /\ k # n /\ k \in 0 .. R!Reachable(ring) - 1
    BY <1>6
  <2>2. Pos(ring, k) \in 0 .. sz - 1 /\ Pos(ring, k) # ring.tail
    BY <1>3, <1>6, <2>1, Positions
  <2> QED BY <1>2, <1>5, <1>7, <2>1, <2>2 DEF Ordered
<1>10. ring'.item[Pos(ring', n)] = v
  <2>1. Pos(ring, n) = ring.tail
    BY <1>3, <1>6, Positions
  <2> QED BY <1>5, <1>6, <1>7, <2>1
<1>11. ASSUME NEW k \in 0 .. m - 1
       PROVE  /\ ring'.item[Pos(ring', k)] <= v
              /\ \A j \in 0 .. k - 1 : ring'.item[Pos(ring', j)] < ring'.item[Pos(ring', k)]
              /\ \A j \in 1 .. Len(returned) : returned[j] < ring'.item[Pos(ring', k)]
  <2>1. \A j \in 0 .. k - 1 : j \in 0 .. n - 1
    BY <1>6, <1>8
  <2>2. CASE k \in 0 .. n - 1
    <3>1. PICK x \in Nat : x = ring.item[Pos(ring, k)] /\ x <= offered
      BY <1>9, <2>2
    <3>2. x <= v
      BY <1>1, <1>4, <3>1
    <3>3. ring'.item[Pos(ring', k)] = x
      BY <1>9, <2>2, <3>1
    <3>4. /\ \A j \in 0 .. k - 1 : ring'.item[Pos(ring', j)] < x
          /\ \A j \in 1 .. Len(returned) : returned[j] < x
      BY <1>9, <2>1, <2>2, <3>1
    <3> QED BY <3>2, <3>3, <3>4
  <2>3. CASE k = n
    <3>1. \A j \in 1 .. Len(returned) : returned[j] <= offered /\ returned[j] \in Nat
      BY <1>2 DEF RingInv
    <3> QED BY <1>1, <1>4, <1>9, <1>10, <2>1, <2>3, <3>1
  <2> QED BY <1>6, <1>8, <2>2, <2>3
<1>12. Ordered'
  <2>1. /\ R!Reachable(ring)' = R!Reachable(ring')
        /\ \A k : Pos(ring', k) = Pos(ring, k)'
    BY DEF Pos, R!Reachable
  <2> QED BY <1>1, <1>3, <1>4, <1>5, <1>8, <1>11, <2>1 DEF Ordered
<1>13. \A j \in 1 .. Len(returned) : returned[j] <= offered' /\ returned[j] \in Nat
    BY <1>1, <1>2 DEF RingInv
<1>14. Kept(ring', returned) = IF ring'.queueFull THEN Kept(ring, returned)
                               ELSE Kept(ring, returned) \cup {v}
  <2> DEFINE Past == {returned[j] : j \in 1 .. Len(returned)}
             Old == {ring.item[Pos(ring, k)] : k \in 0 .. n - 1}
             New == {ring'.item[Pos(ring', k)] : k \in 0 .. m - 1}
  <2>1. Kept(ring, returned) = Past \cup Old /\ Kept(ring', returned) = Past \cup New
    BY <1>6, <1>8 DEF Kept
  <2>2. \A k \in 0 .. n - 1 : ring'.item[Pos(ring', k)] = ring.item[Pos(ring, k)]
    BY <1>9
  <2>3. CASE ring'.queueFull
    <3>1. New = Old
      BY <1>8, <2>2, <2>3
    <3> QED BY <2>1, <2>3, <3>1
  <2>4. CASE ~ring'.queueFull
    <3>1. m = n + 1
      BY <1>8, <2>4
    <3>2. \A k \in 0 .. m - 1 : k \in 0 .. n - 1 \/ k = n
      BY <1>6, <3>1
    <3>3. n \in 0 .. m - 1 /\ \A k \in 0 .. n - 1 : k \in 0 .. m - 1
      BY <1>6, <3>1
    <3>4. New = Old \cup {v}
      BY <1>10, <2>2, <3>2, <3>3
    <3> QED BY <2>1, <2>4, <3>4
  <2> QED BY <2>3, <2>4
<1>15. /\ unkept' \subseteq 1 .. offered'
       /\ Kept(ring, returned)' = (1 .. offered') \ unkept'
  <2>1. Kept(ring, returned)' = Kept(ring', returned)
    BY <1>1 DEF Kept, Pos, R!Reachable
  <2>2. unkept \subseteq 1 .. offered /\ Kept(ring, returned) = (1 .. offered) \ unkept
    BY DEF RingInv
  <2>3. 1 .. offered' = (1 .. offered) \cup {v} /\ v \notin 1 .. offered /\ offered' = v
    BY <1>1, <1>4
  <2> QED BY <1>1, <1>14, <2>1, <2>2, <2>3
<1> QED BY <1>1, <1>5, <1>12, <1>13, <1>15 DEF RingInv

(* The bounded queue returns what it was given in that order, and loses the  *)
(* values it refuses and the one that fills it, no other, for every size and *)
(* any number of calls.                                                      *)
THEOREM RingHolds == R!Spec => []RingRight
<1>1. R!Init => RingInv
  <2> SUFFICES ASSUME R!Init PROVE RingInv
    OBVIOUS
  <2>1. PICK sz \in Nat : /\ ring = R!RingNew(sz) /\ offered = 0 /\ returned = <<>>
                          /\ unkept = {}
    BY DEF R!Init
  <2>2. R!Reachable(ring) = 0 => Kept(ring, returned) = (1 .. offered) \ unkept
    BY <2>1 DEF Kept
  <2>3. CASE sz = 0
    <3>1. ring.size = 0 /\ ring.front = -1 /\ ring.tail = -1
      BY <2>1, <2>3 DEF R!RingNew
    <3>2. R!Reachable(ring) = 0
      BY <3>1 DEF R!Reachable
    <3> QED BY <2>1, <2>2, <3>1, <3>2 DEF RingInv
  <2>4. CASE sz # 0
    <3>1. /\ ring.size = sz /\ ring.front = 0 /\ ring.tail = 0
          /\ ring \in Rings(sz)
      BY <2>1, <2>4 DEF R!RingNew, Rings
    <3>2. R!Reachable(ring) = 0
      BY <3>1 DEF R!Reachable
    <3> QED BY <2>1, <2>2, <2>4, <3>1, <3>2 DEF RingInv, Ordered
  <2> QED BY <2>3, <2>4
<1>2. RingInv /\ [R!Next]_(R!vars) => RingInv'
  <2> SUFFICES ASSUME RingInv, [R!Next]_(R!vars) PROVE RingInv'
    OBVIOUS
  <2>1. CASE R!push
    BY <2>1, PushKeeps
  <2>2. CASE R!pop
    BY <2>2, PopKeeps
  <2>3. CASE /\ UNCHANGED <<ring, returned>>
             /\ \/ UNCHANGED <<offered, unkept>>
                \/ offered' = offered + 1 /\ unkept' = unkept \cup {offered'}
    <3>1. \A k : Pos(ring, k)' = Pos(ring, k)
      BY <2>3 DEF Pos
    <3>2. R!Reachable(ring)' = R!Reachable(ring)
      BY <2>3 DEF R!Reachable
    <3>3. Kept(ring, returned)' = Kept(ring, returned)
      BY <2>3 DEF Kept, Pos, R!Reachable
    <3>4. /\ offered \in Nat /\ offered' \in Nat /\ offered <= offered'
          /\ returned \in Seq(Nat)
      BY <2>3 DEF RingInv
    <3>5. \A j \in 1 .. Len(returned) : returned[j] <= offered'
      BY <3>4 DEF RingInv
    <3>6. Ordered => Ordered'
      <4> SUFFICES ASSUME Ordered PROVE Ordered'
        OBVIOUS
      <4>1. ASSUME NEW k \in 0 .. R!Reachable(ring) - 1
            PROVE  ring.item[Pos(ring, k)] <= offered'
        <5>1. k \in 0 .. ring.size - 1
          BY Positions DEF Ordered
        <5>2. ring.item[Pos(ring, k)] \in Nat
          BY <5>1, Positions DEF Ordered, Rings
        <5>3. ring.item[Pos(ring, k)] <= offered
          BY DEF Ordered
        <5> QED BY <3>4, <5>2, <5>3
      <4> QED BY <2>3, <3>1, <3>2, <4>1 DEF Ordered
    <3>7. /\ unkept' \subseteq 1 .. offered'
          /\ Kept(ring, returned)' = (1 .. offered') \ unkept'
      <4>1. unkept \subseteq 1 .. offered /\ Kept(ring, returned) = (1 .. offered) \ unkept
        BY DEF RingInv
      <4>2. offered' = offered + 1 =>
               1 .. offered' = (1 .. offered) \cup {offered'} /\ offered' \notin 1 .. offered
        BY <3>4
      <4> QED BY <2>3, <3>3, <4>1, <4>2
    <3> QED BY <2>3, <3>4, <3>5, <3>6, <3>7 DEF RingInv
  <2>4. R!pushNull => /\ UNCHANGED <<ring, returned>> /\ offered' = offered + 1
                      /\ unkept' = unkept \cup {offered'}
    BY DEF R!pushNull, R!Offer
  <2>5. R!pushIgnored => /\ UNCHANGED <<ring, returned>> /\ offered' = offered + 1
                         /\ unkept' = unkept \cup {offered'}
    BY DEF R!pushIgnored, R!Offer
  <2>6. R!popEmpty \/ UNCHANGED R!vars => UNCHANGED <<ring, returned, offered, unkept>>
    BY DEF R!popEmpty, R!vars
  <2> QED BY <2>1, <2>2, <2>3, <2>4, <2>5, <2>6 DEF R!Next
<1>3. RingInv => R!PopsInOrder
  <2> SUFFICES ASSUME RingInv PROVE R!PopsInOrder
    OBVIOUS
  <2>1. CASE Ordered
    <3>1. PICK sz \in Nat \ {0} : ring.size = sz /\ ring \in Rings(sz)
      BY <2>1 DEF Ordered
    <3>2. R!Reachable(ring) \in 0 .. sz - 1
      BY <3>1, Positions
    <3>3. \A k \in 0 .. sz - 1 : R!At(k) = ring.item[Pos(ring, k)]
      BY <3>1, AtIsPos
    <3>4. ASSUME NEW k \in 0 .. R!Reachable(ring) - 1
          PROVE  /\ \A j \in 1 .. Len(returned) : returned[j] < R!At(k)
                 /\ \A j \in 0 .. k - 1 : R!At(j) < R!At(k)
      <4>1. k \in 0 .. sz - 1 /\ \A j \in 0 .. k - 1 : j \in 0 .. sz - 1
        BY <3>2
      <4> QED BY <2>1, <3>3, <4>1 DEF Ordered
    <3> QED BY <3>4 DEF RingInv, R!PopsInOrder
  <2>2. CASE ring.size = 0 /\ ring.front = -1 /\ ring.tail = -1 /\ returned = <<>>
    <3>1. R!Reachable(ring) = 0
      BY <2>2 DEF R!Reachable
    <3> QED BY <2>2, <3>1 DEF R!PopsInOrder
  <2> QED BY <2>1, <2>2 DEF RingInv
<1>4. RingInv => R!OnlyUnkeptLost
  <2> SUFFICES ASSUME RingInv PROVE R!OnlyUnkeptLost
    OBVIOUS
  <2>1. \A k \in 0 .. R!Reachable(ring) - 1 : R!At(k) = ring.item[Pos(ring, k)]
    <3>1. CASE Ordered
      <4>1. PICK sz \in Nat \ {0} : ring.size = sz /\ ring \in Rings(sz)
        BY <3>1 DEF Ordered
      <4>2. \A k \in 0 .. R!Reachable(ring) - 1 : k \in 0 .. sz - 1
        BY <4>1, Positions
      <4> QED BY <4>1, <4>2, AtIsPos
    <3>2. CASE ring.front = -1 /\ ring.tail = -1
      BY <3>2 DEF R!Reachable
    <3> QED BY <3>1, <3>2 DEF RingInv
  <2>2. DOMAIN returned = 1 .. Len(returned)
    BY DEF RingInv
  <2> QED BY <2>1, <2>2 DEF RingInv, Kept, R!OnlyUnkeptLost
<1> QED BY <1>1, <1>2, <1>3, <1>4, PTL DEF R!Spec, RingRight

HIDE ProgramsAssumption

-----------------------------------------------------------------------------
(* The EJB adaptor *)

(* The last value listed for an attribute is its value, and an attribute not *)
(* listed has its old value.                                                 *)
LastWins(as, set, old) ==
    \A n \in DOMAIN as :
        LET listed == {k \in DOMAIN set : set[k][1] = n}
        IN  /\ \A k \in listed : (\A l \in listed : l <= k) => as[n] = set[k][2]
            /\ listed = {} => as[n] = old[n]

(* The record of the two attributes. *)
IsAttributes(as) == as = [HelloPrefix |-> as.HelloPrefix, EjbJndiName |-> as.EjbJndiName]

(* One turn of the loop for an attribute that can be set. *)
LEMMA AssignedLast ==
    ASSUME NEW as, NEW set \in Seq(A!AttributeArgs), NEW old, IsAttributes(as), LastWins(as, set, old),
           NEW a \in A!AttributeArgs, A!Settable(a)
    PROVE  /\ IsAttributes(A!Assign(as, a))
           /\ LastWins(A!Assign(as, a), Append(set, a), old)
<1> DEFINE new == A!Assign(as, a)
           s == Append(set, a)
<1>1. a[1] \in {"HelloPrefix", "EjbJndiName"}
    BY DEF A!AttributeArgs, A!Settable
<1>2. DOMAIN as = {"HelloPrefix", "EjbJndiName"}
    BY DEF IsAttributes
<1>3. new = [n \in DOMAIN as |-> IF n = a[1] THEN a[2] ELSE as[n]]
    BY DEF A!Assign
<1>4. IsAttributes(new) /\ DOMAIN new = DOMAIN as
    BY <1>1, <1>2, <1>3 DEF IsAttributes
<1>5. /\ Len(set) \in Nat /\ DOMAIN set = 1 .. Len(set)
      /\ DOMAIN s = 1 .. Len(set) + 1 /\ s[Len(set) + 1] = a
      /\ \A k \in 1 .. Len(set) : s[k] = set[k]
    OBVIOUS
<1> HIDE DEF s, new
<1>6. ASSUME NEW n \in DOMAIN new
      PROVE  LET listed == {k \in DOMAIN s : s[k][1] = n}
             IN  /\ \A k \in listed : (\A l \in listed : l <= k) => new[n] = s[k][2]
                 /\ listed = {} => new[n] = old[n]
  <2> DEFINE listed == {k \in DOMAIN s : s[k][1] = n}
             was == {k \in DOMAIN set : set[k][1] = n}
  <2>1. CASE n = a[1]
    <3>1. Len(set) + 1 \in listed /\ new[n] = a[2]
      BY <1>3, <1>4, <1>5, <2>1
    <3>2. ASSUME NEW k \in listed, \A l \in listed : l <= k PROVE k = Len(set) + 1
      BY <1>5, <3>1, <3>2
    <3> QED BY <1>5, <3>1, <3>2
  <2>2. CASE n # a[1]
    <3>1. listed = was
      BY <1>5, <2>2
    <3>2. new[n] = as[n] /\ n \in DOMAIN as
      BY <1>3, <1>4, <2>2
    <3>3. /\ \A k \in was : (\A l \in was : l <= k) => as[n] = set[k][2]
          /\ was = {} => as[n] = old[n]
      BY <3>2 DEF LastWins
    <3>4. \A k \in was : s[k] = set[k]
      BY <1>5
    <3> QED BY <3>1, <3>2, <3>3, <3>4
  <2> QED BY <2>1, <2>2
<1> QED BY <1>4, <1>6 DEF LastWins, new, s

(* The loop of setAttributes turn by turn: what it has done after k elements *)
(* of the list.                                                              *)
NoTurn == [as |-> A!Attributes, set |-> <<>>]
Turn(r, a) ==
    IF A!Settable(a) THEN [as |-> A!Assign(r.as, a), set |-> Append(r.set, a)] ELSE r
Turns(list, n, f) ==
    f = [k \in 0 .. n |-> IF k = 0 THEN NoTurn ELSE Turn(f[k - 1], list[k])]

(* The loop can be run, whatever the list. *)
LEMMA TurnsExist == ASSUME NEW list PROVE \A n \in Nat : \E f : Turns(list, n, f)
<1> DEFINE X == {n \in Nat : \E f : Turns(list, n, f)}
<1>1. 0 \in X
  <2>1. Turns(list, 0, [k \in 0 .. 0 |-> NoTurn])
    BY DEF Turns
  <2> QED BY <2>1
<1>2. ASSUME NEW n \in Nat, n \in X PROVE n + 1 \in X
  <2>1. PICK f : Turns(list, n, f)
    BY <1>2
  <2> DEFINE g == [k \in 0 .. n + 1 |-> IF k <= n THEN f[k] ELSE Turn(f[n], list[n + 1])]
  <2>2. ASSUME NEW k \in 0 .. n + 1
        PROVE  g[k] = IF k = 0 THEN NoTurn ELSE Turn(g[k - 1], list[k])
    <3>1. CASE k = 0
      BY <2>1, <3>1 DEF Turns
    <3>2. CASE k \in 1 .. n
      <4>1. f[k] = Turn(f[k - 1], list[k])
        BY <2>1, <3>2 DEF Turns
      <4>2. g[k] = f[k] /\ g[k - 1] = f[k - 1] /\ k # 0
        BY <3>2
      <4> QED BY <4>1, <4>2
    <3>3. CASE k = n + 1
      BY <3>3
    <3> QED BY <3>1, <3>2, <3>3
  <2>3. Turns(list, n + 1, g)
    BY <2>2 DEF Turns
  <2> HIDE DEF g
  <2> QED BY <2>3
<1> HIDE DEF X
<1>3. \A n \in Nat : n \in X
    BY <1>1, <1>2, Induct
<1> QED BY <1>3 DEF X

(* Whatever the list, what the loop reports is what it has set. *)
LEMMA LoopRight ==
    ASSUME NEW list \in Seq(A!AttributeArgs)
    PROVE  LET res == A!Loop(list)
           IN  IsAttributes(res.as) /\ LastWins(res.as, res.set, A!Attributes)
<1> DEFINE g == CHOOSE f : Turns(list, Len(list), f)
<1>1. Turns(list, Len(list), g)
  <2>1. Len(list) \in Nat
    OBVIOUS
  <2>2. \E f : Turns(list, Len(list), f)
    BY <2>1, TurnsExist
  <2> QED BY <2>2
<1>2. A!Loop(list) = g[Len(list)]
    BY DEF A!Loop, Turns, Turn, NoTurn
<1> HIDE DEF g
<1>3. g[0] = NoTurn /\ \A k \in 1 .. Len(list) : g[k] = Turn(g[k - 1], list[k])
  <2>1. \A k \in 0 .. Len(list) :
            g[k] = IF k = 0 THEN NoTurn ELSE Turn(g[k - 1], list[k])
    BY <1>1 DEF Turns
  <2> QED BY <2>1
<1> DEFINE Right(r) == /\ r.set \in Seq(A!AttributeArgs)
                       /\ IsAttributes(r.as) /\ LastWins(r.as, r.set, A!Attributes)
           X == {n \in Nat : n <= Len(list) => Right(g[n])}
<1>4. 0 \in X
  <2>1. g[0].as = A!Attributes /\ g[0].set = <<>>
    BY <1>3 DEF NoTurn
  <2>2. IsAttributes(A!Attributes) /\ LastWins(A!Attributes, <<>>, A!Attributes)
    BY DEF IsAttributes, LastWins, A!Attributes
  <2>3. <<>> \in Seq(A!AttributeArgs)
    OBVIOUS
  <2>4. Right(g[0])
    BY <2>1, <2>2, <2>3
  <2> HIDE DEF Right
  <2> QED BY <2>4
<1>5. ASSUME NEW n \in Nat, n \in X PROVE n + 1 \in X
  <2> SUFFICES ASSUME n + 1 <= Len(list) PROVE Right(g[n + 1])
    OBVIOUS
  <2>1. n + 1 \in 1 .. Len(list) /\ (n + 1) - 1 = n /\ n <= Len(list)
    OBVIOUS
  <2> DEFINE a == list[n + 1]
  <2>2. a \in A!AttributeArgs /\ Right(g[n])
    BY <1>5, <2>1
  <2>3. g[n + 1] = Turn(g[n], a)
    BY <1>3, <2>1
  <2> HIDE DEF a
  <2>4. CASE A!Settable(a)
    <3>1. g[n + 1].as = A!Assign(g[n].as, a) /\ g[n + 1].set = Append(g[n].set, a)
      BY <2>3, <2>4 DEF Turn
    <3>2. /\ IsAttributes(A!Assign(g[n].as, a))
          /\ LastWins(A!Assign(g[n].as, a), Append(g[n].set, a), A!Attributes)
      BY <2>2, <2>4, AssignedLast
    <3>3. Append(g[n].set, a) \in Seq(A!AttributeArgs)
      BY <2>2
    <3> QED BY <3>1, <3>2, <3>3
  <2>5. CASE ~A!Settable(a)
    BY <2>2, <2>3, <2>5 DEF Turn
  <2> QED BY <2>4, <2>5
<1> HIDE DEF X
<1>6. Len(list) \in X
  <2>1. Len(list) \in Nat
    OBVIOUS
  <2>2. \A n \in Nat : n \in X
    BY <1>4, <1>5, Induct
  <2> QED BY <2>1, <2>2
<1> QED BY <1>2, <1>6 DEF X

(* A started adaptor has looked up a home, which is a name and not null. *)
AdaptorInv ==
    /\ deployed \subseteq JndiNames
    /\ astate = "STARTED" => home # NULL /\ echoed # "npe"
    /\ reported # <<>> => LastWins(A!Attributes, reported, before)

(* What setAttributes reports is set, for lists of any length, and echo of a *)
(* started adaptor never meets a null home.                                  *)
THEOREM AdaptorHolds == A!Spec => []AdaptorConsistent
<1> USE ProgramsAssumption
<1>1. A!Init => AdaptorInv
    BY DEF A!Init, AdaptorInv
<1>2. AdaptorInv /\ [A!Next]_(A!vars) => AdaptorInv'
  <2> SUFFICES ASSUME AdaptorInv, [A!Next]_(A!vars) PROVE AdaptorInv'
    OBVIOUS
  <2> USE DEF AdaptorInv, A!NoResult, A!attributeVars, A!lastCall
  <2>1. CASE A!preRegister
    <3>1. UNCHANGED A!Attributes
      BY <2>1 DEF A!preRegister, A!Attributes
    <3> QED BY <2>1, <3>1 DEF A!preRegister, LastWins
  <2>2. CASE A!create
    BY <2>2 DEF A!create
  <2>3. CASE A!start
    BY <2>3 DEF A!start, A!startService
  <2>4. CASE A!stop
    BY <2>4 DEF A!stop
  <2>5. CASE A!destroy
    BY <2>5 DEF A!destroy
  <2>6. CASE A!echo
    BY <2>6 DEF A!echo
  <2>7. CASE A!Redeploy
    <3>1. UNCHANGED A!Attributes
      BY <2>7 DEF A!Redeploy, A!Attributes
    <3> QED BY <2>7, <3>1 DEF A!Redeploy, LastWins
  <2>8. ASSUME NEW n \in 1 .. MaxAttributes, NEW list \in [1 .. n -> A!AttributeArgs],
               A!setAttributes(list)
        PROVE  AdaptorInv'
    <3>1. list \in Seq(A!AttributeArgs)
      OBVIOUS
    <3> DEFINE res == A!Loop(list)
    <3>2. IsAttributes(res.as) /\ LastWins(res.as, res.set, A!Attributes)
      BY <3>1, LoopRight
    <3>3. A!Attributes' = res.as /\ reported' = res.set /\ before' = A!Attributes
      BY <2>8, <3>2 DEF A!setAttributes, A!Assigned, A!Attributes, IsAttributes
    <3>4. LastWins(A!Attributes, reported, before)'
      BY <3>2, <3>3 DEF LastWins
    <3> QED BY <2>8, <3>4 DEF A!setAttributes
  <2>9. CASE UNCHANGED A!vars
    <3>1. UNCHANGED A!Attributes
      BY <2>9 DEF A!vars, A!Attributes
    <3> QED BY <2>9, <3>1 DEF A!vars, LastWins
  <2> QED BY <2>1, <2>2, <2>3, <2>4, <2>5, <2>6, <2>7, <2>8, <2>9 DEF A!Next
<1>3. AdaptorInv => AdaptorConsistent
    BY DEF AdaptorInv, AdaptorConsistent, A!AdaptorConsistent, LastWins
<1> QED BY <1>1, <1>2, <1>3, PTL DEF A!Spec

-----------------------------------------------------------------------------
(* The JMS examples *)

(* The operators of the specification, for a sequence. *)
LEMMA SameElems ==
    ASSUME NEW Z, NEW s \in Seq(Z)
    PROVE  J!ToSet(s) = Elems(s) /\ (J!IsInjective(s) <=> NoRepeat(s))
    BY DEF J!ToSet, J!IsInjective, Elems, NoRepeat

(* Messages, those that were sent, and whether clients share what they read. *)
Msg == Clients \X Nat
Made == {m \in Msg : 1 <= m[2] /\ m[2] <= sent[m[1]]}
Shared == J!Queue \/ J!Durable

(* What a client held when it died, and what it received for good. *)
Held(c) == IF jpc[c] = "dead" THEN unacked[c] ELSE {}
Keeps(c) == Elems(got[c]) \ Held(c)

(* What the queue and the subscriptions are and who has one. *)
BoxInv ==
    /\ J!Queue => DOMAIN boxes = {"A"}
    /\ J!Durable => DOMAIN boxes \subseteq {"D"}
    /\ ~Shared => \A c \in DOMAIN boxes : c \in Clients /\ jpc[c] # "new"
    /\ \A c \in Clients : J!Connected(c) /\ role[c] # "sender" => J!Box(c) \in DOMAIN boxes

(* A client counts what it receives. *)
ClientInv ==
    /\ jpc \in [Clients -> {"new", "send", "acquire", "receive", "stop", "end", "dead"}]
    /\ sent \in [Clients -> Nat] /\ done \in [Clients -> Int]
    /\ role \in [Clients -> {"both", "sender", "receiver"}]
    /\ \A c \in Clients :
          /\ sent[c] <= J!Quota
          /\ jpc[c] = "send" => sent[c] < J!Quota
          /\ jpc[c] = "new" => sent[c] = 0 /\ got[c] = <<>>
          /\ jpc[c] = "receive" => role[c] = "receiver"
          /\ role[c] = "both" =>
                /\ done[c] = J!Quota - Len(got[c])
                /\ jpc[c] \in {"stop", "end"} => Len(got[c]) >= J!Quota

(* A listener has one message at a time, which was received. *)
AckInv ==
    /\ unacked \in [Clients -> SUBSET Msg]
    /\ \A c \in Clients :
          \/ unacked[c] = {}
          \/ role[c] = "both" /\ \E m \in Elems(got[c]) : unacked[c] = {m}

(* A request or answer is in one place: waiting for TextMDB, in its hands,   *)
(* in a queue, or received for good; a topic has a copy for every            *)
(* subscription.                                                             *)
PlaceInv ==
    /\ requests \in Seq(Msg) /\ NoRepeat(requests)
    /\ Elems(requests) \subseteq Made /\ hand \subseteq Made
    /\ Elems(requests) \cap hand = {}
    /\ got \in [Clients -> Seq(Msg)]
    /\ \A c \in Clients :
          /\ NoRepeat(got[c])
          /\ Elems(got[c]) \subseteq Made \ (hand \cup Elems(requests))
          /\ J!Box(c) \in DOMAIN boxes => Keeps(c) \cap Elems(boxes[J!Box(c)]) = {}
    /\ \A b \in DOMAIN boxes :
          /\ boxes[b] \in Seq(Msg) /\ NoRepeat(boxes[b])
          /\ Elems(boxes[b]) \subseteq Made \ (hand \cup Elems(requests))
    /\ Shared => \A c, d \in Clients : c # d => Keeps(c) \cap Keeps(d) = {}

(* The durable subscription is all that was ever published, once it is there.*)
DurableInv ==
    /\ published \in Seq(Msg)
    /\ J!Durable =>
          IF "D" \in DOMAIN boxes
          THEN Elems(published) = Elems(boxes["D"]) \cup UNION {Keeps(c) : c \in Clients}
          ELSE published = <<>> /\ \A c \in Clients : got[c] = <<>>

JmsInv == BoxInv /\ ClientInv /\ AckInv /\ PlaceInv /\ DurableInv

(* The queue or subscription of a client, by the kind of the example. *)
LEMMA BoxIs ==
    /\ J!Queue => ~J!Durable /\ \A c : J!Box(c) = "A"
    /\ J!Durable => ~J!Queue /\ \A c : J!Box(c) = "D"
    /\ ~Shared => \A c : J!Box(c) = c
    BY DEF Shared, J!Queue, J!Durable, J!Box

(* Every client has at least one message to send. *)
LEMMA QuotaIs == J!Quota \in Nat /\ J!Quota > 0
    BY ProgramsAssumption DEF J!Quota, J!Mdb

(* What follows from the kind stays with the kind. *)
LEMMA KindKept ==
    ASSUME UNCHANGED kind
    PROVE  /\ J!Quota' = J!Quota /\ Shared' = Shared /\ J!Queue' = J!Queue
           /\ J!Durable' = J!Durable /\ J!Mdb' = J!Mdb
           /\ \A c : J!Box(c)' = J!Box(c)
    BY DEF J!Quota, Shared, J!Queue, J!Durable, J!Mdb, J!Box

(* The property follows: a lone client that has as many messages as it sent, *)
(* none twice, has them all.                                                 *)
LEMMA InvRight == JmsInv => AnswersRight
<1> SUFFICES ASSUME JmsInv PROVE J!AnswersRight
    BY DEF AnswersRight
<1> USE DEF JmsInv
<1>1. ASSUME NEW c \in Clients
      PROVE  /\ J!ToSet(got[c]) = Elems(got[c]) /\ J!IsInjective(got[c])
             /\ J!Kept(c) = Keeps(c)
  <2>1. got[c] \in Seq(Msg) /\ NoRepeat(got[c])
    BY DEF PlaceInv
  <2>2. J!ToSet(got[c]) = Elems(got[c]) /\ J!IsInjective(got[c])
    BY <2>1, SameElems
  <2> QED BY <2>2, Zenon DEF J!Kept, Keeps, Held
<1>2. Shared => \A c, d \in Clients : c # d => J!Kept(c) \cap J!Kept(d) = {}
    BY <1>1 DEF PlaceInv
<1>3. ASSUME NEW c \in Clients, role[c] = "both", jpc[c] = "end"
      PROVE  /\ Len(got[c]) >= J!Quota
             /\ (\A d \in Clients \ {c} : jpc[d] = "new") => J!ToSet(got[c]) = J!Own(c)
  <2>1. Len(got[c]) >= J!Quota /\ sent[c] \in Nat /\ sent[c] <= J!Quota
    BY <1>3 DEF ClientInv
  <2> SUFFICES ASSUME \A d \in Clients \ {c} : jpc[d] = "new" PROVE Elems(got[c]) = J!Own(c)
    BY <1>1, <2>1
  <2>2. \A d \in Clients \ {c} : sent[d] = 0
    BY DEF ClientInv
  <2>3. Elems(got[c]) \subseteq Made
    BY DEF PlaceInv
  <2>4. ASSUME NEW m \in Made PROVE m \in {<<c, k>> : k \in 1 .. J!Quota}
    <3>1. m = <<m[1], m[2]>> /\ m[1] \in Clients /\ m[2] \in Nat /\ 1 <= m[2] /\ m[2] <= sent[m[1]]
      BY DEF Made, Msg
    <3>2. m[1] = c
      BY <2>2, <3>1
    <3>3. m[2] \in 1 .. J!Quota
      BY <2>1, <3>1, <3>2, QuotaIs
    <3> QED BY <3>1, <3>2, <3>3
  <2>5. got[c] \in Seq(Msg) /\ NoRepeat(got[c])
    BY DEF PlaceInv
  <2>6. Elems(got[c]) \subseteq Numbered(c, J!Quota)
    BY <2>3, <2>4 DEF Numbered
  <2>7. Elems(got[c]) = Numbered(c, J!Quota)
    BY <2>1, <2>5, <2>6, QuotaIs, AllOfThem
  <2> QED BY <2>7 DEF J!Own, Numbered
<1>4. J!DurableKeeps
  <2> SUFFICES ASSUME J!Durable, published # <<>>
               PROVE  /\ "D" \in DOMAIN boxes
                      /\ J!ToSet(published) =
                            J!ToSet(boxes["D"]) \cup UNION {J!Kept(c) : c \in Clients}
    BY DEF J!DurableKeeps
  <2>1. "D" \in DOMAIN boxes /\ published \in Seq(Msg)
        /\ Elems(published) = Elems(boxes["D"]) \cup UNION {Keeps(c) : c \in Clients}
    BY DEF DurableInv
  <2>2. boxes["D"] \in Seq(Msg)
    BY <2>1 DEF PlaceInv
  <2>3. J!ToSet(published) = Elems(published) /\ J!ToSet(boxes["D"]) = Elems(boxes["D"])
    BY <2>1, <2>2, SameElems
  <2>4. {J!Kept(c) : c \in Clients} = {Keeps(c) : c \in Clients}
    BY <1>1
  <2> QED BY <2>1, <2>3, <2>4
<1> QED BY <1>1, <1>2, <1>3, <1>4 DEF J!AnswersRight, Shared

(* A message goes from the head of a queue or subscription to a client that  *)
(* reads it.                                                                 *)
LEMMA Delivered ==
    ASSUME PlaceInv, DurableInv, UNCHANGED <<kind, sent, requests, hand, published>>,
           NEW c \in Clients, J!Box(c) \in DOMAIN boxes, boxes[J!Box(c)] # <<>>,
           got' = [got EXCEPT ![c] = Append(@, Head(boxes[J!Box(c)]))],
           boxes' = [boxes EXCEPT ![J!Box(c)] = Tail(@)],
           Held(c) = {}, \A d \in Clients : Held(d)' = Held(d)
    PROVE  /\ PlaceInv' /\ DurableInv' /\ DOMAIN boxes' = DOMAIN boxes
           /\ Len(got'[c]) = Len(got[c]) + 1
           /\ Elems(got'[c]) = Elems(got[c]) \cup {Head(boxes[J!Box(c)])}
           /\ Head(boxes[J!Box(c)]) \in Msg
           /\ \A d \in Clients : d # c => got'[d] = got[d]
<1> DEFINE b == J!Box(c)
           m == Head(boxes[b])
           Now(d) == Elems(got'[d]) \ Held(d)
<1>1. /\ boxes[b] \in Seq(Msg) /\ NoRepeat(boxes[b])
      /\ got[c] \in Seq(Msg) /\ NoRepeat(got[c]) /\ Elems(got[c]) \cap Elems(boxes[b]) = {}
    BY DEF PlaceInv, Keeps
<1>2. /\ m \in Msg /\ m \in Elems(boxes[b])
      /\ Tail(boxes[b]) \in Seq(Msg) /\ NoRepeat(Tail(boxes[b]))
      /\ Elems(Tail(boxes[b])) = Elems(boxes[b]) \ {m}
    BY <1>1, HeadTaken
<1>3. /\ Elems(Append(got[c], m)) = Elems(got[c]) \cup {m} /\ NoRepeat(Append(got[c], m))
      /\ Append(got[c], m) \in Seq(Msg) /\ Len(Append(got[c], m)) = Len(got[c]) + 1
  <2>1. m \notin Elems(got[c])
    BY <1>1, <1>2
  <2>2. Append(got[c], m) \in Seq(Msg) /\ Len(Append(got[c], m)) = Len(got[c]) + 1
    BY <1>1, <1>2
  <2> QED BY <1>1, <1>2, <2>1, <2>2, LinkOne
<1>4. /\ J!Durable' = J!Durable /\ Shared' = Shared
      /\ \A d : J!Box(d)' = J!Box(d)
    BY KindKept
<1>5. Made' = Made
    BY DEF Made
<1>6. /\ got' \in [Clients -> Seq(Msg)] /\ got'[c] = Append(got[c], m)
      /\ \A d \in Clients : d # c => got'[d] = got[d]
  <2>1. got \in [Clients -> Seq(Msg)]
    BY DEF PlaceInv
  <2> HIDE DEF b, m
  <2>2. got' = [got EXCEPT ![c] = Append(got[c], m)]
    BY DEF b, m
  <2> QED BY <1>3, <2>1, <2>2
<1>7. /\ DOMAIN boxes' = DOMAIN boxes /\ boxes'[b] = Tail(boxes[b])
      /\ \A a \in DOMAIN boxes : a # b => boxes'[a] = boxes[a]
    OBVIOUS
<1>8. Shared => \A d \in Clients : J!Box(d) = b
    BY BoxIs DEF Shared
<1>17. /\ \A d \in Clients : Keeps(d)' = Now(d)
       /\ Now(c) = Keeps(c) \cup {m} /\ \A d \in Clients : d # c => Now(d) = Keeps(d)
    BY <1>3, <1>6 DEF Keeps
<1> HIDE DEF b, m, Now
<1>9. \A d \in Clients : Elems(got[d]) \subseteq Made \ (hand \cup Elems(requests))
      /\ (J!Box(d) \in DOMAIN boxes => Keeps(d) \cap Elems(boxes[J!Box(d)]) = {})
      /\ NoRepeat(got[d])
    BY DEF PlaceInv
<1>10. \A a \in DOMAIN boxes : Elems(boxes[a]) \subseteq Made \ (hand \cup Elems(requests))
       /\ boxes[a] \in Seq(Msg) /\ NoRepeat(boxes[a])
    BY DEF PlaceInv
<1>11. b \in DOMAIN boxes /\ m \in Made \ (hand \cup Elems(requests))
    BY <1>2, <1>10 DEF b
<1>12. ASSUME NEW d \in Clients
       PROVE  /\ NoRepeat(got'[d])
              /\ Elems(got'[d]) \subseteq Made \ (hand \cup Elems(requests))
              /\ J!Box(d) \in DOMAIN boxes => Now(d) \cap Elems(boxes'[J!Box(d)]) = {}
  <2>1. CASE d = c
    <3>1. J!Box(d) = b
      BY <2>1 DEF b
    <3> QED BY <1>1, <1>2, <1>3, <1>6, <1>7, <1>9, <1>11, <1>17, <2>1, <3>1
  <2>2. CASE d # c
    <3>1. got'[d] = got[d]
      BY <1>6, <2>2
    <3>2. J!Box(d) \in DOMAIN boxes => Elems(boxes'[J!Box(d)]) \subseteq Elems(boxes[J!Box(d)])
      BY <1>2, <1>7
    <3> QED BY <1>9, <1>17, <2>2, <3>1, <3>2
  <2> QED BY <2>1, <2>2
<1>13. ASSUME NEW a \in DOMAIN boxes
       PROVE  /\ boxes'[a] \in Seq(Msg) /\ NoRepeat(boxes'[a])
              /\ Elems(boxes'[a]) \subseteq Made \ (hand \cup Elems(requests))
    BY <1>2, <1>7, <1>10
<1>14. ASSUME Shared, NEW d \in Clients, NEW e \in Clients, d # e
       PROVE  Now(d) \cap Now(e) = {}
  <2>1. Keeps(d) \cap Keeps(e) = {}
    BY <1>14 DEF PlaceInv
  <2>2. m \notin Keeps(d) /\ m \notin Keeps(e)
    BY <1>2, <1>8, <1>9, <1>11, <1>14
  <2> QED BY <1>14, <1>17, <2>1, <2>2
<1>15. PlaceInv'
    BY <1>4, <1>5, <1>6, <1>7, <1>12, <1>13, <1>14, <1>17 DEF PlaceInv
<1>16. DurableInv'
  <2> SUFFICES ASSUME J!Durable
               PROVE  IF "D" \in DOMAIN boxes'
                      THEN Elems(published') = Elems(boxes'["D"]) \cup UNION {Now(d) : d \in Clients}
                      ELSE published' = <<>> /\ \A d \in Clients : got'[d] = <<>>
    <3>1. {Keeps(d)' : d \in Clients} = {Now(d) : d \in Clients}
      BY <1>17
    <3>2. published \in Seq(Msg)
      BY DEF DurableInv
    <3> QED BY <1>4, <3>1, <3>2 DEF DurableInv
  <2>1. b = "D"
    BY BoxIs DEF b
  <2>2. Elems(published) = Elems(boxes["D"]) \cup UNION {Keeps(d) : d \in Clients}
    BY <1>11, <2>1 DEF DurableInv
  <2>3. UNION {Now(d) : d \in Clients} = {m} \cup UNION {Keeps(d) : d \in Clients}
    <3>1. ASSUME NEW x
          PROVE  (\E d \in Clients : x \in Now(d)) <=> x = m \/ \E d \in Clients : x \in Keeps(d)
      BY <1>17
    <3> QED BY <3>1
  <2>4. Elems(boxes'["D"]) = Elems(boxes["D"]) \ {m}
    BY <1>2, <1>7, <2>1
  <2>5. "D" \in DOMAIN boxes' /\ m \in Elems(boxes["D"])
    BY <1>2, <1>7, <1>11, <2>1
  <2> DEFINE E0 == Elems(boxes["D"])
             E1 == Elems(boxes'["D"])
             U0 == UNION {Keeps(d) : d \in Clients}
             U1 == UNION {Now(d) : d \in Clients}
  <2>6. E1 = E0 \ {m} /\ U1 = {m} \cup U0 /\ m \in E0 /\ Elems(published) = E0 \cup U0
    BY <2>2, <2>3, <2>4, <2>5
  <2> HIDE DEF E0, E1, U0, U1
  <2>7. Elems(published) = E1 \cup U1
    BY <2>6
  <2>8. published' = published
    OBVIOUS
  <2> QED BY <2>5, <2>7, <2>8 DEF E1, U1
<1>18. m = Head(boxes[J!Box(c)])
    BY DEF b, m
<1> QED BY <1>2, <1>3, <1>6, <1>7, <1>15, <1>16, <1>18, Zenon

(* Subscriptions come empty, and go. *)
LEMMA Reboxed ==
    ASSUME PlaceInv, DurableInv, UNCHANGED <<kind, sent, got, requests, hand, published>>,
           \A b \in DOMAIN boxes' : boxes'[b] = IF b \in DOMAIN boxes THEN boxes[b] ELSE <<>>,
           J!Durable => DOMAIN boxes \subseteq DOMAIN boxes',
           \A d \in Clients : Held(d) \subseteq Held(d)' /\ (Shared => Held(d)' = Held(d))
    PROVE  PlaceInv' /\ DurableInv'
<1>7. \A d \in Clients : Keeps(d)' \subseteq Keeps(d) /\ (Shared => Keeps(d)' = Keeps(d))
    BY DEF Keeps
<1>1. /\ J!Durable' = J!Durable /\ Shared' = Shared
      /\ \A d : J!Box(d)' = J!Box(d)
    BY KindKept
<1>2. Made' = Made
    BY DEF Made
<1>3. Elems(<<>>) = {} /\ NoRepeat(<<>>) /\ <<>> \in Seq(Msg)
    BY NoElems
<1>4. ASSUME NEW b \in DOMAIN boxes'
      PROVE  /\ boxes'[b] \in Seq(Msg) /\ NoRepeat(boxes'[b])
             /\ Elems(boxes'[b]) \subseteq Made \ (hand \cup Elems(requests))
             /\ \A c \in Clients : J!Box(c) = b => Keeps(c) \cap Elems(boxes'[b]) = {}
  <2>1. CASE b \in DOMAIN boxes
    <3>1. boxes'[b] = boxes[b]
      BY <2>1
    <3> QED BY <2>1, <3>1 DEF PlaceInv
  <2>2. CASE b \notin DOMAIN boxes
    <3>1. boxes'[b] = <<>>
      BY <2>2
    <3> QED BY <1>3, <3>1
  <2> QED BY <2>1, <2>2
<1>5. PlaceInv'
  <2>1. ASSUME NEW c \in Clients
        PROVE  J!Box(c) \in DOMAIN boxes' => Keeps(c) \cap Elems(boxes'[J!Box(c)]) = {}
    BY <1>4
  <2> QED BY <1>1, <1>2, <1>4, <1>7, <2>1 DEF PlaceInv
<1>6. DurableInv'
  <2> SUFFICES ASSUME J!Durable
               PROVE  IF "D" \in DOMAIN boxes'
                      THEN Elems(published) = Elems(boxes'["D"]) \cup UNION {Keeps(d) : d \in Clients}
                      ELSE published = <<>> /\ \A d \in Clients : got[d] = <<>>
    <3>1. J!Durable => Shared
      BY DEF Shared
    <3>2. J!Durable => \A d \in Clients : Keeps(d)' = Keeps(d)
      BY <1>7, <3>1
    <3>3. J!Durable => {Keeps(d)' : d \in Clients} = {Keeps(d) : d \in Clients}
      BY <3>2
    <3> QED BY <1>1, <3>3 DEF DurableInv
  <2>1. CASE "D" \in DOMAIN boxes
    <3>1. "D" \in DOMAIN boxes' /\ boxes'["D"] = boxes["D"]
      BY <2>1
    <3> QED BY <2>1, <3>1 DEF DurableInv
  <2>2. CASE "D" \notin DOMAIN boxes
    <3>1. published = <<>> /\ \A d \in Clients : got[d] = <<>>
      BY <2>2 DEF DurableInv
    <3>2. "D" \in DOMAIN boxes' => boxes'["D"] = <<>>
      BY <2>2
    <3>3. UNION {Keeps(d) : d \in Clients} = {}
      BY <1>3, <3>1 DEF Keeps
    <3> QED BY <1>3, <3>1, <3>2, <3>3
  <2> QED BY <2>1, <2>2
<1> QED BY <1>5, <1>6

(* What a client held when it died is the head of its queue again. *)
LEMMA Prepended ==
    ASSUME NEW Z, NEW s \in Seq(Z), NEW x \in Z, x \notin Elems(s), NoRepeat(s)
    PROVE  /\ <<x>> \o s \in Seq(Z) /\ NoRepeat(<<x>> \o s)
           /\ Elems(<<x>> \o s) = Elems(s) \cup {x}
<1> DEFINE t == <<x>> \o s
<1>1. /\ Len(s) \in Nat /\ t \in Seq(Z) /\ Len(t) = Len(s) + 1 /\ t[1] = x
      /\ \A k \in 1 .. Len(s) : t[k + 1] = s[k]
    OBVIOUS
<1>2. \A k \in 1 .. Len(t) : k = 1 \/ (k - 1 \in 1 .. Len(s) /\ t[k] = s[k - 1])
  <2> TAKE k \in 1 .. Len(t)
  <2>1. k # 1 => k - 1 \in 1 .. Len(s) /\ (k - 1) + 1 = k
    BY <1>1
  <2> QED BY <1>1, <2>1
<1>3. \A k \in 1 .. Len(s) : k + 1 \in 1 .. Len(t) /\ 1 \in 1 .. Len(t)
    BY <1>1
<1>4. 1 \in 1 .. Len(t)
    BY <1>1
<1> HIDE DEF t
<1>5. Elems(t) = Elems(s) \cup {x}
  <2>1. ASSUME NEW y \in Elems(t) PROVE y \in Elems(s) \cup {x}
    <3>1. PICK k \in 1 .. Len(t) : y = t[k]
      BY DEF Elems
    <3>2. k = 1 \/ (k - 1 \in 1 .. Len(s) /\ t[k] = s[k - 1])
      BY <1>2
    <3> QED BY <1>1, <3>1, <3>2 DEF Elems
  <2>2. ASSUME NEW y \in Elems(s) PROVE y \in Elems(t)
    BY <1>1, <1>3, <2>2 DEF Elems
  <2>3. x \in Elems(t)
    BY <1>1, <1>4 DEF Elems
  <2> QED BY <2>1, <2>2, <2>3
<1>6. NoRepeat(t)
  <2>1. ASSUME NEW i \in 1 .. Len(t), NEW j \in 1 .. Len(t), t[i] = t[j] PROVE i = j
    <3>1. \A k \in 1 .. Len(s) : s[k] # x
      BY DEF Elems
    <3>2. CASE i = 1 \/ j = 1
      BY <1>1, <1>2, <2>1, <3>1, <3>2
    <3>3. CASE i # 1 /\ j # 1
      <4>1. /\ i - 1 \in 1 .. Len(s) /\ j - 1 \in 1 .. Len(s) /\ s[i - 1] = s[j - 1]
        BY <1>2, <2>1, <3>3
      <4>2. i - 1 = j - 1
        BY <4>1 DEF NoRepeat
      <4> QED BY <4>2
    <3> QED BY <3>2, <3>3
  <2> QED BY <2>1 DEF NoRepeat
<1> QED BY <1>1, <1>5, <1>6 DEF t

LEMMA Redelivered ==
    ASSUME PlaceInv, DurableInv, Shared,
           UNCHANGED <<kind, sent, got, requests, hand, published>>,
           NEW c \in Clients, NEW m \in Msg, m \in Elems(got[c]), J!Box(c) \in DOMAIN boxes,
           boxes' = [b \in DOMAIN boxes |-> IF b = J!Box(c) THEN <<m>> \o boxes[b] ELSE boxes[b]],
           Held(c) = {}, Held(c)' = {m}, \A d \in Clients : d # c => Held(d)' = Held(d)
    PROVE  PlaceInv' /\ DurableInv' /\ DOMAIN boxes' = DOMAIN boxes
<1> DEFINE b == J!Box(c)
<1>1. /\ J!Durable' = J!Durable /\ Shared' = Shared
      /\ \A d : J!Box(d)' = J!Box(d)
    BY KindKept
<1>2. Made' = Made
    BY DEF Made
<1>3. /\ boxes[b] \in Seq(Msg) /\ NoRepeat(boxes[b]) /\ m \notin Elems(boxes[b])
      /\ Elems(got[c]) \subseteq Made \ (hand \cup Elems(requests)) /\ m \in Keeps(c)
    BY DEF PlaceInv, Keeps
<1>4. /\ <<m>> \o boxes[b] \in Seq(Msg) /\ NoRepeat(<<m>> \o boxes[b])
      /\ Elems(<<m>> \o boxes[b]) = Elems(boxes[b]) \cup {m}
    BY <1>3, Prepended
<1>5. /\ DOMAIN boxes' = DOMAIN boxes /\ boxes'[b] = <<m>> \o boxes[b]
      /\ \A a \in DOMAIN boxes : a # b => boxes'[a] = boxes[a]
    OBVIOUS
<1>6. \A d \in Clients : J!Box(d) = b
    BY BoxIs DEF Shared
<1> HIDE DEF b
<1>7. /\ Keeps(c)' = Keeps(c) \ {m}
      /\ \A d \in Clients : d # c => Keeps(d)' = Keeps(d) /\ m \notin Keeps(d)
  <2>1. \A d \in Clients : d # c => Keeps(c) \cap Keeps(d) = {}
    BY DEF PlaceInv
  <2> QED BY <1>3, <2>1 DEF Keeps
<1>8. ASSUME NEW a \in DOMAIN boxes
      PROVE  /\ boxes'[a] \in Seq(Msg) /\ NoRepeat(boxes'[a])
             /\ Elems(boxes'[a]) \subseteq Made \ (hand \cup Elems(requests))
  <2>1. CASE a = b
    <3>1. Elems(boxes[b]) \subseteq Made \ (hand \cup Elems(requests))
      BY <2>1 DEF PlaceInv
    <3> QED BY <1>3, <1>4, <1>5, <2>1, <3>1
  <2>2. CASE a # b
    BY <1>5, <2>2 DEF PlaceInv
  <2> QED BY <2>1, <2>2
<1>9. ASSUME NEW d \in Clients
      PROVE  b \in DOMAIN boxes => Keeps(d)' \cap Elems(boxes'[b]) = {}
  <2>1. b \in DOMAIN boxes => Keeps(d) \cap Elems(boxes[b]) = {}
    BY <1>6 DEF PlaceInv
  <2> QED BY <1>4, <1>5, <1>7, <2>1
<1>10. \A d, e \in Clients : d # e => Keeps(d)' \cap Keeps(e)' = {}
  <2>1. \A d, e \in Clients : d # e => Keeps(d) \cap Keeps(e) = {}
    BY DEF PlaceInv
  <2>2. \A d \in Clients : Keeps(d)' \subseteq Keeps(d)
    BY <1>7
  <2> QED BY <2>1, <2>2
<1>11. PlaceInv'
    BY <1>1, <1>2, <1>5, <1>6, <1>8, <1>9, <1>10 DEF PlaceInv
<1>12. DurableInv'
  <2> SUFFICES ASSUME J!Durable
               PROVE  /\ "D" \in DOMAIN boxes'
                      /\ Elems(published) = Elems(boxes'["D"]) \cup UNION {Keeps(d)' : d \in Clients}
    BY <1>1 DEF DurableInv
  <2>1. b = "D" /\ "D" \in DOMAIN boxes
    BY BoxIs DEF b
  <2>2. Elems(published) = Elems(boxes["D"]) \cup UNION {Keeps(d) : d \in Clients}
    BY <2>1 DEF DurableInv
  <2>3. Elems(boxes'["D"]) = Elems(boxes["D"]) \cup {m}
    BY <1>4, <1>5, <2>1
  <2>4. UNION {Keeps(d) : d \in Clients} = {m} \cup UNION {Keeps(d)' : d \in Clients}
    <3>1. ASSUME NEW x
          PROVE  (\E d \in Clients : x \in Keeps(d)) <=> x = m \/ \E d \in Clients : x \in Keeps(d)'
      BY <1>3, <1>7
    <3> QED BY <3>1
  <2> QED BY <1>5, <2>1, <2>2, <2>3, <2>4
<1> QED BY <1>5, <1>11, <1>12

(* The provider's sequence of nothing, or of one message. *)
LEMMA OneToSeq == J!SetToSeq({}) = <<>> /\ \A m : J!SetToSeq({m}) = <<m>>
<1>1. J!SetToSeq({}) = <<>>
  <2>1. Cardinality({}) = 0 /\ \A Y : J!Cardinality(Y) = Cardinality(Y)
    BY FS_EmptySet DEF J!Cardinality, Cardinality
  <2>2. J!SetToSeq({}) = CHOOSE f \in [1 .. 0 -> {}] : J!IsInjective(f)
    BY <2>1, Zenon DEF J!SetToSeq
  <2>3. <<>> \in [1 .. 0 -> {}] /\ J!IsInjective(<<>>) /\ \A f \in [1 .. 0 -> {}] : f = <<>>
    BY DEF J!IsInjective
  <2> QED BY <2>2, <2>3
<1>2. ASSUME NEW m PROVE J!SetToSeq({m}) = <<m>>
  <2>1. Cardinality({m}) = 1 /\ \A Y : J!Cardinality(Y) = Cardinality(Y)
    BY FS_Singleton DEF J!Cardinality, Cardinality
  <2>2. J!SetToSeq({m}) = CHOOSE f \in [1 .. 1 -> {m}] : J!IsInjective(f)
    BY <2>1, Zenon DEF J!SetToSeq
  <2>3. <<m>> \in [1 .. 1 -> {m}] /\ J!IsInjective(<<m>>) /\ \A f \in [1 .. 1 -> {m}] : f = <<m>>
    BY DEF J!IsInjective
  <2> QED BY <2>2, <2>3
<1> QED BY <1>1, <1>2

(* A message that is nowhere else reaches the queue or the subscriptions. *)
LEMMA Posted ==
    ASSUME PlaceInv, DurableInv, BoxInv, UNCHANGED <<kind, got, requests>>,
           NEW m \in Msg, J!Put(m), Made \subseteq Made', m \in Made',
           hand' \subseteq hand, m \notin hand', m \notin Elems(requests),
           \A c \in Clients : m \notin Elems(got[c]),
           \A b \in DOMAIN boxes : m \notin Elems(boxes[b]),
           \A d \in Clients : Held(d)' = Held(d)
    PROVE  PlaceInv' /\ DurableInv' /\ DOMAIN boxes' = DOMAIN boxes
<1>8. \A d \in Clients : Keeps(d)' = Keeps(d) /\ m \notin Keeps(d)
    BY DEF Keeps
<1>1. /\ J!Durable' = J!Durable /\ Shared' = Shared
      /\ \A d : J!Box(d)' = J!Box(d)
    BY KindKept
<1>2. /\ DOMAIN boxes' = DOMAIN boxes
      /\ \A b \in DOMAIN boxes : boxes'[b] = Append(boxes[b], m)
      /\ published' = IF "D" \in DOMAIN boxes THEN Append(published, m) ELSE published
    BY DEF J!Put
<1>3. ASSUME NEW b \in DOMAIN boxes
      PROVE  /\ boxes'[b] \in Seq(Msg) /\ NoRepeat(boxes'[b])
             /\ Elems(boxes'[b]) = Elems(boxes[b]) \cup {m}
  <2>1. boxes[b] \in Seq(Msg) /\ NoRepeat(boxes[b]) /\ m \notin Elems(boxes[b])
    BY DEF PlaceInv
  <2>2. Append(boxes[b], m) \in Seq(Msg)
    BY <2>1
  <2>3. Elems(Append(boxes[b], m)) = Elems(boxes[b]) \cup {m} /\ NoRepeat(Append(boxes[b], m))
    BY <2>1, LinkOne, Zenon
  <2> QED BY <1>2, <2>2, <2>3
<1>4. ASSUME NEW b \in DOMAIN boxes
      PROVE  Elems(boxes'[b]) \subseteq Made' \ (hand' \cup Elems(requests))
  <2>1. Elems(boxes[b]) \subseteq Made \ (hand \cup Elems(requests))
    BY DEF PlaceInv
  <2> QED BY <1>3, <2>1
<1>5. ASSUME NEW c \in Clients
      PROVE  /\ Elems(got[c]) \subseteq Made' \ (hand' \cup Elems(requests))
             /\ J!Box(c) \in DOMAIN boxes => Keeps(c) \cap Elems(boxes'[J!Box(c)]) = {}
  <2>1. /\ Elems(got[c]) \subseteq Made \ (hand \cup Elems(requests))
        /\ J!Box(c) \in DOMAIN boxes => Keeps(c) \cap Elems(boxes[J!Box(c)]) = {}
    BY DEF PlaceInv
  <2> QED BY <1>3, <1>8, <2>1
<1>6. PlaceInv'
    BY <1>1, <1>2, <1>3, <1>4, <1>5, <1>8 DEF PlaceInv
<1>7. DurableInv'
  <2>1. published \in Seq(Msg)
    BY DEF DurableInv
  <2>2. published' \in Seq(Msg)
    BY <1>2, <2>1
  <2>3. ASSUME J!Durable
        PROVE  IF "D" \in DOMAIN boxes'
               THEN Elems(published') = Elems(boxes'["D"]) \cup UNION {Keeps(d) : d \in Clients}
               ELSE published' = <<>> /\ \A d \in Clients : got[d] = <<>>
    <3>1. CASE "D" \in DOMAIN boxes
      <4>1. Elems(published) = Elems(boxes["D"]) \cup UNION {Keeps(d) : d \in Clients}
        BY <2>3, <3>1 DEF DurableInv
      <4>2. Elems(published') = Elems(published) \cup {m}
        BY <1>2, <2>1, <3>1, AppendedElems
      <4> QED BY <1>2, <1>3, <3>1, <4>1, <4>2
    <3>2. CASE "D" \notin DOMAIN boxes
      BY <1>2, <2>3, <3>2 DEF DurableInv
    <3> QED BY <3>1, <3>2
  <2>4. {Keeps(d)' : d \in Clients} = {Keeps(d) : d \in Clients}
    BY <1>8
  <2> QED BY <1>1, <2>2, <2>3, <2>4 DEF DurableInv
<1> QED BY <1>2, <1>6, <1>7

(* What TextMDB has to do or has in hand changes. *)
LEMMA Requested ==
    ASSUME PlaceInv, DurableInv, UNCHANGED <<kind, got, boxes, published>>,
           Made \subseteq Made', requests' \in Seq(Msg), NoRepeat(requests'),
           Elems(requests') \subseteq Made', hand' \subseteq Made',
           Elems(requests') \cap hand' = {},
           \A m \in hand' \cup Elems(requests') :
              m \in hand \/ m \in Elems(requests) \/ m \notin Made,
           \A d \in Clients : Held(d)' = Held(d)
    PROVE  PlaceInv' /\ DurableInv'
<1>5. /\ \A d \in Clients : Keeps(d)' = Keeps(d)
      /\ {Keeps(d)' : d \in Clients} = {Keeps(d) : d \in Clients}
    BY DEF Keeps
<1>1. /\ J!Durable' = J!Durable /\ Shared' = Shared
      /\ \A d : J!Box(d)' = J!Box(d)
    BY KindKept
<1>2. Made \ (hand \cup Elems(requests)) \subseteq Made' \ (hand' \cup Elems(requests'))
    OBVIOUS
<1>3. PlaceInv'
  <2>1. \A b \in DOMAIN boxes : Elems(boxes[b]) \subseteq Made' \ (hand' \cup Elems(requests'))
    BY <1>2 DEF PlaceInv
  <2>2. \A c \in Clients : Elems(got[c]) \subseteq Made' \ (hand' \cup Elems(requests'))
    BY <1>2 DEF PlaceInv
  <2> QED BY <1>1, <1>5, <2>1, <2>2 DEF PlaceInv
<1>4. DurableInv'
    BY <1>1, <1>5 DEF DurableInv
<1> QED BY <1>3, <1>4

(* Every step of the clients, of TextMDB and of the provider keeps that. *)
LEMMA JmsInvStep == JmsInv /\ [J!Next]_(J!vars) => JmsInv'
<1> SUFFICES ASSUME JmsInv, [J!Next]_(J!vars) PROVE JmsInv'
    OBVIOUS
<1> USE DEF JmsInv
<1>a. UNCHANGED kind =>
         /\ J!Quota' = J!Quota /\ Shared' = Shared /\ J!Queue' = J!Queue
         /\ J!Durable' = J!Durable /\ \A c : J!Box(c)' = J!Box(c)
    BY KindKept
<1>b. J!Quota \in Nat /\ J!Quota > 0
    BY QuotaIs
<1>g. ASSUME UNCHANGED <<jpc, unacked>> PROVE \A d \in Clients : Held(d)' = Held(d)
    BY <1>g DEF Held
<1>h. ASSUME NEW c \in Clients, jpc[c] # "dead", jpc'[c] # "dead" \/ unacked'[c] = {},
             \A d \in Clients : d # c => jpc'[d] = jpc[d] /\ unacked'[d] = unacked[d]
      PROVE  Held(c) = {} /\ \A d \in Clients : Held(d)' = Held(d)
    BY <1>h DEF Held
<1>i. UNCHANGED <<role, got, unacked>> => AckInv'
    BY DEF AckInv
<1>c. UNCHANGED <<kind, sent, got, requests, hand, boxes, published>>
      /\ (\A d \in Clients : Held(d)' = Held(d)) => PlaceInv' /\ DurableInv'
  <2> SUFFICES ASSUME UNCHANGED <<kind, sent, got, requests, hand, boxes, published>>,
                      \A d \in Clients : Held(d)' = Held(d)
               PROVE  PlaceInv' /\ DurableInv'
    OBVIOUS
  <2>1. Made' = Made
    BY DEF Made
  <2>2. /\ \A d \in Clients : Keeps(d)' = Keeps(d)
        /\ {Keeps(d)' : d \in Clients} = {Keeps(d) : d \in Clients}
    BY DEF Keeps
  <2> QED BY <1>a, <2>1, <2>2 DEF PlaceInv, DurableInv
<1>d. UNCHANGED <<kind, role, jpc, sent, done, got>> => ClientInv'
    BY <1>a DEF ClientInv
<1>e. UNCHANGED <<kind, role, jpc>> /\ DOMAIN boxes' = DOMAIN boxes => BoxInv'
    BY <1>a DEF BoxInv, J!Connected
<1>1. ASSUME NEW c \in Clients, J!Setup(c) PROVE JmsInv'
  <2> USE <1>1 DEF J!Setup, J!beanVars
  <2>g. unacked[c] = {}
    <3>1. got[c] = <<>>
      BY DEF ClientInv
    <3>2. Elems(got[c]) = {}
      BY <3>1, NoElems
    <3> QED BY <3>2 DEF AckInv
  <2>h. (\A d \in Clients : Held(d)' = Held(d)) /\ AckInv'
    <3>1. \A d \in Clients : d # c => jpc'[d] = jpc[d]
      BY DEF ClientInv
    <3> QED BY <1>h, <1>i, <2>g, <3>1
  <2>1. CASE jpc' = [jpc EXCEPT ![c] = "dead"] /\ UNCHANGED boxes
    <3>1. ClientInv'
      BY <1>a, <2>1 DEF ClientInv
    <3>2. BoxInv'
      BY <1>a, <2>1 DEF BoxInv, J!Connected, ClientInv
    <3> QED BY <1>c, <2>1, <2>h, <3>1, <3>2
  <2>2. CASE /\ role[c] # "sender"
             /\ jpc' = [jpc EXCEPT ![c] = IF role[c] = "receiver" THEN "receive" ELSE "send"]
             /\ boxes' = J!With(boxes, J!Box(c))
    <3>1. /\ DOMAIN boxes' = DOMAIN boxes \cup {J!Box(c)}
          /\ \A b \in DOMAIN boxes' : boxes'[b] = IF b \in DOMAIN boxes THEN boxes[b] ELSE <<>>
      BY <2>2 DEF J!With
    <3>2. PlaceInv' /\ DurableInv'
      BY <2>h, <3>1, Reboxed
    <3>3. ClientInv'
      BY <1>a, <1>b, <2>2 DEF ClientInv
    <3>4. BoxInv'
      BY <1>a, <2>2, <3>1, BoxIs DEF BoxInv, J!Connected, ClientInv
    <3> QED BY <2>h, <3>2, <3>3, <3>4
  <2>3. CASE /\ role[c] = "sender"
             /\ jpc' = [jpc EXCEPT ![c] = "send"]
             /\ UNCHANGED boxes
    <3>1. ClientInv'
      BY <1>a, <1>b, <2>3 DEF ClientInv
    <3>2. BoxInv'
      BY <1>a, <2>3 DEF BoxInv, J!Connected, ClientInv
    <3> QED BY <1>c, <2>3, <2>h, <3>1, <3>2
  <2> QED BY <2>1, <2>2, <2>3
<1>2. ASSUME NEW c \in Clients, J!Send(c) PROVE JmsInv'
  <2> USE <1>2 DEF J!Send
  <2> DEFINE m == <<c, sent[c] + 1>>
  <2>1. /\ sent[c] \in Nat /\ sent' = [sent EXCEPT ![c] = sent[c] + 1]
        /\ sent' \in [Clients -> Nat]
    BY DEF ClientInv
  <2>2. m \in Msg /\ m \notin Made /\ m \in Made' /\ Made \subseteq Made'
    <3>1. m \in Msg /\ m[1] = c /\ m[2] = sent[c] + 1
      BY <2>1 DEF Msg
    <3>2. ASSUME NEW x \in Msg, 1 <= x[2], x[2] <= sent[x[1]] PROVE x[2] <= sent'[x[1]]
      BY <2>1, <3>2 DEF Msg, ClientInv
    <3>3. m \notin Made /\ m \in Made'
      BY <2>1, <3>1 DEF Made
    <3>4. Made \subseteq Made'
      BY <3>2 DEF Made
    <3> QED BY <3>1, <3>3, <3>4
  <2>3. ClientInv'
    BY <1>a, <1>b, <2>1 DEF ClientInv
  <2>4. /\ m \notin hand /\ m \notin Elems(requests)
        /\ \A d \in Clients : m \notin Elems(got[d])
        /\ \A b \in DOMAIN boxes : m \notin Elems(boxes[b])
    BY <2>2 DEF PlaceInv
  <2>h. (\A d \in Clients : Held(d)' = Held(d)) /\ AckInv'
    <3>1. jpc[c] # "dead" /\ jpc'[c] # "dead" /\ \A d \in Clients : d # c => jpc'[d] = jpc[d]
      BY DEF ClientInv
    <3> QED BY <1>h, <1>i, <3>1
  <2>5. CASE J!Mdb
    <3>1. requests' = Append(requests, m) /\ UNCHANGED <<boxes, published>>
      BY <2>5
    <3>2. requests \in Seq(Msg) /\ NoRepeat(requests) /\ Elems(requests) \subseteq Made
          /\ hand \subseteq Made /\ Elems(requests) \cap hand = {}
      BY DEF PlaceInv
    <3> HIDE DEF m
    <3>3. /\ Append(requests, m) \in Seq(Msg) /\ NoRepeat(Append(requests, m))
          /\ Elems(Append(requests, m)) = Elems(requests) \cup {m}
      <4>1. Append(requests, m) \in Seq(Msg)
        BY <2>2, <3>2
      <4> QED BY <2>2, <2>4, <3>2, <4>1, LinkOne
    <3>4. hand' = hand /\ UNCHANGED <<kind, got, boxes, published>>
      BY <3>1
    <3>5. PlaceInv' /\ DurableInv'
      BY <2>2, <2>4, <2>h, <3>1, <3>2, <3>3, <3>4, Requested
    <3>6. BoxInv'
      BY <1>a, <3>1 DEF BoxInv, J!Connected, ClientInv
    <3> QED BY <2>3, <2>h, <3>5, <3>6
  <2>6. CASE ~J!Mdb
    <3> HIDE DEF m
    <3>1. J!Put(m) /\ UNCHANGED <<kind, got, requests, hand>>
      BY <2>6 DEF m
    <3>2. PlaceInv' /\ DurableInv' /\ DOMAIN boxes' = DOMAIN boxes
      BY <2>2, <2>4, <2>h, <3>1, Posted
    <3>3. BoxInv'
      BY <1>a, <3>2 DEF BoxInv, J!Connected, ClientInv
    <3> QED BY <2>3, <2>h, <3>2, <3>3
  <2> QED BY <2>5, <2>6
<1>3. ASSUME NEW c \in Clients, J!onMessage(c) PROVE JmsInv'
  <2> USE <1>3 DEF J!onMessage, J!Deliver, J!beanVars
  <2>1. J!Box(c) \in DOMAIN boxes
    BY DEF BoxInv
  <2>h. Held(c) = {} /\ \A d \in Clients : Held(d)' = Held(d)
    <3>1. jpc[c] # "dead" /\ jpc'[c] # "dead"
      BY DEF J!Connected
    <3>2. \A d \in Clients : d # c => jpc'[d] = jpc[d] /\ unacked'[d] = unacked[d]
      BY DEF AckInv
    <3> QED BY <1>h, <3>1, <3>2
  <2>2. /\ PlaceInv' /\ DurableInv' /\ DOMAIN boxes' = DOMAIN boxes
        /\ Len(got'[c]) = Len(got[c]) + 1
        /\ Elems(got'[c]) = Elems(got[c]) \cup {Head(boxes[J!Box(c)])}
        /\ Head(boxes[J!Box(c)]) \in Msg
    BY <2>1, <2>h, Delivered
  <2>3. \A d \in Clients : d # c => got'[d] = got[d]
    BY DEF PlaceInv
  <2>4. Len(got[c]) \in Nat
    BY DEF PlaceInv
  <2>5. ClientInv'
    <3>1. done' \in [Clients -> Int] /\ done'[c] = done[c] - 1
          /\ \A d \in Clients : d # c => done'[d] = done[d]
      BY DEF ClientInv
    <3>2. jpc[c] # "new"
      BY DEF J!Connected
    <3> QED BY <1>a, <1>b, <2>2, <2>3, <2>4, <3>1, <3>2 DEF ClientInv
  <2>6. AckInv'
    <3>1. /\ unacked' \in [Clients -> SUBSET Msg]
          /\ unacked'[c] = {Head(boxes[J!Box(c)])}
          /\ \A d \in Clients : d # c => unacked'[d] = unacked[d]
      BY <2>2 DEF AckInv
    <3>2. Head(boxes[J!Box(c)]) \in Elems(got'[c])
      BY <2>2
    <3> QED BY <2>3, <3>1, <3>2 DEF AckInv
  <2> QED BY <1>e, <2>2, <2>5, <2>6
<1>13. ASSUME NEW c \in Clients, J!Acknowledge(c) PROVE JmsInv'
  <2> USE <1>13 DEF J!Acknowledge, J!beanVars
  <2>1. unacked' \in [Clients -> SUBSET Msg] /\ unacked'[c] = {}
        /\ \A d \in Clients : d # c => unacked'[d] = unacked[d]
    BY DEF AckInv
  <2>2. \A d \in Clients : Held(d)' = Held(d)
    <3>1. jpc[c] # "dead"
      BY DEF J!Connected
    <3> QED BY <1>h, <2>1, <3>1
  <2>3. AckInv'
    BY <2>1 DEF AckInv
  <2> QED BY <1>c, <1>d, <1>e, <2>2, <2>3
<1>4. ASSUME NEW c \in Clients, J!Acquire(c) PROVE JmsInv'
  <2> USE <1>4 DEF J!Acquire, J!beanVars
  <2>1. Len(got[c]) \in Nat
    BY DEF PlaceInv
  <2>2. ClientInv'
    BY <1>a, <1>b, <2>1 DEF ClientInv
  <2>3. BoxInv'
    BY <1>a DEF BoxInv, J!Connected, ClientInv
  <2>4. (\A d \in Clients : Held(d)' = Held(d)) /\ AckInv'
    <3>1. jpc[c] # "dead" /\ jpc'[c] # "dead" /\ \A d \in Clients : d # c => jpc'[d] = jpc[d]
      BY DEF ClientInv
    <3> QED BY <1>h, <1>i, <3>1
  <2> QED BY <1>c, <2>2, <2>3, <2>4
<1>5. ASSUME NEW c \in Clients, J!Receive(c) PROVE JmsInv'
  <2> USE <1>5 DEF J!Receive, J!beanVars
  <2>1. jpc[c] = "receive" /\ J!Connected(c) /\ role[c] = "receiver"
    BY DEF J!Connected, ClientInv
  <2>h. Held(c) = {} /\ \A d \in Clients : Held(d)' = Held(d)
    <3>1. jpc'[c] # "dead" /\ \A d \in Clients : d # c => jpc'[d] = jpc[d]
      BY DEF ClientInv
    <3> QED BY <1>h, <2>1, <3>1
  <2>2. CASE UNCHANGED <<got, boxes>>
    <3>1. ClientInv'
      BY <1>a, <2>1, <2>2 DEF ClientInv
    <3>2. BoxInv'
      BY <1>a, <2>2 DEF BoxInv, J!Connected, ClientInv
    <3> QED BY <1>c, <1>i, <2>2, <2>h, <3>1, <3>2
  <2>3. CASE /\ boxes[J!Box(c)] # <<>>
             /\ got' = [got EXCEPT ![c] = Append(@, Head(boxes[J!Box(c)]))]
             /\ boxes' = [boxes EXCEPT ![J!Box(c)] = Tail(@)]
    <3>1. J!Box(c) \in DOMAIN boxes
      BY <2>1 DEF BoxInv
    <3>2. PlaceInv' /\ DurableInv' /\ DOMAIN boxes' = DOMAIN boxes
          /\ Elems(got'[c]) = Elems(got[c]) \cup {Head(boxes[J!Box(c)])}
      BY <2>3, <2>h, <3>1, Delivered
    <3>6. AckInv'
      <4>1. \A d \in Clients : Elems(got[d]) \subseteq Elems(got'[d])
        BY <2>3, <3>2 DEF PlaceInv
      <4> QED BY <4>1 DEF AckInv
    <3>3. \A d \in Clients : d # c => got'[d] = got[d]
      BY <2>3 DEF PlaceInv
    <3>4. ClientInv'
      BY <1>a, <2>1, <3>3 DEF ClientInv
    <3>5. BoxInv'
      BY <1>a, <3>2 DEF BoxInv, J!Connected, ClientInv
    <3> QED BY <3>2, <3>4, <3>5, <3>6
  <2> QED BY <2>2, <2>3
<1>f. ASSUME NEW c \in Clients, J!Connected(c), J!Disconnect(c), jpc'[c] \in {"end", "dead"},
             \A d \in Clients : d # c => jpc'[d] = jpc[d],
             jpc'[c] = "end" => unacked[c] = {},
             UNCHANGED <<kind, role, sent, got, unacked, requests, hand, published>>
      PROVE  /\ PlaceInv' /\ DurableInv' /\ AckInv'
             /\ DOMAIN boxes' = DOMAIN boxes \ (IF Shared THEN {} ELSE {c})
  <2>1. /\ Held(c) = {} /\ Held(c)' = unacked[c]
        /\ \A d \in Clients : d # c => Held(d)' = Held(d)
    BY <1>f DEF Held, J!Connected
  <2>2. DOMAIN boxes' = DOMAIN boxes \ (IF Shared THEN {} ELSE {c})
    BY <1>f DEF J!Disconnect, Shared
  <2>3. J!Durable => DOMAIN boxes \subseteq DOMAIN boxes'
    BY <2>2 DEF Shared
  <2>4. CASE ~Shared
    <3>1. \A b \in DOMAIN boxes' : boxes'[b] = boxes[b]
      BY <1>f, <2>4 DEF J!Disconnect, Shared
    <3> QED BY <1>f, <1>i, <2>1, <2>2, <2>3, <2>4, <3>1, Reboxed
  <2>5. CASE Shared /\ unacked[c] = {}
    <3>1. \A b \in DOMAIN boxes' :
              boxes'[b] = IF b = J!Box(c) THEN <<>> \o boxes[b] ELSE boxes[b]
      <4>1. J!SetToSeq(unacked[c]) = <<>>
        BY <2>5, OneToSeq
      <4> QED BY <1>f, <2>5, <4>1 DEF J!Disconnect, Shared
    <3>2. \A b \in DOMAIN boxes : <<>> \o boxes[b] = boxes[b]
      BY DEF PlaceInv
    <3>3. \A b \in DOMAIN boxes' : boxes'[b] = boxes[b]
      BY <2>2, <3>1, <3>2
    <3>4. \A d \in Clients : Held(d)' = Held(d)
      BY <2>1, <2>5
    <3> QED BY <1>f, <1>i, <2>2, <2>3, <3>3, <3>4, Reboxed
  <2>6. CASE Shared /\ unacked[c] # {}
    <3>1. PICK m \in Elems(got[c]) : unacked[c] = {m}
      BY <2>6 DEF AckInv
    <3>2. m \in Msg /\ role[c] # "sender"
      <4>1. m \in Msg
        BY <3>1 DEF AckInv
      <4> QED BY <4>1, <2>6 DEF AckInv
    <3>3. J!Box(c) \in DOMAIN boxes
      BY <1>f, <3>2 DEF BoxInv
    <3>4. boxes' = [b \in DOMAIN boxes |-> IF b = J!Box(c) THEN <<m>> \o boxes[b] ELSE boxes[b]]
      <4>1. J!SetToSeq(unacked[c]) = <<m>>
        BY <3>1, OneToSeq
      <4> QED BY <1>f, <2>6, <4>1 DEF J!Disconnect, Shared
    <3> QED BY <1>f, <1>i, <2>1, <2>6, <3>1, <3>2, <3>3, <3>4, Redelivered
  <2> QED BY <2>4, <2>5, <2>6
<1>6. ASSUME NEW c \in Clients, J!Stop(c) PROVE JmsInv'
  <2> USE <1>6 DEF J!Stop, J!beanVars
  <2>0. J!Connected(c) /\ jpc'[c] = "end" /\ \A d \in Clients : d # c => jpc'[d] = jpc[d]
    BY DEF J!Connected, ClientInv
  <2>1. PlaceInv' /\ DurableInv' /\ AckInv'
        /\ DOMAIN boxes' = DOMAIN boxes \ (IF Shared THEN {} ELSE {c})
    BY <1>f, <2>0
  <2>2. ClientInv'
    BY <1>a DEF ClientInv
  <2>3. BoxInv'
    BY <1>a, <2>1, BoxIs DEF BoxInv, J!Connected, ClientInv, Shared
  <2> QED BY <2>1, <2>2, <2>3
<1>7. ASSUME NEW c \in Clients, J!Killed(c) PROVE JmsInv'
  <2> USE <1>7 DEF J!Killed, J!beanVars
  <2>0. J!Connected(c) /\ jpc'[c] = "dead" /\ \A d \in Clients : d # c => jpc'[d] = jpc[d]
    BY DEF J!Connected, ClientInv
  <2>1. PlaceInv' /\ DurableInv' /\ AckInv'
        /\ DOMAIN boxes' = DOMAIN boxes \ (IF Shared THEN {} ELSE {c})
    BY <1>f, <2>0
  <2>2. ClientInv'
    BY <1>a DEF ClientInv
  <2>3. BoxInv'
    BY <1>a, <2>1, BoxIs DEF BoxInv, J!Connected, ClientInv, Shared
  <2> QED BY <2>1, <2>2, <2>3
<1>8. CASE J!DurableTopicSetup
  <2> USE <1>8 DEF J!DurableTopicSetup, J!beanVars, J!clientVars
  <2>1. J!Durable
    BY DEF J!Durable
  <2>2. /\ DOMAIN boxes' = DOMAIN boxes \cup {"D"}
        /\ \A b \in DOMAIN boxes' : boxes'[b] = IF b \in DOMAIN boxes THEN boxes[b] ELSE <<>>
    BY DEF J!With
  <2>3. PlaceInv' /\ DurableInv' /\ AckInv'
    <3>1. \A d \in Clients : Held(d)' = Held(d)
      BY <1>g
    <3> QED BY <1>i, <2>2, <3>1, Reboxed
  <2>4. BoxInv'
    BY <1>a, <2>1, <2>2, BoxIs DEF BoxInv, J!Connected, Shared
  <2> QED BY <1>d, <2>3, <2>4
<1>9. CASE J!ejbCreate \/ J!ejbRemove
    BY <1>9, <1>c, <1>d, <1>e, <1>g, <1>i DEF J!ejbCreate, J!ejbRemove, J!clientVars
<1>10. CASE J!TakeRequest
  <2> USE <1>10 DEF J!TakeRequest, J!clientVars
  <2>1. Made' = Made
    BY DEF Made
  <2>2. requests \in Seq(Msg) /\ NoRepeat(requests) /\ requests # <<>>
    BY DEF PlaceInv
  <2>3. /\ requests' \in Seq(Msg) /\ NoRepeat(requests') /\ Head(requests) \in Elems(requests)
        /\ Elems(requests') = Elems(requests) \ {Head(requests)}
    BY <2>2, HeadTaken
  <2>4. Elems(requests) \subseteq Made /\ hand \subseteq Made /\ Elems(requests) \cap hand = {}
    BY DEF PlaceInv
  <2>5. hand' = hand \cup {Head(requests)}
    OBVIOUS
  <2>6. PlaceInv' /\ DurableInv'
    BY <1>g, <2>1, <2>3, <2>4, <2>5, Requested
  <2> QED BY <1>d, <1>e, <1>i, <2>6
<1>11. CASE J!sendReply
  <2> USE <1>11 DEF J!sendReply, J!clientVars
  <2>1. Made' = Made
    BY DEF Made
  <2>2. PICK m \in hand : /\ J!Put(m) \/ UNCHANGED <<boxes, published>>
                         /\ hand' = hand \ {m}
    OBVIOUS
  <2>3. /\ m \in Made /\ m \in Msg /\ m \notin Elems(requests)
        /\ \A d \in Clients : m \notin Elems(got[d])
        /\ \A b \in DOMAIN boxes : m \notin Elems(boxes[b])
    BY <2>2 DEF PlaceInv, Made
  <2>4. CASE J!Put(m)
    <3>1. PlaceInv' /\ DurableInv' /\ DOMAIN boxes' = DOMAIN boxes
      BY <1>g, <2>1, <2>2, <2>3, <2>4, Posted
    <3> QED BY <1>d, <1>e, <1>i, <3>1
  <2>5. CASE UNCHANGED <<boxes, published>>
    <3>1. /\ requests \in Seq(Msg) /\ NoRepeat(requests) /\ Elems(requests) \subseteq Made
          /\ hand' \subseteq Made /\ Elems(requests) \cap hand' = {}
      BY <2>2 DEF PlaceInv
    <3>2. PlaceInv' /\ DurableInv'
      BY <1>g, <2>1, <2>2, <2>5, <3>1, Requested
    <3> QED BY <1>d, <1>e, <1>i, <2>5, <3>2
  <2> QED BY <2>2, <2>4, <2>5
<1>12. CASE UNCHANGED J!vars
    BY <1>12, <1>c, <1>d, <1>e, <1>g, <1>i DEF J!vars
<1> QED
    BY <1>1, <1>2, <1>3, <1>4, <1>5, <1>6, <1>7, <1>8, <1>9, <1>10, <1>11, <1>12,
       <1>13, Zenon DEF J!Next, J!Main, J!Listener, J!Bean

(* The JMS examples with any number of clients, beans and messages, the      *)
(* clients killed anywhere: no client receives one message twice, two share  *)
(* a message of a queue only if one of them died in its listener, one that   *)
(* ends has as many as it sent, and a durable subscription loses nothing.    *)
THEOREM AnswersCounted == J!Spec => []AnswersRight
<1>1. J!Init => JmsInv
  <2> SUFFICES ASSUME J!Init PROVE JmsInv
    OBVIOUS
  <2> USE DEF J!Init
  <2>1. Elems(<<>>) = {} /\ NoRepeat(<<>>) /\ <<>> \in Seq(Msg) /\ DOMAIN <<>> = {}
    BY NoElems
  <2>2. J!Quota \in Nat /\ J!Quota > 0
    BY QuotaIs
  <2>3. /\ J!Queue => DOMAIN boxes = {"A"} /\ boxes["A"] = <<>>
        /\ ~J!Queue => boxes = <<>> /\ DOMAIN boxes = {}
    BY <2>1
  <2>4. BoxInv
    BY <2>3, BoxIs DEF BoxInv, Shared, J!Connected
  <2>5. role \in [Clients -> {"both", "sender", "receiver"}]
    OBVIOUS
  <2>6. ClientInv
    BY <2>2, <2>5 DEF ClientInv
  <2>7. \A b \in DOMAIN boxes : boxes[b] = <<>>
    BY <2>3
  <2>8. PlaceInv
    <3>1. \A c \in Clients : Keeps(c) = {}
      BY <2>1 DEF Keeps
    <3> QED BY <2>1, <2>7, <3>1 DEF PlaceInv
  <2>9. DurableInv
    BY <2>1, <2>3, BoxIs DEF DurableInv
  <2>10. AckInv
    BY DEF AckInv
  <2> QED BY <2>4, <2>6, <2>8, <2>9, <2>10 DEF JmsInv
<1> QED BY <1>1, JmsInvStep, InvRight, PTL DEF J!Spec

-----------------------------------------------------------------------------
(* CR/LF *)

(* What becomes of character i, and the conversion of the first characters,  *)
(* one after the other.                                                      *)
Piece(i) ==
    IF fn = "crlf_add"
    THEN IF src[i] = LF THEN <<CR, LF>> ELSE <<src[i]>>
    ELSE IF src[i] = CR THEN <<>> ELSE <<src[i]>>
Longer(c, i) == c \o Piece(i)
Pieces(n, c) == c = [i \in 0 .. n |-> IF i = 0 THEN <<>> ELSE Longer(c[i - 1], i)]
Output == CHOOSE c : Pieces(Len(src), c)

LEMMA PiecesExist == \A n \in Nat : \E c : Pieces(n, c)
<1> DEFINE X == {n \in Nat : \E c : Pieces(n, c)}
<1>1. 0 \in X
  <2>1. Pieces(0, [k \in 0 .. 0 |-> <<>>])
    BY DEF Pieces
  <2> QED BY <2>1
<1>2. ASSUME NEW n \in Nat, n \in X PROVE n + 1 \in X
  <2>1. PICK c : Pieces(n, c)
    BY <1>2
  <2> DEFINE g == [k \in 0 .. n + 1 |-> IF k <= n THEN c[k] ELSE Longer(c[n], n + 1)]
  <2>2. ASSUME NEW k \in 0 .. n + 1
        PROVE  g[k] = IF k = 0 THEN <<>> ELSE Longer(g[k - 1], k)
    <3>1. CASE k = 0
      BY <2>1, <3>1 DEF Pieces
    <3>2. CASE k \in 1 .. n
      <4>1. c[k] = Longer(c[k - 1], k)
        BY <2>1, <3>2 DEF Pieces
      <4>2. g[k] = c[k] /\ g[k - 1] = c[k - 1] /\ k # 0
        BY <3>2
      <4> QED BY <4>1, <4>2
    <3>3. CASE k = n + 1
      BY <3>3
    <3> QED BY <3>1, <3>2, <3>3
  <2>3. Pieces(n + 1, g)
    BY <2>2 DEF Pieces
  <2> HIDE DEF g
  <2> QED BY <2>3
<1> HIDE DEF X
<1>3. \A n \in Nat : n \in X
    BY <1>1, <1>2, Induct
<1> QED BY <1>3 DEF X

LEMMA OutputIs ==
    ASSUME src \in Seq(Char)
    PROVE  /\ Converted(Len(src)) = Output[Len(src)]
           /\ Output[0] = <<>>
           /\ \A i \in 1 .. Len(src) : Output[i] = Output[i - 1] \o Piece(i)
<1>1. Pieces(Len(src), Output)
  <2>1. Len(src) \in Nat
    OBVIOUS
  <2>2. \E c : Pieces(Len(src), c)
    BY <2>1, PiecesExist
  <2> QED BY <2>2 DEF Output
<1>2. Converted(Len(src)) = Output[Len(src)]
    BY DEF Converted, Output, Pieces, Longer, Piece
<1>3. \A i \in 0 .. Len(src) :
          Output[i] = IF i = 0 THEN <<>> ELSE Longer(Output[i - 1], i)
    BY <1>1 DEF Pieces
<1>4. \A i \in 1 .. Len(src) : i \in 0 .. Len(src) /\ i # 0
    OBVIOUS
<1>5. 0 \in 0 .. Len(src)
    OBVIOUS
<1> QED BY <1>2, <1>3, <1>4, <1>5, Zenon DEF Longer

(* When characters are added each has a piece, and what follows only makes   *)
(* the output longer.                                                        *)
Least(n) == IF fn = "crlf_add" THEN n ELSE 0

LEMMA PieceIs ==
    ASSUME src \in Seq(Char), NEW i \in 1 .. Len(src)
    PROVE  /\ Piece(i) \in Seq(Char) /\ Len(Piece(i)) >= Least(1)
           /\ Len(Piece(i)) \in Nat
<1>1. src[i] \in Char /\ CR \in Char /\ LF \in Char
    BY DEF Char
<1>2. CASE Piece(i) = <<>> /\ fn # "crlf_add"
    BY <1>2 DEF Least
<1>3. CASE Piece(i) = <<src[i]>>
    BY <1>1, <1>3 DEF Least
<1>4. CASE Piece(i) = <<CR, LF>>
    BY <1>1, <1>4 DEF Least
<1> QED BY <1>2, <1>3, <1>4 DEF Piece

LEMMA OutputGrows ==
    ASSUME src \in Seq(Char)
    PROVE  \A n \in 0 .. Len(src) :
              /\ Output[n] \in Seq(Char)
              /\ \A i \in 0 .. n : Len(Output[n]) >= Len(Output[i]) + Least(n - i)
<1> DEFINE Grows(n) ==
              /\ Output[n] \in Seq(Char)
              /\ \A i \in 0 .. n : Len(Output[n]) >= Len(Output[i]) + Least(n - i)
           X == {n \in Nat : n <= Len(src) => Grows(n)}
<1>1. 0 \in X
  <2>1. Output[0] = <<>>
    BY OutputIs
  <2>2. <<>> \in Seq(Char) /\ Len(<<>>) = 0
    OBVIOUS
  <2>3. Len(Output[0]) = 0 /\ Output[0] \in Seq(Char)
    BY <2>1, <2>2, Zenon
  <2>4. \A i \in 0 .. 0 : i = 0
    OBVIOUS
  <2>5. Least(0 - 0) = 0
    BY DEF Least
  <2>6. Len(Output[0]) >= Len(Output[0]) + Least(0 - 0)
    BY <2>3, <2>5
  <2>7. Grows(0)
    BY <2>3, <2>4, <2>6, Zenon
  <2> QED BY <2>7
<1>2. ASSUME NEW n \in Nat, n \in X PROVE n + 1 \in X
  <2> SUFFICES ASSUME n + 1 <= Len(src) PROVE Grows(n + 1)
    OBVIOUS
  <2>1. n + 1 \in 1 .. Len(src) /\ (n + 1) - 1 = n /\ n <= Len(src)
    OBVIOUS
  <2>2. Output[n + 1] = Output[n] \o Piece(n + 1)
    BY <2>1, OutputIs
  <2>3. /\ Piece(n + 1) \in Seq(Char) /\ Len(Piece(n + 1)) >= Least(1)
        /\ Len(Piece(n + 1)) \in Nat
    BY <2>1, PieceIs
  <2>4. Grows(n)
    BY <1>2, <2>1
  <2>5. /\ Output[n + 1] \in Seq(Char)
        /\ Len(Output[n + 1]) = Len(Output[n]) + Len(Piece(n + 1))
    BY <2>2, <2>3, <2>4
  <2>6. ASSUME NEW i \in 0 .. n + 1
        PROVE  Len(Output[n + 1]) >= Len(Output[i]) + Least((n + 1) - i)
    <3>1. CASE i = n + 1
      <4>1. \A s \in Seq(Char) : Len(s) \in Nat
        OBVIOUS
      <4>2. Len(Output[n + 1]) \in Nat
        BY <2>5, <4>1, Zenon
      <4>3. (n + 1) - i = 0
        BY <3>1
      <4>4. Least((n + 1) - i) = 0
        BY <4>3 DEF Least
      <4> QED BY <3>1, <4>2, <4>4
    <3>2. CASE i \in 0 .. n
      <4>1. Len(Output[n]) >= Len(Output[i]) + Least(n - i)
        BY <2>4, <3>2
      <4>2. Len(Output[n]) \in Nat
        BY <2>4
      <4>3. Len(Output[i]) \in Int
        BY <2>4, <4>1
      <4> DEFINE o == Len(Output[n]) q == Len(Output[n + 1]) w == Len(Output[i])
                 m == Len(Piece(n + 1))
      <4>4. q = o + m /\ m >= Least(1) /\ o >= w + Least(n - i)
        BY <2>3, <2>5, <4>1
      <4>5. o \in Nat /\ m \in Nat /\ w \in Int
        BY <2>3, <4>2, <4>3
      <4> HIDE DEF o, q, w, m
      <4>6. q >= w + Least((n + 1) - i)
        BY <3>2, <4>4, <4>5 DEF Least
      <4> QED BY <4>6 DEF q, w
    <3> QED BY <3>1, <3>2
  <2> QED BY <2>5, <2>6
<1> HIDE DEF X
<1>3. \A n \in Nat : n \in X
    BY <1>1, <1>2, Induct
<1> QED BY <1>3 DEF X

(* What was written is the conversion of what was read, and lenout counts it *)
(* - and, in crlf_add, what is still to be read.                             *)
CrlfInv ==
    /\ fn \in {"crlf_add", "crlf_strip"} /\ src \in Seq(Char) /\ dstsize \in Nat
    /\ at \in 0 .. Len(src)
    /\ Len(dst) <= dstsize
    /\ status # "quit" =>
          /\ dst = Output[at]
          /\ lenout = Len(dst) + Least(Len(src) - at)
          /\ lenout <= dstsize
    /\ status = "done" => at = Len(src)
    /\ status = "quit" => Len(Output[Len(src)]) >= dstsize

(* crlf_add and crlf_strip with inputs and destinations of any length: the   *)
(* destination holds, what is returned is the whole conversion, and one that *)
(* gives up has an output that would fill the destination to the last byte   *)
(* or not fit.                                                               *)
THEOREM ConversionRight == Spec => []Correct
<1> USE CrlfAssumption
<1>1. Init => CrlfInv
  <2> SUFFICES ASSUME Init PROVE CrlfInv
    OBVIOUS
  <2> USE DEF Init
  <2>1. PICK n \in 0 .. MaxLen : src \in [1 .. n -> Char]
    OBVIOUS
  <2>2. src \in Seq(Char) /\ Len(src) \in Nat
    BY <2>1
  <2>3. Output[0] = <<>>
    BY <2>2, OutputIs
  <2>4. Len(Output[Len(src)]) >= Len(Output[0]) + Least(Len(src) - 0)
    BY <2>2, OutputGrows
  <2>5. fn = "crlf_add" => Len(Output[Len(src)]) >= Len(src)
    BY <2>2, <2>3, <2>4 DEF Least
  <2>6. dstsize \in Nat /\ Len(dst) = 0 /\ at \in 0 .. Len(src)
    BY <2>2
  <2>7. lenout = Len(dst) + Least(Len(src) - at)
    BY <2>2, <2>6 DEF Least
  <2> QED BY <2>2, <2>3, <2>5, <2>6, <2>7 DEF CrlfInv
<1>2. CrlfInv /\ [Next]_vars => CrlfInv'
  <2> SUFFICES ASSUME CrlfInv, [Next]_vars PROVE CrlfInv'
    OBVIOUS
  <2>1. UNCHANGED <<fn, src, dstsize>>
    BY DEF Next, crlf_add_step, crlf_strip_step, Return, vars
  <2>2. UNCHANGED Output
    BY <2>1 DEF Output, Pieces, Longer, Piece
  <2>3. src \in Seq(Char) /\ Len(src) \in Nat /\ at \in 0 .. Len(src)
    BY DEF CrlfInv
  <2>4. ASSUME crlf_add_step \/ crlf_strip_step PROVE CrlfInv'
    <3>1. status = "run" /\ at < Len(src)
      BY <2>3, <2>4 DEF crlf_add_step, crlf_strip_step, lenin
    <3>2. at + 1 \in 1 .. Len(src) /\ (at + 1) - 1 = at /\ at + 1 \in 0 .. Len(src)
      BY <2>3, <3>1
    <3> DEFINE p == Piece(at + 1)
    <3>3. Output[at + 1] = dst \o p
      BY <2>3, <3>1, <3>2, OutputIs DEF CrlfInv
    <3>4. dst \in Seq(Char) /\ Output[at + 1] \in Seq(Char)
      BY <2>3, <3>1, <3>2, OutputGrows DEF CrlfInv
    <3>5. p \in Seq(Char) /\ Len(p) \in Nat
      BY <2>3, <3>2, PieceIs
    <3>6. Len(dst \o p) = Len(dst) + Len(p) /\ Len(dst) \in Nat
      BY <3>4, <3>5
    <3>7. Len(Output[Len(src)]) >= Len(Output[at + 1]) + Least(Len(src) - (at + 1))
      BY <2>3, <3>2, OutputGrows, Len(src) \in 0 .. Len(src)
    <3>8. lenout = Len(dst) + Least(Len(src) - at) /\ lenout <= dstsize
      BY <3>1 DEF CrlfInv
    <3>9. \/ Grow(p) /\ Len(p) = Least(1) + 1
          \/ Plain(p) /\ Len(p) = Least(1)
      <4>1. CASE crlf_add_step
        BY <2>4, <4>1 DEF crlf_add_step, Piece, Least, CrlfInv
      <4>2. CASE crlf_strip_step
        BY <2>4, <4>2 DEF crlf_strip_step, Piece, Least, CrlfInv
      <4> QED BY <2>4, <4>1, <4>2
    <3>10. Least(1) \in {0, 1} /\ dstsize \in Nat
      BY DEF Least, CrlfInv
    <3>11. /\ Least(Len(src) - at) = Least(Len(src) - (at + 1)) + Least(1)
           /\ Least(Len(src) - (at + 1)) \in Nat
      BY <2>3, <3>1 DEF Least
    <3> HIDE DEF p
    <3>12. CASE Grow(p) /\ Len(p) = Least(1) + 1 /\ lenout + 1 >= dstsize
      <4>1. status' = "quit" /\ UNCHANGED <<dst, at>>
        BY <3>12 DEF Grow
      <4>2. Len(Output[at + 1]) = Len(dst) + Least(1) + 1
        BY <3>3, <3>6, <3>10, <3>12
      <4> DEFINE o == Len(Output[Len(src)]) q == Len(Output[at + 1]) w == Len(dst)
                 m == Len(src)
      <4>3. /\ o >= q + Least(m - (at + 1)) /\ q = w + Least(1) + 1
            /\ lenout = w + Least(m - at)
        BY <3>7, <3>8, <4>2
      <4>4. o \in Nat /\ w \in Nat /\ m \in Nat /\ at \in Nat /\ at < m
        BY <2>3, <3>1, <3>6, OutputGrows
      <4> HIDE DEF o, q, w, m
      <4>5. o >= dstsize
        BY <3>10, <3>12, <4>3, <4>4 DEF Least
      <4>6. Len(Output[Len(src)]) >= dstsize
        BY <4>5 DEF o
      <4> QED BY <2>1, <2>2, <4>1, <4>6 DEF CrlfInv
    <3>13. CASE Grow(p) /\ Len(p) = Least(1) + 1 /\ ~(lenout + 1 >= dstsize)
      <4>1. /\ dst' = dst \o p /\ at' = at + 1 /\ status' = status
            /\ lenout' = lenout + 1
        BY <3>13 DEF Grow
      <4>2. Len(dst') = Len(dst) + Least(1) + 1
        BY <3>6, <3>10, <3>13, <4>1
      <4> DEFINE o == Least(Len(src) - (at + 1)) w == Len(dst) z == Len(dst') q == Least(1)
                 e == Least(Len(src) - at)
      <4>3. z = w + q + 1 /\ lenout = w + e /\ lenout <= dstsize /\ e = o + q
        BY <3>8, <3>11, <4>2
      <4>4. q \in {0, 1} /\ w \in Nat /\ o \in Nat /\ dstsize \in Nat
        BY <3>6, <3>10, <3>11
      <4> HIDE DEF o, w, z, q, e
      <4>5. lenout' = z + o /\ lenout' <= dstsize /\ z <= dstsize
        BY <3>13, <4>1, <4>3, <4>4
      <4>6. lenout' = Len(dst') + Least(Len(src) - at') /\ lenout' <= dstsize
            /\ Len(dst') <= dstsize
        BY <4>1, <4>5 DEF z, o
      <4> QED BY <2>1, <2>2, <3>1, <3>2, <3>3, <4>1, <4>6 DEF Least, CrlfInv
    <3>14. CASE Plain(p) /\ Len(p) = Least(1)
      <4>1. dst' = dst \o p /\ at' = at + 1 /\ status' = status /\ lenout' = lenout
        BY <3>14 DEF Plain
      <4>2. Len(dst') = Len(dst) + Least(1)
        BY <3>6, <3>10, <3>14, <4>1
      <4> DEFINE o == Least(Len(src) - (at + 1)) w == Len(dst) z == Len(dst') q == Least(1)
                 e == Least(Len(src) - at)
      <4>3. z = w + q /\ lenout = w + e /\ lenout <= dstsize /\ e = o + q
        BY <3>8, <3>11, <4>2
      <4>4. q \in {0, 1} /\ w \in Nat /\ o \in Nat /\ dstsize \in Nat
        BY <3>6, <3>10, <3>11
      <4> HIDE DEF o, w, z, q, e
      <4>5. lenout' = z + o /\ lenout' <= dstsize /\ z <= dstsize
        BY <4>1, <4>3, <4>4
      <4>6. lenout' = Len(dst') + Least(Len(src) - at') /\ lenout' <= dstsize
            /\ Len(dst') <= dstsize
        BY <4>1, <4>5 DEF z, o
      <4> QED BY <2>1, <2>2, <3>1, <3>2, <3>3, <4>1, <4>6 DEF Least, CrlfInv
    <3> QED BY <3>9, <3>12, <3>13, <3>14
  <2>5. CASE Return
    <3>1. at = Len(src)
      BY <2>3, <2>5 DEF Return, lenin
    <3> QED BY <2>1, <2>2, <2>5, <3>1 DEF Return, CrlfInv, Least
  <2>6. CASE UNCHANGED vars
    BY <2>1, <2>2, <2>6 DEF vars, CrlfInv, Least
  <2> QED BY <2>4, <2>5, <2>6 DEF Next
<1>3. CrlfInv => Correct
  <2> SUFFICES ASSUME CrlfInv PROVE Correct
    OBVIOUS
  <2>1. src \in Seq(Char) /\ Len(src) \in Nat
    BY DEF CrlfInv
  <2>2. Converted(Len(src)) = Output[Len(src)]
    BY <2>1, OutputIs
  <2>3. status = "done" => dst = Output[Len(src)] /\ lenout = Len(dst)
    <3> SUFFICES ASSUME status = "done" PROVE dst = Output[Len(src)] /\ lenout = Len(dst)
      OBVIOUS
    <3>1. at = Len(src) /\ lenout = Len(dst) + Least(Len(src) - at)
          /\ dst = Output[Len(src)]
      BY DEF CrlfInv
    <3>2. Len(dst) \in Nat /\ Least(1) \in {0, 1}
      BY <2>1, <3>1, OutputGrows DEF Least
    <3>3. Least(Len(src) - at) = 0
      BY <2>1, <3>1 DEF Least
    <3> QED BY <3>1, <3>2, <3>3
  <2> QED BY <2>2, <2>3 DEF CrlfInv, Correct
<1> QED BY <1>1, <1>2, <1>3, PTL DEF Spec

-----------------------------------------------------------------------------
(* The linked queue *)

(* c walks from the head h of a queue of n items along prev, through each    *)
(* allocated item once, and next leads from h to its end.                    *)
Walks(c, h, n, pv) == c = [i \in 1 .. n |-> IF i = 1 THEN h ELSE pv[c[i - 1]]]

Linked(c, h, n, nx, pv, al) ==
    /\ c \in [1 .. n -> Heap]
    /\ c[1] = h /\ \A i \in 1 .. n - 1 : c[i + 1] = pv[c[i]]
    /\ \A i, j \in 1 .. n : c[i] = c[j] => i = j
    /\ al = {c[i] : i \in 1 .. n}
    /\ nx[h] = c[n]

(* There is one walk only: it is the chain of the specification.             *)
LEMMA OneWalk ==
    ASSUME NEW c, NEW d, NEW h, NEW n \in Nat, NEW pv, Walks(c, h, n, pv), Walks(d, h, n, pv)
    PROVE  c = d
<1> DEFINE X == {k \in Nat : k + 1 \in 1 .. n => c[k + 1] = d[k + 1]}
<1>0. \A i \in 1 .. n : /\ c[i] = IF i = 1 THEN h ELSE pv[c[i - 1]]
                        /\ d[i] = IF i = 1 THEN h ELSE pv[d[i - 1]]
    BY DEF Walks
<1>1. 0 \in X
    BY <1>0
<1>2. ASSUME NEW k \in Nat, k \in X PROVE k + 1 \in X
  <2> SUFFICES ASSUME (k + 1) + 1 \in 1 .. n PROVE c[(k + 1) + 1] = d[(k + 1) + 1]
    OBVIOUS
  <2>1. k + 1 \in 1 .. n /\ ((k + 1) + 1) - 1 = k + 1 /\ (k + 1) + 1 # 1
    OBVIOUS
  <2>2. c[k + 1] = d[k + 1]
    BY <1>2, <2>1
  <2> QED BY <1>0, <2>1, <2>2
<1> HIDE DEF X
<1>3. \A k \in Nat : k \in X
    BY <1>1, <1>2, Induct
<1>4. ASSUME NEW i \in 1 .. n PROVE c[i] = d[i]
  <2>1. i - 1 \in Nat /\ (i - 1) + 1 = i
    OBVIOUS
  <2>2. i - 1 \in X
    BY <1>3, <2>1
  <2> QED BY <2>1, <2>2 DEF X
<1>5. c = [i \in 1 .. n |-> c[i]] /\ d = [i \in 1 .. n |-> d[i]]
    BY DEF Walks
<1> QED BY <1>4, <1>5

LEMMA ChainIs ==
    ASSUME NEW c, NEW h, NEW n \in Nat \ {0}, NEW nx, NEW pv, NEW al,
           Linked(c, h, n, nx, pv, al)
    PROVE  c = CHOOSE f : Walks(f, h, n, pv)
<1>1. Walks(c, h, n, pv)
  <2>1. c = [i \in 1 .. n |-> c[i]]
    BY DEF Linked
  <2>2. ASSUME NEW i \in 1 .. n PROVE c[i] = IF i = 1 THEN h ELSE pv[c[i - 1]]
    <3>1. CASE i = 1
      BY <3>1 DEF Linked
    <3>2. CASE i # 1
      <4>1. i - 1 \in 1 .. n - 1 /\ (i - 1) + 1 = i
        BY <3>2
      <4> QED BY <3>2, <4>1 DEF Linked
    <3> QED BY <3>1, <3>2
  <2> QED BY <2>1, <2>2 DEF Walks
<1> DEFINE f == CHOOSE g : Walks(g, h, n, pv)
<1>2. Walks(f, h, n, pv)
    BY <1>1
<1> QED BY <1>1, <1>2, OneWalk

(* push: the walk goes on to the new item. *)
LEMMA PushLinked ==
    ASSUME NEW c, NEW h, NEW n \in Nat \ {0}, NEW nx \in [Heap -> Heap \cup {NULL}],
           NEW pv \in [Heap -> Heap \cup {NULL}], NEW al \in SUBSET Heap,
           Linked(c, h, n, nx, pv, al), NEW node \in Heap \ al
    PROVE  LET newest == nx[h] IN
           Linked([i \in 1 .. n + 1 |-> IF i <= n THEN c[i] ELSE node], h, n + 1,
                  [[nx EXCEPT ![node] = h] EXCEPT ![h] = node],
                  [[pv EXCEPT ![node] = newest] EXCEPT ![newest] = node], al \cup {node})
<1> DEFINE newest == nx[h]
           d == [i \in 1 .. n + 1 |-> IF i <= n THEN c[i] ELSE node]
           x == [[nx EXCEPT ![node] = h] EXCEPT ![h] = node]
           p == [[pv EXCEPT ![node] = newest] EXCEPT ![newest] = node]
<1>1. /\ c \in [1 .. n -> Heap] /\ c[1] = h /\ newest = c[n] /\ al = {c[i] : i \in 1 .. n}
      /\ \A i \in 1 .. n - 1 : c[i + 1] = pv[c[i]]
      /\ \A i, j \in 1 .. n : c[i] = c[j] => i = j
    BY DEF Linked
<1>2. \A i \in 1 .. n : d[i] = c[i] /\ c[i] \in Heap /\ c[i] # node /\ c[i] \in al
    BY <1>1
<1>3. d[n + 1] = node
    OBVIOUS
<1>4. 1 \in 1 .. n /\ n \in 1 .. n
    OBVIOUS
<1>5. /\ h \in Heap /\ h # node /\ newest \in Heap /\ newest # node
    BY <1>1, <1>2, <1>4
<1>6. x[h] = node /\ p[newest] = node /\ \A a \in Heap : a # node /\ a # newest => p[a] = pv[a]
    BY <1>5
<1>7. d \in [1 .. n + 1 -> Heap]
    BY <1>1
<1> HIDE DEF d, x, p, newest
<1>8. ASSUME NEW i \in 1 .. (n + 1) - 1 PROVE d[i + 1] = p[d[i]]
  <2>1. CASE i = n
    BY <1>1, <1>2, <1>3, <1>4, <1>6, <2>1
  <2>2. CASE i # n
    <3>1. i \in 1 .. n - 1 /\ i \in 1 .. n /\ i + 1 \in 1 .. n
      BY <2>2
    <3>2. c[i] # newest
      BY <1>1, <1>4, <2>2, <3>1
    <3> QED BY <1>1, <1>2, <1>6, <3>1, <3>2
  <2> QED BY <2>1, <2>2
<1>9. ASSUME NEW i \in 1 .. n + 1, NEW j \in 1 .. n + 1, d[i] = d[j] PROVE i = j
  <2>1. CASE i = n + 1
    BY <1>2, <1>3, <1>9, <2>1
  <2>2. CASE j = n + 1
    BY <1>2, <1>3, <1>9, <2>2
  <2>3. CASE i \in 1 .. n /\ j \in 1 .. n
    BY <1>1, <1>2, <1>9, <2>3
  <2> QED BY <2>1, <2>2, <2>3
<1>10. al \cup {node} = {d[i] : i \in 1 .. n + 1}
  <2>1. ASSUME NEW a \in al \cup {node} PROVE a \in {d[i] : i \in 1 .. n + 1}
    <3>1. CASE a = node
      BY <1>3, <3>1
    <3>2. CASE a \in al
      <4>1. PICK i \in 1 .. n : a = c[i]
        BY <1>1, <3>2
      <4> QED BY <1>2, <4>1
    <3> QED BY <3>1, <3>2
  <2>2. ASSUME NEW i \in 1 .. n + 1 PROVE d[i] \in al \cup {node}
    <3>1. i = n + 1 \/ i \in 1 .. n
      OBVIOUS
    <3> QED BY <1>2, <1>3, <3>1
  <2> QED BY <2>1, <2>2
<1>11. d[1] = h
    BY <1>1, <1>2, <1>4
<1>12. x[h] = d[n + 1]
    BY <1>3, <1>6
<1> QED BY <1>7, <1>8, <1>9, <1>10, <1>11, <1>12 DEF Linked, d, x, p, newest

(* pop: the walk begins at the second item. *)
LEMMA PopLinked ==
    ASSUME NEW c, NEW h, NEW n \in Nat, n > 1, NEW nx \in [Heap -> Heap \cup {NULL}],
           NEW pv \in [Heap -> Heap \cup {NULL}], NEW al \in SUBSET Heap,
           Linked(c, h, n, nx, pv, al)
    PROVE  LET newest == nx[h]
               second == pv[h]
           IN  Linked([i \in 1 .. n - 1 |-> c[i + 1]], second, n - 1,
                      [[[nx EXCEPT ![newest] = second] EXCEPT ![second] = newest]
                           EXCEPT ![h] = NULL],
                      [pv EXCEPT ![h] = NULL], al \ {h})
<1> DEFINE newest == nx[h]
           second == pv[h]
           d == [i \in 1 .. n - 1 |-> c[i + 1]]
           x == [[[nx EXCEPT ![newest] = second] EXCEPT ![second] = newest] EXCEPT ![h] = NULL]
           p == [pv EXCEPT ![h] = NULL]
<1>1. /\ c \in [1 .. n -> Heap] /\ c[1] = h /\ newest = c[n] /\ al = {c[i] : i \in 1 .. n}
      /\ \A i \in 1 .. n - 1 : c[i + 1] = pv[c[i]]
      /\ \A i, j \in 1 .. n : c[i] = c[j] => i = j
    BY DEF Linked
<1>2. \A i \in 1 .. n - 1 : /\ d[i] = c[i + 1] /\ i + 1 \in 1 .. n /\ i + 1 # 1
                            /\ d[i] \in Heap /\ d[i] # h
  <2> SUFFICES ASSUME NEW i \in 1 .. n - 1
               PROVE  /\ d[i] = c[i + 1] /\ i + 1 \in 1 .. n /\ i + 1 # 1
                      /\ d[i] \in Heap /\ d[i] # h
    OBVIOUS
  <2>1. d[i] = c[i + 1] /\ i + 1 \in 1 .. n /\ i + 1 # 1 /\ 1 \in 1 .. n
    OBVIOUS
  <2> HIDE DEF d
  <2> QED BY <1>1, <2>1
<1>3. 1 \in 1 .. n - 1 /\ 1 + 1 = 2 /\ n - 1 \in 1 .. n - 1 /\ (n - 1) + 1 = n /\ 1 \in 1 .. n
    OBVIOUS
<1>4. second = d[1] /\ newest = d[n - 1] /\ h \in Heap
    BY <1>1, <1>2, <1>3
<1>5. second \in Heap /\ second # h /\ newest \in Heap /\ newest # h
    BY <1>2, <1>3, <1>4
<1>6. x[second] = newest /\ \A a \in Heap : a # h => p[a] = pv[a]
    BY <1>5
<1>7. d \in [1 .. n - 1 -> Heap]
    BY <1>1
<1> HIDE DEF d, x, p, newest, second
<1>8. ASSUME NEW i \in 1 .. (n - 1) - 1 PROVE d[i + 1] = p[d[i]]
  <2>1. i \in 1 .. n - 1 /\ i + 1 \in 1 .. n - 1
    OBVIOUS
  <2>2. d[i + 1] = pv[c[i + 1]] /\ d[i] = c[i + 1]
    BY <1>1, <1>2, <2>1
  <2> QED BY <1>2, <1>6, <2>1, <2>2
<1>9. ASSUME NEW i \in 1 .. n - 1, NEW j \in 1 .. n - 1, d[i] = d[j] PROVE i = j
  <2>1. i + 1 = j + 1
    BY <1>1, <1>2, <1>9
  <2> QED BY <2>1
<1>10. al \ {h} = {d[i] : i \in 1 .. n - 1}
  <2>1. ASSUME NEW a \in al \ {h} PROVE a \in {d[i] : i \in 1 .. n - 1}
    <3>1. PICK i \in 1 .. n : a = c[i]
      BY <1>1
    <3>2. i - 1 \in 1 .. n - 1 /\ (i - 1) + 1 = i
      BY <1>1, <3>1
    <3> QED BY <1>2, <3>1, <3>2
  <2>2. ASSUME NEW i \in 1 .. n - 1 PROVE d[i] \in al \ {h}
    BY <1>1, <1>2
  <2> QED BY <2>1, <2>2
<1>11. x[second] = d[n - 1] /\ d[1] = second
    BY <1>4, <1>6
<1> QED BY <1>7, <1>8, <1>9, <1>10, <1>11 DEF Linked, d, x, p, newest, second

(* The nodes of the queue are linked through the chain, as long as there are *)
(* any.                                                                      *)
Walk == CHOOSE f : Walks(f, head, count, prev)

QueueInv ==
    /\ count \in Nat /\ allocated \in SUBSET Heap /\ data \in [Heap -> Values]
    /\ next \in [Heap -> Heap \cup {NULL}] /\ prev \in [Heap -> Heap \cup {NULL}]
    /\ count = 0 => allocated = {}
    /\ count > 0 => Linked(Walk, head, count, next, prev, allocated)

LEMMA ChainWalks == Q!chain = Walk
    BY DEF Q!chain, Walk, Walks

(* What a step does to the queue of the abstract specification. *)
LEMMA QueueStep ==
    ASSUME QueueInv, [Q!Next]_(Q!vars)
    PROVE  QueueInv' /\ [Q!Abs!FifoNext]_<<Q!Contents, popped>>
<1>1. ASSUME NEW item \in Heap \ allocated, NEW value \in Values,
             LET r == Q!push([next EXCEPT ![item] = NULL],
                             [prev EXCEPT ![item] = NULL], item)
             IN head' = r[1] /\ next' = r[2] /\ prev' = r[3],
             data' = [data EXCEPT ![item] = value],
             allocated' = allocated \cup {item}, count' = count + 1, popped' = popped
      PROVE  QueueInv' /\ Q!Contents' = Append(Q!Contents, value)
  <2> DEFINE c == Walk
             nx == [next EXCEPT ![item] = NULL]
             pv == [prev EXCEPT ![item] = NULL]
             d == [i \in 1 .. count + 1 |-> IF i <= count THEN c[i] ELSE item]
  <2>1. /\ nx \in [Heap -> Heap \cup {NULL}] /\ pv \in [Heap -> Heap \cup {NULL}]
        /\ \A a \in Heap \ {item} : nx[a] = next[a] /\ pv[a] = prev[a]
        /\ count \in Nat /\ count' \in Nat \ {0} /\ allocated \in SUBSET Heap
    BY <1>1 DEF QueueInv
  <2>2. /\ count = 0 => /\ head' = item
                        /\ next' = [nx EXCEPT ![item] = item]
                        /\ prev' = [pv EXCEPT ![item] = item]
        /\ count > 0 => /\ head' = head
                        /\ next' = [[nx EXCEPT ![item] = head] EXCEPT ![head] = item]
                        /\ prev' = [[pv EXCEPT ![item] = nx[head]] EXCEPT ![nx[head]] = item]
    BY <1>1, <2>1 DEF Q!push
  <2> HIDE DEF c, nx, pv
  <2>3. Linked(d, head', count', next', prev', allocated')
    <3>1. CASE count = 0
      <4>1. count' = 1 /\ allocated' = {item} /\ head' = item
        BY <1>1, <2>1, <2>2, <3>1 DEF QueueInv
      <4>3. next'[item] = item
        BY <2>1, <2>2, <3>1
      <4>4. d = [i \in 1 .. 1 |-> item]
        BY <3>1
      <4>2. /\ d \in [1 .. 1 -> Heap] /\ d[1] = item /\ 1 .. 1 - 1 = {}
            /\ {d[i] : i \in 1 .. 1} = {item} /\ \A i, j \in 1 .. 1 : i = j
        BY <4>4
      <4> HIDE DEF d
      <4> QED BY <4>1, <4>2, <4>3, Zenon DEF Linked
    <3>2. CASE count > 0
      <4>1. Linked(c, head, count, next, prev, allocated)
        BY <3>2 DEF QueueInv, c
      <4>2. /\ \A i \in 1 .. count : c[i] \in Heap \ {item}
            /\ head \in Heap \ {item}
        BY <2>1, <3>2, <4>1 DEF Linked
      <4>3. Linked(c, head, count, nx, pv, allocated)
        BY <2>1, <3>2, <4>1, <4>2 DEF Linked
      <4>4. count \in Nat \ {0}
        BY <2>1, <3>2
      <4> HIDE DEF d
      <4>5. Linked([i \in 1 .. count + 1 |-> IF i <= count THEN c[i] ELSE item], head,
                   count + 1, [[nx EXCEPT ![item] = head] EXCEPT ![head] = item],
                   [[pv EXCEPT ![item] = nx[head]] EXCEPT ![nx[head]] = item],
                   allocated \cup {item})
        BY <1>1, <2>1, <4>3, <4>4, PushLinked
      <4> QED BY <1>1, <2>2, <3>2, <4>5, Zenon DEF d
    <3> QED BY <2>1, <3>1, <3>2
  <2>4. Walk' = d
    <3> HIDE DEF d
    <3>1. d = CHOOSE f : Walks(f, head', count', prev')
      BY <2>1, <2>3, ChainIs
    <3> QED BY <3>1 DEF Walk, Walks
  <2>5. QueueInv'
    <3>1. Linked(Walk', head', count', next', prev', allocated')
      BY <2>3, <2>4, Zenon
    <3>3. data' \in [Heap -> Values]
      BY <1>1 DEF QueueInv
    <3>2. /\ allocated' \in SUBSET Heap /\ count' \in Nat /\ count' # 0
          /\ next' \in [Heap -> Heap \cup {NULL}] /\ prev' \in [Heap -> Heap \cup {NULL}]
      <4>1. CASE count = 0
        <5>1. /\ next' = [nx EXCEPT ![item] = item] /\ prev' = [pv EXCEPT ![item] = item]
              /\ item \in Heap
          BY <1>1, <2>2, <4>1
        <5>2. allocated' \in SUBSET Heap /\ count' \in Nat /\ count' # 0
          BY <1>1, <2>1
        <5> QED BY <2>1, <5>1, <5>2
      <4>2. CASE count > 0
        <5>1. head \in Heap
          BY <2>1, <4>2 DEF QueueInv, Linked
        <5>2. /\ next' = [[nx EXCEPT ![item] = head] EXCEPT ![head] = item]
              /\ prev' = [[pv EXCEPT ![item] = nx[head]] EXCEPT ![nx[head]] = item]
              /\ item \in Heap
          BY <1>1, <2>2, <4>2
        <5>3. allocated' \in SUBSET Heap /\ count' \in Nat /\ count' # 0
          BY <1>1, <2>1
        <5> QED BY <2>1, <5>1, <5>2, <5>3
      <4> QED BY <2>1, <4>1, <4>2
    <3> QED BY <3>1, <3>2, <3>3 DEF QueueInv
  <2>6. Q!Contents' = [i \in 1 .. count + 1 |-> data'[d[i]]]
    <3>1. Q!chain' = Walk'
      BY DEF Q!chain, Walk, Walks
    <3> HIDE DEF d
    <3>2. Q!chain' = d
      BY <2>4, <3>1
    <3> QED BY <1>1, <3>2 DEF Q!Contents
  <2>7. Q!Contents = [i \in 1 .. count |-> data[c[i]]]
    BY ChainWalks DEF Q!Contents, c
  <2>8. \A i \in 1 .. count : d[i] = c[i] /\ c[i] \in Heap /\ c[i] # item
    BY <2>1 DEF QueueInv, Linked, c
  <2>9. d[count + 1] = item
    BY <2>1
  <2> HIDE DEF d
  <2>10. /\ \A i \in 1 .. count : data'[d[i]] = data[c[i]]
         /\ data'[d[count + 1]] = value
    <3>1. data \in [Heap -> Values]
      BY DEF QueueInv
    <3> QED BY <1>1, <2>8, <2>9, <3>1
  <2>11. Q!Contents' = Append(Q!Contents, value)
    BY <2>1, <2>6, <2>7, <2>10
  <2> QED BY <2>5, <2>11
<1>2. ASSUME Q!PopItem
      PROVE  /\ QueueInv'
             /\ Q!Contents # <<>> /\ popped' = Head(Q!Contents)
             /\ Q!Contents' = Tail(Q!Contents)
  <2> DEFINE c == Walk
             d == [i \in 1 .. count - 1 |-> c[i + 1]]
  <2>1. /\ count > 0 /\ count \in Nat /\ allocated \in SUBSET Heap
        /\ next \in [Heap -> Heap \cup {NULL}] /\ prev \in [Heap -> Heap \cup {NULL}]
        /\ Linked(c, head, count, next, prev, allocated)
        /\ allocated' = allocated \ {head} /\ count' = count - 1 /\ data' = data
        /\ popped' = data[head] /\ data \in [Heap -> Values]
    BY <1>2 DEF Q!PopItem, QueueInv
  <2>2. /\ count = 1 => /\ next' = [next EXCEPT ![head] = NULL]
                        /\ prev' = [prev EXCEPT ![head] = NULL]
        /\ count # 1 => /\ head' = prev[head]
                        /\ next' = [[[next EXCEPT ![next[head]] = prev[head]]
                              EXCEPT ![prev[head]] = next[head]] EXCEPT ![head] = NULL]
                        /\ prev' = [prev EXCEPT ![head] = NULL]
    BY <1>2 DEF Q!PopItem, Q!pop
  <2> HIDE DEF c
  <2>3. /\ c \in [1 .. count -> Heap] /\ head = c[1] /\ head \in Heap
        /\ allocated = {c[i] : i \in 1 .. count}
    BY <2>1 DEF Linked
  <2>4. /\ next' \in [Heap -> Heap \cup {NULL}] /\ prev' \in [Heap -> Heap \cup {NULL}]
    <3>1. CASE count = 1
      BY <2>1, <2>2, <2>3, <3>1
    <3>2. CASE count # 1
      BY <2>1, <2>2, <2>3, <3>2
    <3> QED BY <3>1, <3>2
  <2>5. ASSUME count # 1
        PROVE  Linked(d, head', count', next', prev', allocated') /\ Walk' = d
    <3>1. count > 1 /\ count' \in Nat \ {0}
      BY <2>1, <2>5
    <3> HIDE DEF d
    <3>2. Linked([i \in 1 .. count - 1 |-> c[i + 1]], prev[head], count - 1,
                 [[[next EXCEPT ![next[head]] = prev[head]]
                       EXCEPT ![prev[head]] = next[head]] EXCEPT ![head] = NULL],
                 [prev EXCEPT ![head] = NULL], allocated \ {head})
      BY <2>1, <3>1, PopLinked
    <3>3. Linked(d, head', count', next', prev', allocated')
      BY <2>1, <2>2, <2>5, <3>2, Zenon DEF d
    <3>4. d = CHOOSE f : Walks(f, head', count', prev')
      BY <3>1, <3>3, ChainIs
    <3> QED BY <3>3, <3>4 DEF Walk, Walks
  <2>6. QueueInv'
    <3>1. CASE count = 1
      <4>1. allocated' = {} /\ count' = 0
        BY <2>1, <2>3, <3>1
      <4> QED BY <2>1, <2>4, <4>1 DEF QueueInv
    <3>2. CASE count # 1
      <4>1. Linked(Walk', head', count', next', prev', allocated')
        BY <2>5, <3>2, Zenon
      <4>2. count' \in Nat /\ count' # 0 /\ allocated' \in SUBSET Heap
        BY <2>1, <3>2
      <4> QED BY <2>1, <2>4, <4>1, <4>2 DEF QueueInv
    <3> QED BY <3>1, <3>2
  <2>7. Q!Contents = [i \in 1 .. count |-> data[c[i]]]
    BY ChainWalks DEF Q!Contents, c
  <2>8. Q!Contents' = [i \in 1 .. count - 1 |-> data[c[i + 1]]]
    <3>1. CASE count = 1
      <4>1. count' = 0 /\ 1 .. 0 = {} /\ count - 1 = 0
        BY <2>1, <3>1
      <4> QED BY <4>1 DEF Q!Contents
    <3>2. CASE count # 1
      <4>1. Q!Contents' = [i \in 1 .. count - 1 |-> data[d[i]]]
        <5>1. Q!chain' = Walk'
          BY DEF Q!chain, Walk, Walks
        <5> QED BY <2>1, <2>5, <3>2, <5>1, Zenon DEF Q!Contents
      <4>2. \A i \in 1 .. count - 1 : d[i] = c[i + 1]
        OBVIOUS
      <4> HIDE DEF d
      <4> QED BY <4>1, <4>2
    <3> QED BY <3>1, <3>2
  <2>9. Q!Contents' = Tail(Q!Contents) /\ Q!Contents # <<>> /\ Head(Q!Contents) = data[c[1]]
    <3> DEFINE s == [i \in 1 .. count |-> data[c[i]]]
               t == [i \in 1 .. count - 1 |-> data[c[i + 1]]]
    <3>1. s \in Seq(Values) /\ Len(s) = count
      BY <2>1, <2>3 DEF QueueInv
    <3>2. s # <<>> /\ Head(s) = data[c[1]]
      BY <2>1, <3>1
    <3>3. \A i \in 1 .. count - 1 : s[i + 1] = t[i]
      BY <2>1
    <3>4. t = [i \in 1 .. count - 1 |-> t[i]]
      OBVIOUS
    <3> HIDE DEF s, t
    <3>5. Tail(s) = [i \in 1 .. count - 1 |-> s[i + 1]]
      <4>1. /\ Tail(s) \in Seq(Values) /\ Len(Tail(s)) = count - 1
            /\ \A i \in 1 .. Len(s) - 1 : Tail(s)[i] = s[i + 1]
        BY <3>1, <3>2
      <4>2. \A r \in Seq(Values) : r = [i \in 1 .. Len(r) |-> r[i]]
        OBVIOUS
      <4>3. Tail(s) = [i \in 1 .. count - 1 |-> Tail(s)[i]]
        BY <4>1, <4>2, Zenon
      <4> QED BY <3>1, <4>1, <4>3
    <3>6. Tail(s) = t
      BY <3>3, <3>4, <3>5
    <3> QED BY <2>7, <2>8, <3>2, <3>6 DEF s, t
  <2> QED BY <2>1, <2>3, <2>6, <2>9
<1>3. ASSUME UNCHANGED <<count, head, next, prev, data, allocated, popped>>
      PROVE  QueueInv' /\ UNCHANGED <<Q!Contents, popped>>
  <2>1. UNCHANGED Walk
    BY <1>3 DEF Walk
  <2> QED BY <1>3, <2>1 DEF QueueInv, Q!Contents, Q!chain, Walk, Walks
<1>4. CASE Q!PushItem
    BY <1>1, <1>4, Zenon DEF Q!PushItem, Q!Abs!FifoNext, Q!Abs!Enter
<1>5. CASE Q!PopItem
    BY <1>2, <1>5, Zenon DEF Q!Abs!FifoNext, Q!Abs!Leave
<1>6. CASE Q!PushNoMemory \/ Q!PopNeverPushed \/ Q!PopEmptied \/ Q!Quit \/ Q!Over \/ UNCHANGED Q!vars
    BY <1>3, <1>6 DEF Q!PushNoMemory, Q!PopNeverPushed, Q!PopEmptied, Q!Quit, Q!Over, Q!vars
<1> QED BY <1>4, <1>5, <1>6 DEF Q!Next

(* prog_queue.c with any heap and any values: the links are well formed, and *)
(* the queue implements Fifo.                                                *)
THEOREM QueueHolds == Q!Spec => QueueRight
<1>1. Q!Init => QueueInv /\ Q!Abs!FifoInit
  <2> SUFFICES ASSUME Q!Init PROVE QueueInv /\ Q!Abs!FifoInit
    OBVIOUS
  <2>1. Q!Contents = <<>>
    BY DEF Q!Init, Q!Contents
  <2> QED BY <2>1 DEF Q!Init, QueueInv, Q!Abs!FifoInit
<1>2. QueueInv => Q!WellLinked
  <2> SUFFICES ASSUME QueueInv, count > 0
               PROVE  /\ {Walk[i] : i \in 1 .. count} = allocated
                      /\ \A i, j \in 1 .. count : i # j => Walk[i] # Walk[j]
                      /\ next[head] = Walk[count]
    BY ChainWalks DEF Q!WellLinked
  <2> QED BY DEF QueueInv, Linked
<1>3. QueueInv /\ [Q!Next]_(Q!vars) => QueueInv' /\ [Q!Abs!FifoNext]_<<Q!Contents, popped>>
    BY QueueStep
<1> QED BY <1>1, <1>2, <1>3, PTL DEF Q!Spec, QueueRight, Q!FifoSpec, Q!Abs!FifoSpec

-----------------------------------------------------------------------------
(* The CDP walk *)

(* Relations; the two forms of one; a list that has each in one form only.   *)
Related == Hosts \X Nat \X Hosts \X Nat
Forms(r) == {r, W!Mirror(r)}
Listed(list) == {Forms(r) : r \in Elems(list)}
Once(list) ==
    \A i, j \in 1 .. Len(list) :
        i # j => list[i] # list[j] /\ list[i] # W!Mirror(list[j])

LEMMA Mirrored ==
    ASSUME NEW r \in Related
    PROVE  /\ W!Mirror(r) \in Related /\ W!Mirror(W!Mirror(r)) = r
           /\ Forms(W!Mirror(r)) = Forms(r)
<1>1. W!Mirror(r) \in Related /\ W!Mirror(W!Mirror(r)) = r
    BY DEF Related, W!Mirror
<1> QED BY <1>1 DEF Forms

(* Appending what is not there in either form. *)
LEMMA NewAppended ==
    ASSUME NEW list \in Seq(Related), NEW r \in Related, Once(list)
    PROVE  LET new == W!AppendNew(list, r)
           IN  /\ new \in Seq(Related) /\ Once(new)
               /\ Listed(new) = Listed(list) \cup {Forms(r)}
<1>0. W!Range(list) = Elems(list)
    BY DEF W!Range, Elems
<1>1. CASE r \in Elems(list) \/ W!Mirror(r) \in Elems(list)
  <2>1. W!AppendNew(list, r) = list
    BY <1>0, <1>1 DEF W!AppendNew
  <2>2. Forms(r) \in Listed(list)
    BY <1>1, Mirrored DEF Listed
  <2> QED BY <2>1, <2>2
<1>2. CASE r \notin Elems(list) /\ W!Mirror(r) \notin Elems(list)
  <2> DEFINE new == Append(list, r)
  <2>1. W!AppendNew(list, r) = new
    BY <1>0, <1>2 DEF W!AppendNew
  <2>2. /\ new \in Seq(Related) /\ Len(list) \in Nat /\ Len(new) = Len(list) + 1
        /\ \A i \in 1 .. Len(list) : new[i] = list[i] /\ list[i] \in Elems(list)
        /\ new[Len(list) + 1] = r
    BY DEF Elems
  <2>3. Elems(new) = Elems(list) \cup {r}
    BY AppendedElems
  <2>4. Listed(new) = Listed(list) \cup {Forms(r)}
    BY <2>3 DEF Listed
  <2> HIDE DEF new
  <2>5. ASSUME NEW i \in 1 .. Len(new), NEW j \in 1 .. Len(new), i # j
        PROVE  new[i] # new[j] /\ new[i] # W!Mirror(new[j])
    <3>1. CASE i \in 1 .. Len(list) /\ j \in 1 .. Len(list)
      BY <2>2, <2>5, <3>1 DEF Once
    <3>2. CASE i \in 1 .. Len(list) /\ j = Len(list) + 1
      BY <1>2, <2>2, <3>2
    <3>3. CASE j \in 1 .. Len(list) /\ i = Len(list) + 1
      <4>1. new[j] \in Elems(list) /\ new[i] = r /\ new[j] \in Related
        BY <2>2, <3>3
      <4>2. r = W!Mirror(new[j]) => W!Mirror(r) = new[j]
        BY <4>1, Mirrored
      <4> QED BY <1>2, <4>1, <4>2
    <3> QED BY <2>2, <2>5, <3>1, <3>2, <3>3
  <2>6. Once(new)
    BY <2>5 DEF Once
  <2> QED BY <2>1, <2>2, <2>4, <2>6
<1> QED BY <1>1, <1>2

(* Merging, relation by relation. *)
Merges(n, m) ==
    m = [k \in 0 .. n |-> IF k = 0 THEN relations ELSE W!AppendNew(m[k - 1], rel[k])]

LEMMA MergesExist == \A n \in Nat : \E m : Merges(n, m)
<1> DEFINE X == {n \in Nat : \E m : Merges(n, m)}
<1>1. 0 \in X
  <2>1. Merges(0, [k \in 0 .. 0 |-> relations])
    BY DEF Merges
  <2> QED BY <2>1
<1>2. ASSUME NEW n \in Nat, n \in X PROVE n + 1 \in X
  <2>1. PICK m : Merges(n, m)
    BY <1>2
  <2> DEFINE g == [k \in 0 .. n + 1 |->
                      IF k <= n THEN m[k] ELSE W!AppendNew(m[n], rel[n + 1])]
  <2>2. ASSUME NEW k \in 0 .. n + 1
        PROVE  g[k] = IF k = 0 THEN relations ELSE W!AppendNew(g[k - 1], rel[k])
    <3>1. CASE k = 0
      BY <2>1, <3>1 DEF Merges
    <3>2. CASE k \in 1 .. n
      <4>1. m[k] = W!AppendNew(m[k - 1], rel[k])
        BY <2>1, <3>2 DEF Merges
      <4>2. g[k] = m[k] /\ g[k - 1] = m[k - 1] /\ k # 0
        BY <3>2
      <4> QED BY <4>1, <4>2
    <3>3. CASE k = n + 1
      BY <3>3
    <3> QED BY <3>1, <3>2, <3>3
  <2>3. Merges(n + 1, g)
    BY <2>2 DEF Merges
  <2> HIDE DEF g
  <2> QED BY <2>3
<1> HIDE DEF X
<1>3. \A n \in Nat : n \in X
    BY <1>1, <1>2, Induct
<1> QED BY <1>3 DEF X

LEMMA MergedRight ==
    ASSUME relations \in Seq(Related), Once(relations), rel \in Seq(Related)
    PROVE  /\ W!Merged \in Seq(Related) /\ Once(W!Merged)
           /\ Listed(W!Merged) = Listed(relations) \cup Listed(rel)
<1> DEFINE m == CHOOSE f : Merges(Len(rel), f)
<1>1. Merges(Len(rel), m)
  <2>1. Len(rel) \in Nat
    OBVIOUS
  <2> QED BY <2>1, MergesExist
<1>2. W!Merged = m[Len(rel)]
    BY DEF W!Merged, Merges
<1> HIDE DEF m
<1>3. m[0] = relations /\ \A k \in 1 .. Len(rel) : m[k] = W!AppendNew(m[k - 1], rel[k])
  <2>1. \A k \in 0 .. Len(rel) :
            m[k] = IF k = 0 THEN relations ELSE W!AppendNew(m[k - 1], rel[k])
    BY <1>1 DEF Merges
  <2> QED BY <2>1
<1> DEFINE Right(n) == /\ m[n] \in Seq(Related) /\ Once(m[n])
                       /\ Listed(m[n]) = Listed(relations)
                                            \cup {Forms(rel[k]) : k \in 1 .. n}
           X == {n \in Nat : n <= Len(rel) => Right(n)}
<1>4. 0 \in X
  <2>1. {Forms(rel[k]) : k \in 1 .. 0} = {}
    OBVIOUS
  <2>2. Right(0)
    BY <1>3, <2>1
  <2> HIDE DEF Right
  <2> QED BY <2>2
<1>5. ASSUME NEW n \in Nat, n \in X PROVE n + 1 \in X
  <2> SUFFICES ASSUME n + 1 <= Len(rel) PROVE Right(n + 1)
    OBVIOUS
  <2>1. n + 1 \in 1 .. Len(rel) /\ (n + 1) - 1 = n /\ n <= Len(rel)
    OBVIOUS
  <2>2. rel[n + 1] \in Related /\ Right(n)
    BY <1>5, <2>1
  <2>3. m[n + 1] = W!AppendNew(m[n], rel[n + 1])
    BY <1>3, <2>1
  <2>4. /\ m[n + 1] \in Seq(Related) /\ Once(m[n + 1])
        /\ Listed(m[n + 1]) = Listed(m[n]) \cup {Forms(rel[n + 1])}
    BY <2>2, <2>3, NewAppended
  <2>5. {Forms(rel[k]) : k \in 1 .. n + 1}
           = {Forms(rel[k]) : k \in 1 .. n} \cup {Forms(rel[n + 1])}
    <3>1. 1 .. n + 1 = (1 .. n) \cup {n + 1}
      OBVIOUS
    <3> QED BY <3>1
  <2> QED BY <2>2, <2>4, <2>5
<1> HIDE DEF X
<1>6. Len(rel) \in X
  <2>1. Len(rel) \in Nat
    OBVIOUS
  <2> QED BY <1>4, <1>5, <2>1, Induct
<1>7. {Forms(rel[k]) : k \in 1 .. Len(rel)} = Listed(rel)
    BY DEF Listed, Elems
<1> QED BY <1>2, <1>6, <1>7 DEF X

(* The links with an end at one of the hosts, and the relation an entry of   *)
(* the cache of h is about.                                                  *)
LinksAt(hs) == {Forms(k) : k \in {e \in links : {e[1], e[3]} \cap hs # {}}}
Entry(h, e) == <<h, e[1], e[2], e[3]>>
Flat == \A h \in Hosts : W!PointToPoint(h)

(* The list and what is on its way into it are the links of the hosts asked, *)
(* where each port leads to one neighbour.                                   *)
CdpInv ==
    /\ links \subseteq Related
    /\ args \in Seq(Hosts)
    /\ relations \in Seq(Related) /\ Once(relations)
    /\ rel \in Seq(Related) /\ Once(rel)
    /\ wpc \in {"host", "rows", "merge", "printed", "crashed"}
    /\ wpc \in {"host", "printed"} => rel = <<>>
    /\ wpc \in {"rows", "merge"} => args # <<>>
    /\ rows # {} => wpc \in {"rows", "crashed"}
    /\ wpc = "rows" =>
          /\ rows \subseteq W!Ends(Head(args))
          /\ \A e \in rows : /\ deviceid[e[1]] \in Hosts
                             /\ Flat => deviceid[e[1]] = e[2]
    /\ wpc # "crashed" /\ Flat =>
          Listed(relations) \cup Listed(rel) \cup {Forms(Entry(Head(args), e)) : e \in rows}
             = LinksAt(asked)

(* What the agent of a host says is about the links of this host. *)
LEMMA CacheIs ==
    ASSUME links \subseteq Related, NEW h \in Hosts
    PROVE  /\ \A e \in W!Ends(h) : Entry(h, e) \in Related
           /\ W!Ends(h) \subseteq Nat \X Hosts \X Nat
           /\ {Forms(Entry(h, e)) : e \in W!Ends(h)} = LinksAt({h})
<1>1. ASSUME NEW k \in links
      PROVE  /\ k \in Related /\ k = <<k[1], k[2], k[3], k[4]>>
             /\ k[1] \in Hosts /\ k[2] \in Nat /\ k[3] \in Hosts /\ k[4] \in Nat
    BY DEF Related
<1>2. ASSUME NEW e \in W!Ends(h)
      PROVE  /\ Entry(h, e) \in Related /\ e \in Nat \X Hosts \X Nat
             /\ Forms(Entry(h, e)) \in LinksAt({h})
  <2>1. PICK b \in links \cup {W!Mirror(k) : k \in links} :
            b[1] = h /\ e = <<b[2], b[3], b[4]>>
    BY DEF W!Ends
  <2>2. CASE b \in links
    <3>1. Entry(h, e) = b
      BY <1>1, <2>1, <2>2 DEF Entry
    <3>2. e \in Nat \X Hosts \X Nat
      BY <1>1, <2>1, <2>2
    <3> QED BY <1>1, <2>1, <2>2, <3>1, <3>2 DEF LinksAt
  <2>3. CASE b \notin links
    <3>1. PICK k \in links : b = W!Mirror(k)
      BY <2>1, <2>3
    <3>2. b = <<k[3], k[4], k[1], k[2]>> /\ k[3] = h
      BY <2>1, <3>1 DEF W!Mirror
    <3>3. e = <<k[4], k[1], k[2]>>
      BY <2>1, <3>2
    <3>4. Entry(h, e) = b /\ e \in Nat \X Hosts \X Nat
      BY <1>1, <3>2, <3>3 DEF Entry
    <3>5. Forms(b) = Forms(k) /\ b \in Related
      BY <1>1, <3>1, Mirrored
    <3> QED BY <3>2, <3>4, <3>5 DEF LinksAt
  <2> QED BY <2>2, <2>3
<1>3. ASSUME NEW k \in links, h \in {k[1], k[3]}
      PROVE  Forms(k) \in {Forms(Entry(h, e)) : e \in W!Ends(h)}
  <2>1. CASE k[1] = h
    <3>1. <<k[2], k[3], k[4]>> \in W!Ends(h)
      BY <2>1 DEF W!Ends
    <3>2. Entry(h, <<k[2], k[3], k[4]>>) = k
      BY <1>1, <2>1 DEF Entry
    <3> QED BY <3>1, <3>2
  <2>2. CASE k[3] = h
    <3> DEFINE b == W!Mirror(k)
    <3>1. b = <<h, k[4], k[1], k[2]>> /\ b[1] = h
      BY <2>2 DEF W!Mirror
    <3>2. <<b[2], b[3], b[4]>> \in W!Ends(h)
      BY <3>1 DEF W!Ends
    <3>3. Entry(h, <<b[2], b[3], b[4]>>) = b
      BY <3>1 DEF Entry
    <3>4. Forms(b) = Forms(k)
      BY <1>1, Mirrored
    <3> QED BY <3>2, <3>3, <3>4
  <2> QED BY <1>3, <2>1, <2>2
<1>4. LinksAt({h}) = {Forms(k) : k \in {e \in links : h \in {e[1], e[3]}}}
    BY DEF LinksAt
<1> QED BY <1>2, <1>3, <1>4

LEMMA CdpStep == CdpInv /\ [W!Next]_(W!vars) => CdpInv'
<1> SUFFICES ASSUME CdpInv, [W!Next]_(W!vars) PROVE CdpInv'
    OBVIOUS
<1>1. UNCHANGED links
    BY DEF W!Next, W!SkipHost, W!WalkHost, W!PortRow, W!GetFails, W!LastRow,
           W!merge_relations, W!print_relations, W!vars
<1>2. \A hs : LinksAt(hs)' = LinksAt(hs)
    BY <1>1 DEF LinksAt
<1>3. UNCHANGED Flat /\ \A h : W!Ends(h)' = W!Ends(h)
    BY <1>1 DEF Flat, W!PointToPoint, W!Ends
<1>4. Elems(<<>>) = {} /\ Once(<<>>) /\ <<>> \in Seq(Related) /\ Listed(<<>>) = {}
    BY NoElems DEF Once, Listed
<1>5. /\ links \subseteq Related /\ args \in Seq(Hosts)
      /\ relations \in Seq(Related) /\ Once(relations) /\ rel \in Seq(Related) /\ Once(rel)
    BY DEF CdpInv
<1>6. args # <<>> => Head(args) \in Hosts /\ Tail(args) \in Seq(Hosts)
    BY <1>5
<1> DEFINE Covers == Listed(relations) \cup Listed(rel)
                        \cup {Forms(Entry(Head(args), e)) : e \in rows}
<1>7. wpc # "crashed" /\ Flat => Covers = LinksAt(asked)
    BY DEF CdpInv
<1>8. CASE W!SkipHost
  <2>1. rows = {} /\ rel = <<>>
    BY <1>8 DEF W!SkipHost, CdpInv
  <2>2. UNCHANGED <<relations, rel, rows, asked, wpc>> /\ args' = Tail(args) /\ args # <<>>
        /\ wpc = "host"
    BY <1>8 DEF W!SkipHost
  <2>3. Covers' = Covers
    BY <2>1, <2>2
  <2>4. LinksAt(asked)' = LinksAt(asked)
    BY <1>1, <2>2 DEF LinksAt
  <2> HIDE DEF Covers
  <2>5. wpc' # "crashed" /\ Flat' => Covers' = LinksAt(asked)'
    BY <1>3, <1>7, <2>2, <2>3, <2>4
  <2> QED BY <1>1, <1>5, <1>6, <2>1, <2>2, <2>5 DEF CdpInv, Covers
<1>9. CASE W!WalkHost
  <2> DEFINE h == Head(args)
  <2>1. /\ wpc = "host" /\ args # <<>> /\ rows' = W!Ends(h) /\ asked' = asked \cup {h}
        /\ rel' = <<>> /\ wpc' = "rows" /\ UNCHANGED <<args, relations>>
        /\ rows = {} /\ rel = <<>>
    BY <1>9 DEF W!WalkHost, CdpInv
  <2>2. /\ deviceid' \in [{e[1] : e \in rows'} -> Hosts]
        /\ \A i \in DOMAIN deviceid' : \E e \in rows' :
               W!LastOn(h, i, e) /\ deviceid'[i] = e[2]
    BY <1>9 DEF W!WalkHost
  <2>3. h \in Hosts
    BY <1>6, <2>1
  <2>4. ASSUME NEW e \in rows'
        PROVE  deviceid'[e[1]] \in Hosts /\ (Flat => deviceid'[e[1]] = e[2])
    <3>1. e[1] \in DOMAIN deviceid' /\ deviceid'[e[1]] \in Hosts
      BY <2>2
    <3>2. PICK o \in rows' : W!LastOn(h, e[1], o) /\ deviceid'[e[1]] = o[2]
      BY <2>2, <3>1
    <3>3. Flat => o = e
      BY <2>1, <2>3, <2>4, <3>2 DEF Flat, W!PointToPoint, W!LastOn
    <3> QED BY <3>1, <3>2, <3>3
  <2>5. LinksAt(asked)' = LinksAt(asked) \cup LinksAt({h})
    BY <1>1, <2>1 DEF LinksAt
  <2>6. Listed(rel) = {} /\ Listed(rel)' = {}
    BY <1>4, <2>1
  <2>7. {Forms(Entry(Head(args), e)) : e \in rows}' = LinksAt({h})
    BY <1>5, <2>1, <2>3, CacheIs
  <2>8. Flat => Covers' = LinksAt(asked)'
    BY <1>7, <2>1, <2>5, <2>6, <2>7
  <2> HIDE DEF Covers
  <2>9. rows' \subseteq W!Ends(Head(args))' /\ rel' \in Seq(Related) /\ Once(rel)'
    BY <1>1, <1>4, <2>1 DEF W!Ends
  <2> QED BY <1>1, <1>3, <1>5, <2>1, <2>4, <2>8, <2>9 DEF CdpInv, Covers
<1>10. CASE W!PortRow
  <2> DEFINE h == Head(args)
  <2>1. /\ wpc = "rows" /\ args # <<>> /\ UNCHANGED <<args, asked, deviceid, relations, wpc>>
        /\ rows \subseteq W!Ends(h)
    BY <1>10 DEF W!PortRow, CdpInv
  <2>2. PICK e \in rows : /\ rel' = W!AppendNew(rel, <<h, e[1], deviceid[e[1]], e[3]>>)
                          /\ rows' = rows \ {e}
    BY <1>10 DEF W!PortRow
  <2> DEFINE r == <<h, e[1], deviceid[e[1]], e[3]>>
  <2>3. h \in Hosts /\ e \in Nat \X Hosts \X Nat /\ deviceid[e[1]] \in Hosts
        /\ (Flat => deviceid[e[1]] = e[2])
    BY <1>5, <1>6, <2>1, CacheIs DEF CdpInv
  <2>4. r \in Related /\ (Flat => r = Entry(h, e))
    BY <2>3 DEF Related, Entry
  <2> HIDE DEF r
  <2>5. /\ rel' \in Seq(Related) /\ Once(rel')
        /\ Listed(rel') = Listed(rel) \cup {Forms(r)}
    <3>1. rel' = W!AppendNew(rel, r)
      BY <2>2 DEF r
    <3> QED BY <1>5, <2>4, <3>1, NewAppended
  <2>6. {Forms(Entry(h, o)) : o \in rows}
           = {Forms(Entry(h, o)) : o \in rows'} \cup {Forms(Entry(h, e))}
    BY <2>2
  <2>7. Covers' = Listed(relations) \cup Listed(rel') \cup {Forms(Entry(h, o)) : o \in rows'}
    BY <2>1 DEF Listed, Elems
  <2>8. Flat => Covers' = Covers
    BY <2>4, <2>5, <2>6, <2>7
  <2>9. LinksAt(asked)' = LinksAt(asked)
    BY <1>1, <2>1 DEF LinksAt
  <2> HIDE DEF Covers
  <2>10. Flat' => Covers' = LinksAt(asked)'
    BY <1>3, <1>7, <2>1, <2>8, <2>9
  <2>11. /\ rows' \subseteq W!Ends(Head(args))'
         /\ \A o \in rows' : deviceid'[o[1]] \in Hosts /\ (Flat' => deviceid'[o[1]] = o[2])
    BY <1>1, <1>3, <2>1, <2>2 DEF CdpInv, W!Ends
  <2> QED BY <1>1, <1>5, <2>1, <2>5, <2>10, <2>11 DEF CdpInv, Covers, Once
<1>11. CASE W!merge_relations
  <2>1. /\ wpc = "merge" /\ args # <<>> /\ relations' = W!Merged /\ args' = Tail(args)
        /\ rel' = <<>> /\ wpc' = "host" /\ UNCHANGED <<asked, rows>> /\ rows = {}
    BY <1>11 DEF W!merge_relations, CdpInv
  <2>2. /\ relations' \in Seq(Related) /\ Once(relations')
        /\ Listed(relations') = Listed(relations) \cup Listed(rel)
    BY <1>5, <2>1, MergedRight
  <2>3. Covers' = Covers
    <3>1. {Forms(Entry(Head(args), e)) : e \in rows} = {}
          /\ {Forms(Entry(Head(args), e)) : e \in rows}' = {}
      BY <2>1
    <3>2. Listed(rel)' = {} /\ Listed(relations)' = Listed(relations')
      BY <1>4, <2>1 DEF Listed, Elems
    <3> QED BY <2>2, <3>1, <3>2
  <2>4. LinksAt(asked)' = LinksAt(asked)
    BY <1>1, <2>1 DEF LinksAt
  <2> HIDE DEF Covers
  <2>5. Flat' => Covers' = LinksAt(asked)'
    BY <1>3, <1>7, <2>1, <2>3, <2>4
  <2>6. Once(relations)' /\ Once(rel)' /\ rel' \in Seq(Related)
    BY <1>4, <2>1, <2>2 DEF Once
  <2> QED BY <1>1, <1>5, <1>6, <2>1, <2>2, <2>5, <2>6 DEF CdpInv, Covers
<1>12. CASE UNCHANGED <<args, asked, rows, deviceid, rel, relations>>
            /\ (\/ UNCHANGED wpc
                \/ wpc' = "crashed"
                \/ wpc = "rows" /\ rows = {} /\ wpc' = "merge"
                \/ wpc = "host" /\ wpc' = "printed")
  <2>1. UNCHANGED <<args, asked, rows, deviceid, rel, relations>>
    BY <1>12
  <2>2. Covers' = Covers /\ LinksAt(asked)' = LinksAt(asked) /\ Once(rel)' /\ Once(relations)'
    <3>1. Covers' = Covers
      BY <2>1 DEF Listed, Elems
    <3>2. LinksAt(asked)' = LinksAt(asked)
      BY <1>1, <2>1 DEF LinksAt
    <3>3. Once(rel)' /\ Once(relations)'
      BY <1>5, <2>1 DEF Once
    <3> QED BY <3>1, <3>2, <3>3
  <2> HIDE DEF Covers
  <2>3. wpc' # "crashed" /\ Flat' => Covers' = LinksAt(asked)'
    BY <1>3, <1>7, <1>12, <2>2
  <2>4. W!Ends(Head(args))' = W!Ends(Head(args))
    BY <1>1, <1>12 DEF W!Ends
  <2> QED BY <1>1, <1>3, <1>12, <2>2, <2>3, <2>4 DEF CdpInv, Covers
<1> QED BY <1>8, <1>9, <1>10, <1>11, <1>12
        DEF W!Next, W!GetFails, W!LastRow, W!print_relations, W!vars

(* A link is listed once, and where ports have one neighbour the list is     *)
(* that of the links of the hosts that answered, for any network, however    *)
(* many hosts are asked and however often.                                   *)
THEOREM LinksListed == W!Spec => []LinksOnce
<1>1. W!Init => CdpInv
  <2> SUFFICES ASSUME W!Init PROVE CdpInv
    OBVIOUS
  <2>1. /\ relations = <<>> /\ rel = <<>> /\ rows = {} /\ wpc = "host" /\ asked = {}
        /\ links \in Networks
    BY DEF W!Init
  <2>2. args \in Seq(Hosts)
    <3>1. PICK n \in 1 .. MaxArgs : args \in [1 .. n -> Hosts]
      BY DEF W!Init
    <3> QED BY <3>1
  <2>3. links \subseteq Related
    BY <2>1, NetworksAssumption DEF Related
  <2>4. /\ <<>> \in Seq(Related) /\ Once(<<>>) /\ Listed(<<>>) = {}
    BY NoElems DEF Once, Listed
  <2>5. LinksAt({}) = {}
    BY DEF LinksAt
  <2> QED BY <2>1, <2>2, <2>3, <2>4, <2>5 DEF CdpInv
<1>2. CdpInv => LinksOnce
  <2> SUFFICES ASSUME CdpInv PROVE LinksOnce
    OBVIOUS
  <2>1. \A a, b \in 1 .. Len(relations) :
            a # b => relations[a] # relations[b] /\ relations[a] # W!Mirror(relations[b])
    BY DEF CdpInv, Once
  <2>2. ASSUME wpc = "printed", Flat
        PROVE  {{r, W!Mirror(r)} : r \in W!Range(relations)} = LinksAt(asked)
    <3>1. rows = {} /\ rel = <<>> /\ Listed(rel) = {}
      BY <2>2, NoElems DEF CdpInv, Listed
    <3>2. {Forms(Entry(Head(args), e)) : e \in rows} = {}
      BY <3>1
    <3>3. Listed(relations) = LinksAt(asked)
      BY <2>2, <3>1, <3>2 DEF CdpInv
    <3>4. W!Range(relations) = Elems(relations)
      BY DEF W!Range, Elems, CdpInv
    <3> QED BY <3>3, <3>4 DEF Listed, Forms
  <2> QED BY <2>1, <2>2 DEF LinksOnce, W!LinksOnce, LinksAt, Forms, Flat
<1> QED BY <1>1, <1>2, CdpStep, PTL DEF W!Spec
=============================================================================
