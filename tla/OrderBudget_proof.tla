-------------------------- MODULE OrderBudget_proof --------------------------
(***************************************************************************)
(* The budget of orders for any number of goroutines, any limits of the    *)
(* exchange and any rates: the bucket is never overfull or in debt, no     *)
(* burst of orders exceeds it, and from a lowered one they go out slowly.  *)
(***************************************************************************)
EXTENDS OrderBudget, LibraryLemmas, SequenceTheorems

-----------------------------------------------------------------------------
(* Arithmetic                                                              *)

LEMMA Products == ASSUME NEW a \in Nat, NEW b \in Nat
                  PROVE  a * b \in Nat /\ (a # 0 /\ b # 0 => a * b # 0)
OBVIOUS

LEMMA Quotients == ASSUME NEW a \in Nat, NEW b \in Nat \ {0}
                   PROVE  a \div b \in Nat
OBVIOUS

LEMMA ShareRefillType ==
  ASSUME NEW l \in RateLimit
  PROVE  Share(l) \in Nat /\ Refill(l) \in Nat
<1>1. l.limit \in Nat /\ l.num \in Nat
  BY DEF RateLimit
<1>2. /\ l.limit * Num \in Nat /\ Unit * l.limit \in Nat
      /\ (Unit * l.limit) * Num \in Nat
  <2>1. Unit * l.limit \in Nat
    BY <1>1, Products, RateAssumption
  <2>. QED
    BY <1>1, <2>1, Products, RatioAssumption
<1>3. Seconds(l) \in Nat \ {0}
  <2>1. PICK s \in {1, 60, 3600, 86400} : Seconds(l) = Larger(l.num, 1) * s
    BY DEF Seconds, RateLimit
  <2>2. Larger(l.num, 1) \in Nat \ {0}
    BY <1>1 DEF Larger
  <2>. QED
    BY <2>1, <2>2, Products
<1>4. Den * Seconds(l) \in Nat \ {0}
  BY <1>3, Products, RatioAssumption
<1>5. (l.limit * Num) \div Den \in Nat
  BY <1>2, Quotients, RatioAssumption
<1>6. (Unit * l.limit * Num) \div (Den * Seconds(l)) \in Nat
  BY <1>2, <1>4, Quotients
<1>. QED
  BY <1>5, <1>6 DEF Share, Refill, Larger

-----------------------------------------------------------------------------
(* The bucket and the orders it let through                                *)

OrderSent == [age : 0..Span, capacity : Nat \ {0}, peak : Nat, low : BOOLEAN]

\* The part of BudgetOK that is about the bucket.
BucketOK ==
  /\ capacity \in Nat \ {0} /\ rate \in Nat \ {0}
  /\ tokens \in 0..(capacity * Unit) /\ idle \in 0..MaxIdle
  /\ orders \in Seq(OrderSent) /\ peak \in Nat

LEMMA BucketOrders ==
  ASSUME BucketOK
  PROVE  /\ Len(orders) \in Nat /\ DOMAIN orders = 1..Len(orders)
         /\ \A k \in 1..Len(orders) : /\ orders[k] \in OrderSent
                                      /\ orders[k].age \in Nat
                                      /\ orders[k].capacity \in Nat
                                      /\ orders[k].peak \in Nat
<1>1. \A k \in 1..Len(orders) : orders[k] \in OrderSent
  BY ElementOfSeq DEF BucketOK
<1>. QED
  BY <1>1 DEF BucketOK, OrderSent

\* The oldest order comes first, and all of them are as old as the last look
\* at the bucket.
Aged ==
  /\ \A i, j \in DOMAIN orders : i <= j => orders[i].age >= orders[j].age
  /\ \A i \in DOMAIN orders : orders[i].age >= idle
  /\ rate <= peak

\* A second later the first d of them are forgotten and the others older.
LEMMA OlderOrders ==
  ASSUME BucketOK, Aged
  PROVE  \E d \in 0..Len(orders) :
           /\ Older(orders) \in Seq(OrderSent)
           /\ Len(Older(orders)) = Len(orders) - d
           /\ \A k \in 1..(Len(orders) - d) :
                Older(orders)[k] = [orders[d + k] EXCEPT !.age = @ + 1]
<1>. DEFINE n == Len(orders)
            young == {k \in DOMAIN orders : orders[k].age < Span} \cup {n + 1}
            m == Min(young)
            aged == [k \in DOMAIN orders |-> [orders[k] EXCEPT !.age = @ + 1]]
<1>1. /\ n \in Nat /\ DOMAIN orders = 1..n
      /\ \A k \in 1..n : orders[k] \in OrderSent
  BY BucketOrders
<1>2. /\ young \subseteq Nat /\ young \subseteq 1..(n + 1) /\ young # {}
  BY <1>1
<1>3. m \in young
  BY <1>2, MinimumOfNaturals
<1>4. ASSUME NEW k \in m..n
      PROVE  aged[k] \in OrderSent
  <2>1. m \in 1..n /\ k \in 1..n /\ m <= k /\ orders[m].age < Span
    BY <1>1, <1>2, <1>3
  <2>2. orders[k].age <= orders[m].age
    BY <1>1, <2>1 DEF Aged
  <2>3. orders[k].age \in Nat /\ orders[m].age \in Nat /\ orders[k] \in OrderSent
    BY <1>1, <2>1 DEF OrderSent
  <2>4. orders[k].age + 1 \in 0..Span
    BY <2>1, <2>2, <2>3, RateAssumption
  <2>5. aged[k] = [orders[k] EXCEPT !.age = orders[k].age + 1]
    BY <1>1, <2>1
  <2>. QED
    BY <2>3, <2>4, <2>5 DEF OrderSent
<1>5. m \in Int /\ n \in Int /\ m - 1 \in 0..n
  BY <1>1, <1>2, <1>3
<1>6. Older(orders) = SubSeq(aged, m, n)
  BY DEF Older
<1>. HIDE DEF m, n, aged
<1>7. /\ SubSeq(aged, m, n) \in Seq(OrderSent)
      /\ Len(SubSeq(aged, m, n)) = IF m <= n THEN n - m + 1 ELSE 0
      /\ \A k \in 1..(n - m + 1) : SubSeq(aged, m, n)[k] = aged[m + k - 1]
  BY <1>4, <1>5, SubSeqProperties
<1>8. ASSUME NEW k \in 1..(n - (m - 1))
      PROVE  Older(orders)[k] = [orders[(m - 1) + k] EXCEPT !.age = @ + 1]
  <2>1. k \in 1..(n - m + 1) /\ m + k - 1 = (m - 1) + k /\ (m - 1) + k \in 1..n
    BY <1>5
  <2>2. aged[(m - 1) + k] = [orders[(m - 1) + k] EXCEPT !.age = @ + 1]
    BY <1>1, <2>1 DEF aged
  <2>. QED
    BY <1>6, <1>7, <2>1, <2>2
<1>9. Len(Older(orders)) = n - (m - 1)
  BY <1>5, <1>6, <1>7
<1>. QED
  BY <1>5, <1>6, <1>7, <1>8, <1>9 DEF n

\* What is left of BudgetOK.
ServiceOK ==
  /\ usage \in Usage /\ limit10s \in Nat /\ limit1m \in Nat
  /\ best \in [capacity : Nat, refill : Nat] /\ todo \in Seq(RateLimit)
  /\ run \in {"info", "limits", "done"}
  /\ caller \in [Callers -> {"idle", "wait", "send", "adapt"}]

LEMMA BudgetParts == BudgetOK <=> BucketOK /\ ServiceOK
BY DEF BudgetOK, BucketOK, ServiceOK, OrderSent

LEMMA UpdateEffect ==
  ASSUME BucketOK, RateAssumption, NEW c \in Nat, NEW r \in Nat, Update(c, r)
  PROVE  /\ capacity' \in Nat \ {0} /\ rate' \in Nat \ {0} /\ peak' \in Nat
         /\ tokens' \in 0..(capacity' * Unit) /\ tokens' <= tokens
         /\ peak <= peak' /\ idle' = idle
         /\ rate <= peak => rate' <= peak'
<1>1. CASE c > 0 /\ r > 0
  <2>1. c * Unit \in Nat
    BY RateAssumption, Products
  <2>2. capacity' = c /\ rate' = r /\ tokens' = Smaller(tokens, c * Unit)
        /\ peak' = Larger(peak, r) /\ idle' = idle
    BY <1>1 DEF Update
  <2>3. capacity * Unit \in Nat /\ tokens \in Nat
    BY Products DEF BucketOK
  <2>. HIDE DEF RateAssumption
  <2>4. tokens' \in 0..(c * Unit) /\ tokens' <= tokens
    BY <2>1, <2>2, <2>3 DEF Smaller
  <2>5. peak' \in Nat /\ peak <= peak' /\ r <= peak'
    BY <2>2 DEF Larger, BucketOK
  <2>. QED
    BY <1>1, <2>2, <2>4, <2>5 DEF BucketOK
<1>2. CASE ~(c > 0 /\ r > 0)
  <2>1. UNCHANGED <<capacity, rate, tokens, idle, peak>>
    BY <1>2 DEF Update, bucket
  <2>2. capacity * Unit \in Nat /\ tokens \in Nat
    BY Products, RateAssumption DEF BucketOK
  <2>. QED
    BY <2>1, <2>2 DEF BucketOK
<1>. QED
  BY <1>1, <1>2

\* Seconds and rate make parts of tokens.
LEMMA RefilledType ==
  ASSUME BucketOK
  PROVE  /\ Refilled \in Nat /\ Refilled <= capacity * Unit
         /\ Refilled <= tokens + idle * rate
         /\ idle * rate \in Nat /\ capacity * Unit \in Nat
<1>1. idle * rate \in Nat /\ capacity * Unit \in Nat /\ tokens \in Nat
  BY Products, RateAssumption DEF BucketOK
<1>2. tokens + idle * rate \in Nat
  BY <1>1
<1>. QED
  BY <1>1, <1>2 DEF Refilled, Smaller

\* The bucket when an order is let through, when it is not yet, when the
\* budget is set and when a second passes.
TakeOrder ==
  /\ Refilled >= Unit /\ tokens' = Refilled - Unit /\ idle' = 0
  /\ orders' = Append(orders, OrderNow)
  /\ peak' = rate /\ UNCHANGED <<capacity, rate>>

Refill0 ==
  /\ tokens' = Refilled /\ idle' = 0
  /\ UNCHANGED <<capacity, rate, orders, peak>>

Reset ==
  /\ \E c \in Nat, r \in Nat : Update(c, r)
  /\ UNCHANGED orders

Tick ==
  /\ idle < MaxIdle /\ idle' = idle + 1 /\ orders' = Older(orders)
  /\ UNCHANGED <<capacity, rate, tokens, peak>>

\* Every step is one of these, or leaves the bucket alone.
LEMMA BucketSteps ==
  ASSUME ServiceOK, [Next]_budgetVars
  PROVE  \/ TakeOrder \/ Refill0 \/ Reset \/ Tick
         \/ UNCHANGED <<capacity, rate, tokens, idle, orders, peak>>
<1>1. ASSUME NEW p \in Callers, Take(p)
      PROVE  TakeOrder
  BY <1>1 DEF Take, TakeOrder
<1>2. ASSUME NEW p \in Callers, TakeFails(p)
      PROVE  Refill0
  BY <1>2 DEF TakeFails, Refill0, history
<1>3. ASSUME NEW p \in Callers, Adapt(p)
      PROVE  Reset \/ UNCHANGED <<capacity, rate, tokens, idle, orders, peak>>
  <2>1. LowestRate \in Nat /\ SlowRate \in Nat /\ 1 \in Nat
    BY RateAssumption
  <2>2. Reset \/ UNCHANGED <<bucket, peak, orders>>
    BY <1>3, <2>1 DEF Adapt, Reset
  <2>. QED
    BY <2>2 DEF bucket
<1>4. CASE Configure
  <2>1. best.capacity \in Nat /\ best.refill \in Nat
    BY DEF ServiceOK
  <2>. QED
    BY <1>4, <2>1 DEF Configure, Reset
<1>5. CASE Second
  BY <1>5 DEF Second, Tick
<1>6. ASSUME NEW p \in Callers, Place(p) \/ Send(p) \/ SendFails(p) \/ Cancel(p)
      PROVE  UNCHANGED <<capacity, rate, tokens, idle, orders, peak>>
  BY <1>6 DEF Place, Send, SendFails, Cancel, bucket, history
<1>7. CASE OtherReply \/ InfoFails \/ InfoOk \/ NextLimit \/ UNCHANGED budgetVars
  BY <1>7 DEF OtherReply, InfoFails, InfoOk, NextLimit, budgetVars, bucket, history
<1>. QED
  BY <1>1, <1>2, <1>3, <1>4, <1>5, <1>6, <1>7 DEF Next, Placement, StartUp

LEMMA ServiceStep ==
  ASSUME ServiceOK, [Next]_budgetVars
  PROVE  ServiceOK'
<1>1. Reply(200, FALSE, FALSE) \in Usage /\ Reply(429, FALSE, FALSE) \in Usage
  BY DEF Reply, Usage
<1>2. Replies \subseteq Usage /\ Uncounted \subseteq Usage
  BY DEF Replies, Uncounted, Reply, Usage
<1>3. ASSUME NEW p \in Callers,
             \/ Place(p) \/ Take(p) \/ TakeFails(p) \/ Send(p) \/ SendFails(p)
             \/ Cancel(p) \/ Adapt(p)
      PROVE  ServiceOK'
  <2>1. usage' \in Usage
    <3>1. CASE Send(p)
      BY <1>2, <3>1 DEF Send
    <3>2. CASE Cancel(p)
      BY <1>2, <3>2 DEF Cancel, ServiceOK
    <3>3. CASE Place(p) \/ Take(p) \/ TakeFails(p) \/ SendFails(p) \/ Adapt(p)
      BY <3>3 DEF Place, Take, TakeFails, SendFails, Adapt, ServiceOK
    <3>. QED
      BY <1>3, <3>1, <3>2, <3>3
  <2>2. \E label \in {"idle", "wait", "send", "adapt"} :
          caller' \in {caller, [caller EXCEPT ![p] = label]}
    BY <1>3 DEF Place, Take, TakeFails, Send, SendFails, Cancel, Adapt
  <2>3. UNCHANGED <<limit10s, limit1m, best, todo, run>>
    BY <1>3 DEF Place, Take, TakeFails, Send, SendFails, Cancel, Adapt, limits, config
  <2>. QED
    BY <2>1, <2>2, <2>3 DEF ServiceOK
<1>4. CASE OtherReply \/ InfoFails \/ InfoOk \/ Configure \/ Second
           \/ UNCHANGED budgetVars
  <2>1. usage' \in Usage /\ run' \in {"info", "limits", "done"}
    BY <1>1, <1>2, <1>4 DEF OtherReply, InfoFails, InfoOk, Configure, Second, budgetVars,
       config, ServiceOK
  <2>2. UNCHANGED <<limit10s, limit1m, best, todo, caller>>
    BY <1>4 DEF OtherReply, InfoFails, InfoOk, Configure, Second, budgetVars, limits,
       config
  <2>. QED
    BY <2>1, <2>2 DEF ServiceOK
<1>5. CASE NextLimit
  <2>. DEFINE l == Head(todo)
  <2>1. l \in RateLimit /\ todo' \in Seq(RateLimit)
    BY <1>5, HeadTailProperties DEF NextLimit, ServiceOK
  <2>2. Share(l) \in Nat /\ Refill(l) \in Nat /\ l.limit \in Nat
    BY <2>1, ShareRefillType DEF RateLimit
  <2>. HIDE DEF l
  <2>3. /\ Least(best.capacity, Share(l)) \in Nat
        /\ Least(best.refill, Refill(l)) \in Nat
    BY <2>2 DEF ServiceOK, Least, Smaller
  <2>4. best' \in [capacity : Nat, refill : Nat]
    BY <1>5, <2>3 DEF NextLimit, ServiceOK, l
  <2>5. limit10s' \in Nat /\ limit1m' \in Nat
    BY <1>5, <2>2 DEF NextLimit, ServiceOK, l
  <2>6. UNCHANGED <<usage, run, caller>>
    BY <1>5 DEF NextLimit
  <2>. QED
    BY <2>1, <2>4, <2>5, <2>6 DEF ServiceOK
<1>. QED
  BY <1>3, <1>4, <1>5 DEF Next, Placement, StartUp

\* Any later order and the tokens that are left have been paid for by what
\* the bucket could hold at the i-th order and what has flowed in since, at
\* any rate top that is not exceeded after it.
Tops(i) == {top \in Nat : /\ peak <= top
                          /\ \A k \in (i + 1)..Len(orders) : orders[k].peak <= top}

Funded ==
  \A i \in DOMAIN orders : \A top \in Tops(i) :
    Unit * (Len(orders) - i + 1) + tokens
      <= Unit * orders[i].capacity + top * (orders[i].age - idle)

BucketInv == BucketOK /\ Aged /\ Funded /\ BucketBound

\* One more order, or none, from what has flowed in at a rate.
LEMMA Flow ==
  ASSUME NEW u \in Nat, NEW sent \in Nat, NEW tok \in Nat, NEW max \in Nat,
         NEW top \in Nat, NEW r \in Nat, NEW age \in Nat, NEW gap \in Nat,
         NEW full \in Nat, gap <= age, r <= top, full <= tok + gap * r,
         u * sent + tok <= max + top * (age - gap)
  PROVE  u * sent + full <= max + top * age
<1>1. /\ gap * r \in Nat /\ gap * top \in Nat /\ u * sent \in Nat /\ top * age \in Nat
  BY Products
<1>2. gap * r <= gap * top
  OBVIOUS
<1>3. top * (age - gap) = top * age - gap * top
  OBVIOUS
<1>. QED
  BY <1>1, <1>2, <1>3

LEMMA PaidFor ==
  ASSUME BucketOK, Aged, Funded, NEW i \in 1..Len(orders), NEW top \in Tops(i)
  PROVE  Unit * (Len(orders) - i + 1) + Refilled
           <= Unit * orders[i].capacity + top * orders[i].age
<1>1. /\ Len(orders) \in Nat /\ i \in DOMAIN orders
      /\ orders[i].age \in Nat /\ orders[i].capacity \in Nat
  BY BucketOrders
<1>2. /\ Unit \in Nat /\ Len(orders) - i + 1 \in Nat /\ tokens \in Nat
      /\ Unit * orders[i].capacity \in Nat
  <2>1. Unit \in Nat /\ capacity * Unit \in Nat
    BY RefilledType, RateAssumption
  <2>. QED
    BY <1>1, <2>1, Products DEF BucketOK
<1>3. /\ top \in Nat /\ rate \in Nat /\ idle \in Nat /\ idle <= orders[i].age
      /\ rate <= top
  BY <1>1 DEF Tops, Aged, BucketOK
<1>4. Refilled \in Nat /\ Refilled <= tokens + idle * rate
  BY RefilledType
<1>5. Unit * (Len(orders) - i + 1) + tokens
        <= Unit * orders[i].capacity + top * (orders[i].age - idle)
  BY <1>1 DEF Funded
<1>. HIDE DEF Refilled
<1>. QED
  BY <1>1, <1>2, <1>3, <1>4, <1>5, Flow

LEMMA RefillKeeps ==
  ASSUME BucketInv, Refill0
  PROVE  BucketInv'
<1>1. /\ idle' = 0 /\ tokens' = Refilled
      /\ UNCHANGED <<capacity, rate, orders, peak>>
  BY DEF Refill0
<1>2. BucketOK'
  <2>1. Refilled \in 0..(capacity * Unit)
    BY RefilledType DEF BucketInv
  <2>. QED
    BY <1>1, <2>1, RateAssumption DEF BucketInv, BucketOK
<1>3. Aged'
  BY <1>1, BucketOrders DEF BucketInv, Aged
<1>4. Funded'
  <2>. SUFFICES ASSUME NEW i \in 1..Len(orders), NEW top \in Tops(i)
                PROVE  Unit * (Len(orders) - i + 1) + Refilled
                         <= Unit * orders[i].capacity + top * (orders[i].age - 0)
    BY <1>1, BucketOrders DEF Funded, Tops, BucketInv
  <2>1. orders[i].age - 0 = orders[i].age
    BY BucketOrders DEF BucketInv
  <2>. QED
    BY <2>1, PaidFor DEF BucketInv
<1>5. BucketBound'
  BY <1>1 DEF BucketInv, BucketBound, Highest
<1>. QED
  BY <1>2, <1>3, <1>4, <1>5 DEF BucketInv

LEMMA ResetKeeps ==
  ASSUME BucketInv, Reset
  PROVE  BucketInv'
<1>1. /\ capacity' \in Nat \ {0} /\ rate' \in Nat \ {0} /\ peak' \in Nat
      /\ tokens' \in 0..(capacity' * Unit) /\ tokens' <= tokens
      /\ peak <= peak' /\ idle' = idle /\ rate' <= peak' /\ orders' = orders
  BY UpdateEffect, RateAssumption DEF Reset, BucketInv, Aged
<1>2. BucketOK' /\ Aged' /\ BucketBound'
  BY <1>1 DEF BucketInv, BucketOK, Aged, BucketBound, Highest
<1>3. Funded'
  <2>. SUFFICES ASSUME NEW i \in 1..Len(orders), NEW top \in Tops(i)'
                PROVE  Unit * (Len(orders) - i + 1) + tokens'
                         <= Unit * orders[i].capacity + top * (orders[i].age - idle)
    BY <1>1, BucketOrders DEF Funded, BucketInv
  <2>1. top \in Tops(i)
    BY <1>1 DEF Tops, BucketInv, BucketOK
  <2>2. Unit * (Len(orders) - i + 1) + tokens
          <= Unit * orders[i].capacity + top * (orders[i].age - idle)
    BY <2>1, BucketOrders DEF Funded, BucketInv
  <2>3. /\ Unit * (Len(orders) - i + 1) \in Int /\ tokens \in Int /\ tokens' \in Int
        /\ Unit * orders[i].capacity + top * (orders[i].age - idle) \in Int
    <3>1. /\ Unit \in Int /\ Len(orders) - i + 1 \in Int /\ top \in Int
          /\ orders[i].capacity \in Int /\ orders[i].age - idle \in Int
      BY <2>1, BucketOrders, RateAssumption DEF BucketInv, BucketOK, Tops
    <3>2. capacity * Unit \in Int /\ capacity' * Unit \in Int
      BY <1>1, <3>1 DEF BucketInv, BucketOK
    <3>3. tokens \in Int /\ tokens' \in Int
      BY <1>1, <3>2 DEF BucketInv, BucketOK
    <3>4. /\ Unit * (Len(orders) - i + 1) \in Int /\ Unit * orders[i].capacity \in Int
          /\ top * (orders[i].age - idle) \in Int
      BY ONLY <3>1
    <3>. QED
      BY ONLY <3>3, <3>4
  <2>. QED
    BY <1>1, <2>2, <2>3
<1>. QED
  BY <1>2, <1>3 DEF BucketInv

LEMMA OrderAppended ==
  ASSUME BucketOK, TakeOrder
  PROVE  /\ orders' \in Seq(OrderSent) /\ Len(orders') = Len(orders) + 1
         /\ DOMAIN orders' = 1..(Len(orders) + 1)
         /\ \A k \in 1..Len(orders) : orders'[k] = orders[k]
         /\ orders'[Len(orders) + 1] = OrderNow
<1>1. OrderNow \in OrderSent
  BY RateAssumption DEF BucketOK, OrderSent, OrderNow, Lowered
<1>. QED
  BY <1>1, AppendProperties DEF BucketOK, TakeOrder

\* One order more costs what it takes out of the bucket.
LEMMA OneMore ==
  ASSUME NEW u \in Nat, NEW m \in Nat, NEW full \in Nat, NEW max \in Int,
         u * m + full <= max
  PROVE  /\ u * (m + 1) + (full - u) <= max
         /\ u <= full => u * (m + 1) <= max
<1>1. u * (m + 1) = u * m + u /\ u * m \in Nat
  BY Products
<1>. QED
  BY <1>1

LEMMA TakeKeeps ==
  ASSUME BucketInv, TakeOrder
  PROVE  BucketInv'
<1>. DEFINE n == Len(orders)
<1>1. /\ n \in Nat /\ DOMAIN orders = 1..n
      /\ \A k \in 1..n : /\ orders[k].age \in Nat /\ orders[k].capacity \in Nat
                         /\ orders[k].peak \in Nat
  BY BucketOrders DEF BucketInv
<1>2. /\ orders' \in Seq(OrderSent) /\ Len(orders') = n + 1
      /\ DOMAIN orders' = 1..(n + 1)
      /\ \A k \in 1..n : orders'[k] = orders[k]
      /\ orders'[n + 1].age = 0 /\ orders'[n + 1].capacity = capacity
      /\ orders'[n + 1].peak = peak
  BY OrderAppended DEF BucketInv, OrderNow
<1>3. /\ Refilled \in Nat /\ Unit \in Nat /\ Refilled >= Unit
      /\ Refilled <= capacity * Unit /\ capacity * Unit \in Nat
      /\ tokens' = Refilled - Unit /\ idle' = 0 /\ peak' = rate
      /\ UNCHANGED <<capacity, rate>>
      /\ peak \in Nat /\ rate \in Nat /\ capacity \in Nat
  BY RefilledType, RateAssumption DEF BucketInv, BucketOK, TakeOrder
<1>. HIDE DEF n, Refilled
<1>4. BucketOK'
  <2>1. tokens' \in 0..(capacity' * Unit) /\ idle' \in 0..MaxIdle
    BY <1>3, RateAssumption
  <2>. QED
    BY <1>2, <1>3, <2>1 DEF BucketInv, BucketOK
<1>5. Aged'
  <2>1. ASSUME NEW i \in 1..(n + 1)
        PROVE  orders'[i].age \in Nat /\ (i = n + 1 => orders'[i].age = 0)
    BY <1>1, <1>2
  <2>2. ASSUME NEW i \in 1..(n + 1), NEW j \in 1..(n + 1), i <= j
        PROVE  orders'[i].age >= orders'[j].age
    <3>1. CASE j = n + 1
      BY <2>1, <3>1
    <3>2. CASE j # n + 1
      <4>1. i \in 1..n /\ j \in 1..n
        BY <1>1, <2>2, <3>2
      <4>. QED
        BY <1>1, <1>2, <2>2, <4>1 DEF BucketInv, Aged
    <3>. QED
      BY <3>1, <3>2
  <2>. QED
    BY <1>2, <1>3, <2>1, <2>2 DEF Aged
<1>6. ASSUME NEW i \in 1..n, NEW top \in Nat, peak <= top,
             \A k \in (i + 1)..n : orders[k].peak <= top
      PROVE  /\ Unit * (n - i + 1 + 1) + (Refilled - Unit)
                  <= Unit * orders[i].capacity + top * orders[i].age
             /\ Unit * (n - i + 1 + 1) <= Unit * orders[i].capacity + top * orders[i].age
  <2>1. top \in Tops(i)
    BY <1>6 DEF Tops, n
  <2>2. Unit * (n - i + 1) + Refilled <= Unit * orders[i].capacity + top * orders[i].age
    BY <2>1, PaidFor DEF BucketInv, n
  <2>3. n - i + 1 \in Nat /\ Unit * orders[i].capacity + top * orders[i].age \in Int
    <3>1. /\ Unit * orders[i].capacity \in Nat /\ top * orders[i].age \in Nat
      BY <1>1, <1>3, Products
    <3>. QED
      BY <1>1, <3>1
  <2>. QED
    BY <1>3, <2>2, <2>3, OneMore
<1>7. Funded'
  <2>. SUFFICES ASSUME NEW i \in DOMAIN orders', NEW top \in Tops(i)'
                PROVE  Unit * (Len(orders') - i + 1) + tokens'
                         <= Unit * orders'[i].capacity + top * (orders'[i].age - idle')
    BY DEF Funded
  <2>0. i \in 1..(n + 1)
    BY <1>2
  <2>1. /\ top \in Nat /\ rate <= top
        /\ \A k \in (i + 1)..(n + 1) : orders'[k].peak <= top
    BY <1>2, <1>3 DEF Tops
  <2>2. CASE i = n + 1
    <3>1. /\ orders'[i].capacity = capacity /\ orders'[i].age - idle' = 0
          /\ Len(orders') - i + 1 = 1 /\ top * 0 = 0 /\ Unit * 1 = Unit
      BY <1>1, <1>2, <1>3, <2>0, <2>1, <2>2
    <3>2. Unit * capacity = capacity * Unit
      BY <1>3
    <3>3. Unit + (Refilled - Unit) <= Unit * capacity + 0
      BY <1>3, <3>2
    <3>. QED
      BY <1>3, <3>1, <3>3
  <2>3. CASE i # n + 1
    <3>1. i \in 1..n
      BY <1>1, <2>0, <2>3
    <3>2. peak <= top /\ \A k \in (i + 1)..n : orders[k].peak <= top
      <4>1. n + 1 \in (i + 1)..(n + 1) /\ orders'[n + 1].peak = peak
        BY <1>1, <1>2, <3>1
      <4>2. ASSUME NEW k \in (i + 1)..n
            PROVE  k \in (i + 1)..(n + 1) /\ orders'[k] = orders[k]
        BY <1>1, <1>2, <3>1
      <4>. QED
        BY <2>1, <4>1, <4>2
    <3>3. Unit * (n - i + 1 + 1) + (Refilled - Unit)
            <= Unit * orders[i].capacity + top * orders[i].age
      BY <1>6, <2>1, <3>1, <3>2
    <3>4. /\ Len(orders') - i + 1 = n - i + 1 + 1 /\ orders'[i] = orders[i]
          /\ orders[i].age - idle' = orders[i].age
      BY <1>1, <1>2, <1>3, <3>1
    <3>. QED
      BY <1>3, <2>0, <3>3, <3>4
  <2>. QED
    BY <2>2, <2>3
<1>8. BucketBound'
  <2>. SUFFICES ASSUME NEW i \in 1..(n + 1), NEW j \in 1..(n + 1),
                       NEW k \in (i + 1)..j, Highest(k, (i + 1)..j)'
                PROVE  Unit * (j - i + 1)
                         <= Unit * orders'[i].capacity
                            + orders'[k].peak * (orders'[i].age - orders'[j].age)
    BY <1>2 DEF BucketBound
  <2>1. i \in 1..n /\ i \in Nat /\ j \in Nat /\ k \in Nat /\ orders'[i] = orders[i]
    BY <1>1, <1>2
  <2>2. \A l \in (i + 1)..j : orders'[l].peak <= orders'[k].peak
    BY DEF Highest
  <2>3. CASE j = n + 1
    <3>. DEFINE top == orders'[k].peak
    <3>1. top \in Nat
      <4>1. CASE k = n + 1
        BY <1>2, <1>3, <4>1
      <4>2. CASE k # n + 1
        <5>1. k \in 1..n
          BY <1>1, <2>1, <2>3, <4>2
        <5>. QED
          BY <1>1, <1>2, <5>1
      <4>. QED
        BY <4>1, <4>2
    <3>2. peak <= top
      <4>1. j \in (i + 1)..j /\ orders'[j].peak = peak
        BY <1>1, <1>2, <2>1, <2>3
      <4>. QED
        BY <2>2, <4>1
    <3>3. ASSUME NEW l \in (i + 1)..n
          PROVE  orders[l].peak <= top
      <4>1. l \in (i + 1)..j /\ orders'[l] = orders[l]
        BY <1>1, <1>2, <2>1, <2>3
      <4>. QED
        BY <2>2, <4>1
    <3>. HIDE DEF top
    <3>4. Unit * (n - i + 1 + 1) <= Unit * orders[i].capacity + top * orders[i].age
      BY <1>6, <2>1, <3>1, <3>2, <3>3
    <3>5. /\ j - i + 1 = n - i + 1 + 1
          /\ orders'[i].age - orders'[j].age = orders[i].age
      BY <1>1, <1>2, <2>1, <2>3
    <3>. QED
      BY <2>1, <3>4, <3>5 DEF top
  <2>4. CASE j # n + 1
    <3>1. /\ j \in 1..n /\ k \in 1..n /\ orders'[j] = orders[j] /\ orders'[k] = orders[k]
          /\ \A l \in (i + 1)..j : orders'[l] = orders[l]
      BY <1>1, <1>2, <2>1, <2>4
    <3>2. Highest(k, (i + 1)..j)
      BY <2>2, <3>1 DEF Highest
    <3>. QED
      BY <1>1, <2>1, <3>1, <3>2 DEF BucketInv, BucketBound
  <2>. QED
    BY <2>3, <2>4
<1>. QED
  BY <1>4, <1>5, <1>7, <1>8 DEF BucketInv

LEMMA TickKeeps ==
  ASSUME BucketInv, Tick
  PROVE  BucketInv'
<1>. DEFINE n == Len(orders)
<1>1. /\ n \in Nat /\ DOMAIN orders = 1..n
      /\ \A k \in 1..n : /\ orders[k].age \in Nat /\ orders[k].capacity \in Nat
                         /\ orders[k].peak \in Nat /\ orders[k] \in OrderSent
  BY BucketOrders DEF BucketInv
<1>2. PICK d \in 0..n :
        /\ orders' \in Seq(OrderSent) /\ Len(orders') = n - d
        /\ \A k \in 1..(n - d) : orders'[k] = [orders[d + k] EXCEPT !.age = @ + 1]
  BY OlderOrders DEF BucketInv, Tick
<1>3. /\ idle \in Nat /\ idle' = idle + 1 /\ idle' \in 0..MaxIdle
      /\ UNCHANGED <<capacity, rate, tokens, peak>>
  BY RateAssumption DEF BucketInv, BucketOK, Tick
<1>. HIDE DEF n
<1>4. DOMAIN orders' = 1..(n - d) /\ n - d \in Nat
  BY <1>1, <1>2
<1>5. ASSUME NEW k \in 1..(n - d)
      PROVE  /\ d + k \in 1..n
             /\ orders'[k].age = orders[d + k].age + 1
             /\ orders'[k].capacity = orders[d + k].capacity
             /\ orders'[k].peak = orders[d + k].peak
  <2>1. d + k \in 1..n
    BY <1>1
  <2>. QED
    BY <1>1, <1>2, <2>1 DEF OrderSent
<1>6. BucketOK'
  BY <1>2, <1>3 DEF BucketInv, BucketOK
<1>7. Aged'
  <2>1. ASSUME NEW i \in 1..(n - d)
        PROVE  orders'[i].age >= idle'
    <3>1. d + i \in 1..n /\ orders'[i].age = orders[d + i].age + 1
      BY <1>5
    <3>2. orders[d + i].age >= idle /\ orders[d + i].age \in Nat
      BY <1>1, <3>1 DEF BucketInv, Aged
    <3>. QED
      BY <1>3, <3>1, <3>2
  <2>2. ASSUME NEW i \in 1..(n - d), NEW j \in 1..(n - d), i <= j
        PROVE  orders'[i].age >= orders'[j].age
    <3>1. /\ d + i \in 1..n /\ d + j \in 1..n /\ d + i <= d + j
      BY <1>1, <1>5, <2>2
    <3>2. orders[d + i].age >= orders[d + j].age
      BY <1>1, <3>1 DEF BucketInv, Aged
    <3>. QED
      BY <1>1, <1>5, <3>1, <3>2
  <2>. QED
    BY <1>3, <1>4, <2>1, <2>2 DEF BucketInv, Aged
<1>8. Funded'
  <2>. SUFFICES ASSUME NEW i \in DOMAIN orders', NEW top \in Tops(i)'
                PROVE  Unit * (Len(orders') - i + 1) + tokens'
                         <= Unit * orders'[i].capacity + top * (orders'[i].age - idle')
    BY DEF Funded
  <2>1. i \in 1..(n - d) /\ d + i \in 1..n
    BY <1>4, <1>5
  <2>2. top \in Tops(d + i)
    <3>1. top \in Nat /\ peak <= top
      BY <1>3 DEF Tops
    <3>2. ASSUME NEW k \in (d + i + 1)..n
          PROVE  orders[k].peak <= top
      <4>1. k - d \in 1..(n - d) /\ k - d \in (i + 1)..Len(orders') /\ d + (k - d) = k
        BY <1>1, <1>2, <2>1
      <4>2. orders'[k - d].peak <= top
        BY <4>1 DEF Tops
      <4>. QED
        BY <1>5, <4>1, <4>2
    <3>. QED
      BY <3>1, <3>2 DEF Tops, n
  <2>3. Unit * (n - (d + i) + 1) + tokens
          <= Unit * orders[d + i].capacity + top * (orders[d + i].age - idle)
    BY <1>1, <2>1, <2>2 DEF BucketInv, Funded, n
  <2>4. /\ Len(orders') - i + 1 = n - (d + i) + 1
        /\ orders'[i].capacity = orders[d + i].capacity
        /\ orders'[i].age - idle' = orders[d + i].age - idle
    BY <1>1, <1>2, <1>3, <1>5, <2>1
  <2>. QED
    BY <1>3, <2>3, <2>4
<1>9. BucketBound'
  <2>. SUFFICES ASSUME NEW i \in 1..(n - d), NEW j \in 1..(n - d),
                       NEW k \in (i + 1)..j, Highest(k, (i + 1)..j)'
                PROVE  Unit * (j - i + 1)
                         <= Unit * orders'[i].capacity
                            + orders'[k].peak * (orders'[i].age - orders'[j].age)
    BY <1>4 DEF BucketBound
  <2>1. /\ k \in 1..(n - d) /\ d + i \in 1..n /\ d + j \in 1..n /\ d + k \in 1..n
        /\ d + k \in (d + i + 1)..(d + j)
    BY <1>1, <1>5
  <2>2. Highest(d + k, (d + i + 1)..(d + j))
    <3>. SUFFICES ASSUME NEW l \in (d + i + 1)..(d + j)
                  PROVE  orders[l].peak <= orders[d + k].peak
      BY DEF Highest
    <3>1. l - d \in (i + 1)..j /\ l - d \in 1..(n - d) /\ d + (l - d) = l
      BY <1>1, <2>1
    <3>2. orders'[l - d].peak <= orders'[k].peak
      BY <3>1 DEF Highest
    <3>. QED
      BY <1>5, <2>1, <3>1, <3>2
  <2>3. Unit * ((d + j) - (d + i) + 1)
          <= Unit * orders[d + i].capacity
             + orders[d + k].peak * (orders[d + i].age - orders[d + j].age)
    BY <1>1, <2>1, <2>2 DEF BucketInv, BucketBound
  <2>4. /\ (d + j) - (d + i) + 1 = j - i + 1
        /\ orders'[i].age - orders'[j].age = orders[d + i].age - orders[d + j].age
        /\ orders'[i].capacity = orders[d + i].capacity
        /\ orders'[k].peak = orders[d + k].peak
    <3>1. (d + j) - (d + i) + 1 = j - i + 1
      BY <1>1
    <3>2. /\ orders'[i].age = orders[d + i].age + 1
          /\ orders'[j].age = orders[d + j].age + 1
          /\ orders'[i].capacity = orders[d + i].capacity
          /\ orders'[k].peak = orders[d + k].peak
      BY <1>5, <2>1
    <3>3. orders[d + i].age \in Nat /\ orders[d + j].age \in Nat
      BY <1>1, <2>1
    <3>4. orders'[i].age - orders'[j].age = orders[d + i].age - orders[d + j].age
      BY ONLY <3>2, <3>3
    <3>. QED
      BY ONLY <3>1, <3>2, <3>4
  <2>. QED
    BY <2>3, <2>4
<1>. QED
  BY <1>6, <1>7, <1>8, <1>9 DEF BucketInv

LEMMA BudgetInit == Init => ServiceOK /\ BucketInv
<1>. SUFFICES ASSUME Init PROVE ServiceOK /\ BucketInv
  OBVIOUS
<1>1. NoUsage \in Usage
  BY DEF NoUsage, Reply, Usage
<1>2. ServiceOK
  BY <1>1, LimitsAssumption DEF Init, ServiceOK, NoBest
<1>3. orders = <<>> /\ DOMAIN orders = {} /\ orders \in Seq(OrderSent)
  BY DEF Init
<1>4. tokens \in 0..(capacity * Unit)
  <2>1. DefaultCapacity * Unit \in Nat
    BY Products, RateAssumption
  <2>. QED
    BY <2>1 DEF Init
<1>5. BucketOK
  BY <1>3, <1>4, RateAssumption DEF Init, BucketOK
<1>6. Aged /\ Funded /\ BucketBound
  BY <1>3, RateAssumption DEF Init, Aged, Funded, BucketBound
<1>. QED
  BY <1>2, <1>5, <1>6 DEF BucketInv

LEMMA BudgetStep ==
  ServiceOK /\ BucketInv /\ [Next]_budgetVars => (ServiceOK /\ BucketInv)'
<1>. SUFFICES ASSUME ServiceOK, BucketInv, [Next]_budgetVars
              PROVE  (ServiceOK /\ BucketInv)'
  OBVIOUS
<1>1. CASE UNCHANGED <<capacity, rate, tokens, idle, orders, peak>>
  <2>1. \A i \in DOMAIN orders : Tops(i)' = Tops(i)
    BY <1>1 DEF Tops
  <2>. QED
    BY <1>1, <2>1, ServiceStep DEF BucketInv, BucketOK, Aged, Funded, BucketBound,
       Highest
<1>. QED
  BY <1>1, BucketSteps, ServiceStep, TakeKeeps, RefillKeeps, ResetKeeps, TickKeeps

LEMMA BudgetInvariant == Spec => [](ServiceOK /\ BucketInv)
<1>. QED
  BY BudgetInit, BudgetStep, PTL DEF Spec

\* The bucket is never overfull, never in debt and never shut, whichever of
\* the goroutines set it last and whatever the exchange's limits are
\* (TokenBucket, configureRateLimits, adaptOrderBudget).
THEOREM BudgetCorrect == Spec => []BudgetOK
<1>1. ServiceOK /\ BucketInv => BudgetOK
  BY BudgetParts DEF BucketInv
<1>. QED
  BY <1>1, BudgetInvariant, PTL

\* No burst of orders exceeds the bucket: the orders between any two are no
\* more than it could hold at the first and what flowed in since, although
\* many goroutines wait and the budget is raised and lowered meanwhile (take,
\* Update).
THEOREM BurstsAreBounded == Spec => []BucketBound
<1>1. ServiceOK /\ BucketInv => BucketBound
  BY DEF BucketInv
<1>. QED
  BY <1>1, BudgetInvariant, PTL

-----------------------------------------------------------------------------
(* A lowered budget                                                        *)

\* An order from a lowered budget took one token at most, the budget is still
\* lowered, and no rate above SlowRate has flowed in since.
StillLow ==
  \A i \in DOMAIN orders : orders[i].low =>
    /\ Lowered /\ peak <= SlowRate /\ orders[i].capacity = 1
    /\ \A k \in (i + 1)..Len(orders) : orders[k].peak <= SlowRate

LEMMA LoweredStep ==
  ASSUME Lowered, BucketOK, [Next]_budgetVars
  PROVE  /\ Lowered'
         /\ peak <= SlowRate => peak' <= SlowRate
         /\ TakeOrder => peak' <= SlowRate
<1>1. run' = "done"
  BY DEF Lowered, Next, Placement, StartUp, Place, Take, TakeFails, Send,
     SendFails, Adapt, Cancel, OtherReply, InfoFails, InfoOk, NextLimit, Configure,
     Second, budgetVars, config
<1>2. ASSUME NEW p \in Callers, Take(p)
      PROVE  peak' = rate /\ UNCHANGED <<capacity, rate>>
  BY <1>2 DEF Take
<1>3. ASSUME NEW p \in Callers, Adapt(p)
      PROVE  \/ UNCHANGED <<capacity, rate, peak>>
             \/ Update(1, LowestRate) \/ Update(1, SlowRate)
  BY <1>3 DEF Adapt, bucket
<1>4. \/ UNCHANGED <<capacity, rate, peak>>
      \/ Update(1, LowestRate) \/ Update(1, SlowRate)
      \/ peak' = rate /\ UNCHANGED <<capacity, rate>>
  BY <1>2, <1>3 DEF Lowered, Next, Placement, StartUp, Place, TakeFails, Send,
     SendFails, Cancel, OtherReply, InfoFails, InfoOk, NextLimit, Configure,
     Second, budgetVars, bucket, history
<1>5. ASSUME NEW r \in {LowestRate, SlowRate}, Update(1, r)
      PROVE  capacity' = 1 /\ rate' <= SlowRate /\ peak' = Larger(peak, r)
  BY <1>5, RateAssumption DEF Update
<1>6. TakeOrder => peak' = rate
  BY DEF TakeOrder
<1>. QED
  BY <1>1, <1>4, <1>5, <1>6, RateAssumption DEF Lowered, Larger, BucketOK

LEMMA StillLowStep ==
  ASSUME ServiceOK, BucketInv, StillLow, [Next]_budgetVars
  PROVE  StillLow'
<1>. DEFINE n == Len(orders)
<1>1. /\ n \in Nat /\ DOMAIN orders = 1..n
      /\ \A k \in 1..n : orders[k].peak \in Nat /\ orders[k] \in OrderSent
  BY BucketOrders DEF BucketInv
<1>2. CASE TakeOrder
  <2>1. /\ Len(orders') = n + 1 /\ DOMAIN orders' = 1..(n + 1)
        /\ \A k \in 1..n : orders'[k] = orders[k]
        /\ orders'[n + 1] = OrderNow
    BY <1>2, OrderAppended DEF BucketInv
  <2>. SUFFICES ASSUME NEW i \in 1..(n + 1), orders'[i].low
                PROVE  /\ Lowered' /\ peak' <= SlowRate /\ orders'[i].capacity = 1
                       /\ \A k \in (i + 1)..(n + 1) : orders'[k].peak <= SlowRate
    BY <2>1 DEF StillLow
  <2>. HIDE DEF n
  <2>2. CASE i = n + 1
    <3>1. Lowered /\ orders'[i].capacity = capacity
      BY <2>1, <2>2 DEF OrderNow
    <3>2. (i + 1)..(n + 1) = {}
      BY <1>1, <2>2
    <3>. QED
      BY <1>2, <3>1, <3>2, LoweredStep DEF Lowered, BucketInv
  <2>3. CASE i # n + 1
    <3>1. i \in 1..n /\ orders'[i] = orders[i]
      BY <1>1, <2>1, <2>3
    <3>2. /\ Lowered /\ peak <= SlowRate /\ orders[i].capacity = 1
          /\ \A k \in (i + 1)..n : orders[k].peak <= SlowRate
      BY <1>1, <3>1 DEF StillLow, n
    <3>3. orders'[n + 1].peak = peak
      BY <2>1 DEF OrderNow
    <3>4. ASSUME NEW k \in (i + 1)..(n + 1)
          PROVE  orders'[k].peak <= SlowRate
      <4>1. k = n + 1 \/ (k \in (i + 1)..n /\ k \in 1..n)
        BY <1>1, <3>1
      <4>. QED
        BY <2>1, <3>2, <3>3, <4>1
    <3>. QED
      BY <1>2, <3>1, <3>2, <3>4, LoweredStep DEF BucketInv
  <2>. QED
    BY <2>2, <2>3
<1>3. CASE Tick
  <2>1. PICK d \in 0..n :
          /\ Len(orders') = n - d /\ orders' \in Seq(OrderSent)
          /\ \A k \in 1..(n - d) : orders'[k] = [orders[d + k] EXCEPT !.age = @ + 1]
    BY <1>3, OlderOrders DEF BucketInv, Tick
  <2>. HIDE DEF n
  <2>2. DOMAIN orders' = 1..(n - d)
    BY <1>1, <2>1
  <2>3. ASSUME NEW k \in 1..(n - d)
        PROVE  /\ d + k \in 1..n /\ orders'[k].low = orders[d + k].low
               /\ orders'[k].capacity = orders[d + k].capacity
               /\ orders'[k].peak = orders[d + k].peak
    <3>1. d + k \in 1..n
      BY <1>1
    <3>. QED
      BY <1>1, <2>1, <3>1 DEF OrderSent
  <2>. SUFFICES ASSUME NEW i \in 1..(n - d), orders'[i].low
                PROVE  /\ Lowered' /\ peak' <= SlowRate /\ orders'[i].capacity = 1
                       /\ \A k \in (i + 1)..(n - d) : orders'[k].peak <= SlowRate
    BY <2>1, <2>2 DEF StillLow
  <2>4. /\ Lowered /\ peak <= SlowRate /\ orders[d + i].capacity = 1
        /\ \A k \in (d + i + 1)..n : orders[k].peak <= SlowRate
    BY <1>1, <2>3 DEF StillLow, n
  <2>5. ASSUME NEW k \in (i + 1)..(n - d)
        PROVE  orders'[k].peak <= SlowRate
    <3>1. k \in 1..(n - d) /\ d + k \in (d + i + 1)..n
      BY <1>1
    <3>. QED
      BY <2>3, <2>4, <3>1
  <2>. QED
    BY <2>3, <2>4, <2>5, LoweredStep DEF BucketInv
<1>4. CASE UNCHANGED orders
  <2>. SUFFICES ASSUME NEW i \in DOMAIN orders, orders[i].low
                PROVE  Lowered' /\ peak' <= SlowRate
    BY <1>4 DEF StillLow
  <2>1. Lowered /\ peak <= SlowRate
    BY DEF StillLow
  <2>. QED
    BY <2>1, LoweredStep DEF BucketInv
<1>. QED
  BY <1>2, <1>3, <1>4, BucketSteps DEF Refill0, Reset

\* Among some orders with bounded rates, one has the highest.
LEMMA OneIsHighest ==
  ASSUME BucketOK, NEW i \in Nat, NEW j \in 1..Len(orders), i < j,
         \A l \in (i + 1)..j : orders[l].peak <= SlowRate
  PROVE  \E k \in (i + 1)..j : Highest(k, (i + 1)..j)
<1>. DEFINE Gap(l) == SlowRate - orders[l].peak
            gaps == {Gap(l) : l \in (i + 1)..j}
<1>1. \A l \in (i + 1)..j : orders[l].peak \in Nat /\ Gap(l) \in Nat
  BY BucketOrders, RateAssumption
<1>2. gaps \subseteq Nat /\ Gap(j) \in gaps
  BY <1>1, BucketOrders
<1>3. Min(gaps) \in gaps /\ \A y \in gaps : Min(gaps) <= y
  BY <1>2, MinimumOfNaturals
<1>4. PICK k \in (i + 1)..j : Min(gaps) = Gap(k)
  BY <1>3
<1>5. ASSUME NEW l \in (i + 1)..j
      PROVE  orders[l].peak <= orders[k].peak
  <2>1. Gap(k) <= Gap(l)
    BY <1>3, <1>4
  <2>. QED
    BY <1>1, <2>1, RateAssumption
<1>6. Highest(k, (i + 1)..j)
  BY <1>5 DEF Highest
<1>. QED
  BY <1>6

LEMMA SlowProducts ==
  ASSUME NEW u \in Nat, NEW m \in Nat, NEW r \in Nat, NEW top \in Nat,
         NEW gap \in Nat, r <= top, u * (m + 1) <= u * 1 + r * gap
  PROVE  u * m <= top * gap
<1>1. u * (m + 1) = u * m + u /\ u * 1 = u
  OBVIOUS
<1>2. /\ u * m \in Nat /\ r * gap \in Nat /\ top * gap \in Nat
      /\ r * gap <= top * gap
  BY Products
<1>. QED
  BY <1>1, <1>2

LEMMA LowIsSlow ==
  ASSUME BucketInv, StillLow
  PROVE  StaysSlow
<1>. SUFFICES ASSUME NEW i \in DOMAIN orders, NEW j \in DOMAIN orders,
                     i < j, orders[i].low
              PROVE  Unit * (j - i) <= SlowRate * (orders[i].age - orders[j].age)
  BY DEF StaysSlow
<1>1. /\ i \in 1..Len(orders) /\ j \in 1..Len(orders) /\ Len(orders) \in Nat
      /\ orders[i].age \in Nat /\ orders[j].age \in Nat
      /\ orders[j].age <= orders[i].age
  BY BucketOrders DEF BucketInv, Aged
<1>2. /\ orders[i].capacity = 1
      /\ \A l \in (i + 1)..j : orders[l].peak <= SlowRate
  BY <1>1 DEF StillLow
<1>3. PICK k \in (i + 1)..j : Highest(k, (i + 1)..j)
  <2>1. i \in Nat /\ BucketOK
    BY <1>1 DEF BucketInv
  <2>. QED
    BY <1>1, <1>2, <2>1, OneIsHighest
<1>4. orders[k].peak \in Nat /\ orders[k].peak <= SlowRate
  BY <1>1, <1>2, BucketOrders DEF BucketInv
<1>5. Unit * (j - i + 1)
        <= Unit * 1 + orders[k].peak * (orders[i].age - orders[j].age)
  BY <1>2, <1>3 DEF BucketInv, BucketBound
<1>6. /\ j - i \in Nat /\ orders[i].age - orders[j].age \in Nat
      /\ Unit \in Nat /\ SlowRate \in Nat
  BY <1>1, RateAssumption
<1>. QED
  BY <1>4, <1>5, <1>6, SlowProducts

\* Orders from a lowered budget go out one by one at SlowRate, whatever
\* replies, changes of the budget and idle times follow, and however many
\* goroutines wait (adaptOrderBudget, Update, take).
THEOREM LowBudgetIsSlow == Spec => []StaysSlow
<1>1. Init => StillLow
  BY DEF Init, StillLow
<1>2. ServiceOK /\ BucketInv /\ StillLow /\ [Next]_budgetVars => StillLow'
  BY StillLowStep
<1>3. BucketInv /\ StillLow => StaysSlow
  BY LowIsSlow
<1>. QED
  BY <1>1, <1>2, <1>3, BudgetInvariant, PTL DEF Spec
=============================================================================
