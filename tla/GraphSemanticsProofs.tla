------------------------ MODULE GraphSemanticsProofs ------------------------
(***************************************************************************)
(* What the SDK makes of functions of any length, nested to any depth,     *)
(* over any attributes, local variables and expressions.                   *)
(***************************************************************************)
EXTENDS GraphSemantics, NaturalsInduction, WellFoundedInduction, TLAPS

(* Induction over numbers is by a least counterexample.                    *)
LEMMA LeastElement ==
  ASSUME NEW S \in SUBSET Nat, S # {}
  PROVE  \E m \in S : \A k \in S : m <= k
<1> DEFINE Less == OpToRel(<, Nat)
<1>1. Less = {pair \in Nat \X Nat : pair[1] < pair[2]}
  BY DEF OpToRel
<1>2. PICK m \in S : \A k \in S : <<k, m>> \notin Less
  <2> HIDE DEF Less
  <2> QED
    BY NatLessThanWellFounded, WFMin DEF Less
<1> HIDE DEF Less
<1>3. \A k \in S : ~ k < m
  BY <1>1, <1>2
<1> QED
  BY <1>2, <1>3, SMT

LEMMA Induction ==
  ASSUME NEW S, 0 \in S, \A n \in Nat : n \in S => n + 1 \in S
  PROVE  Nat \subseteq S
<1> SUFFICES ASSUME NEW n \in Nat \ S PROVE FALSE
  OBVIOUS
<1>1. PICK m \in Nat \ S : \A k \in Nat \ S : m <= k
  BY LeastElement
<1>2. m # 0
  BY <1>1
<1>3. m - 1 \in Nat /\ m - 1 \notin Nat \ S
  BY <1>1, <1>2, SMT
<1>4. (m - 1) + 1 \in S
  BY <1>3
<1>5. (m - 1) + 1 = m
  BY <1>1, SMT
<1> QED
  BY <1>1, <1>4, <1>5

-----------------------------------------------------------------------------
(* Sequences that are changed at one of their ends.                        *)
Once(seq) == \A i, k \in DOMAIN seq : seq[i] = seq[k] => i = k

LEMMA TailShifts ==
  ASSUME NEW T, NEW s \in Seq(T), s # <<>>, NEW t, t = Tail(s)
  PROVE  /\ t \in Seq(T) /\ Len(t) = Len(s) - 1
         /\ \A m \in 1 .. Len(s) - 1 : t[m] = s[m + 1]
OBVIOUS

LEMMA Appended ==
  ASSUME NEW T, NEW s \in Seq(T), NEW e \in T
  PROVE  /\ Append(s, e) \in Seq(T) /\ Range(Append(s, e)) = Range(s) \cup {e}
         /\ Once(s) /\ e \notin Range(s) => Once(Append(s, e))
<1> PICK n : n = Len(s)
  OBVIOUS
<1> PICK t : t = Append(s, e)
  OBVIOUS
<1>1. /\ n \in Nat /\ DOMAIN s = 1 .. n
      /\ t \in Seq(T) /\ DOMAIN t = 1 .. n + 1
      /\ \A m \in 1 .. n : t[m] = s[m]
      /\ t[n + 1] = e
  OBVIOUS
<1>2. \A m \in 1 .. n + 1 : m \in 1 .. n \/ m = n + 1
  BY <1>1, SMT
<1>3. \A m \in 1 .. n : m \in 1 .. n + 1
  BY <1>1, SMT
<1>4. n + 1 \in 1 .. n + 1
  BY <1>1, SMT
<1>5. Range(t) = Range(s) \cup {e}
  BY <1>1, <1>2, <1>3, <1>4 DEF Range
<1>6. ASSUME Once(s), e \notin Range(s) PROVE Once(t)
  <2>1. \A i \in 1 .. n : t[i] = s[i] /\ t[i] # e
    BY <1>1, <1>6 DEF Range
  <2>2. DOMAIN t = 1 .. n + 1 /\ t[n + 1] = e
    BY <1>1
  <2> SUFFICES ASSUME NEW i \in 1 .. n + 1, NEW k \in 1 .. n + 1, t[i] = t[k]
               PROVE  i = k
    BY <2>2 DEF Once
  <2>3. i \in 1 .. n <=> k \in 1 .. n
    BY <1>2, <2>1, <2>2
  <2>4. CASE i \in 1 .. n
    BY <1>6, <2>1, <2>3, <2>4 DEF Once
  <2> QED
    BY <1>2, <2>3, <2>4
<1> QED
  BY <1>1, <1>5, <1>6

-----------------------------------------------------------------------------
(* Sequences of attributes.                                                *)
Kept(kept, order, attrs, n) ==
  kept = [k \in 0 .. n |->
            IF k = 0 THEN <<>>
            ELSE IF order[k] \in attrs THEN kept[k - 1] ELSE Append(kept[k - 1], order[k])]

LEMMA KeptExists ==
  ASSUME NEW order, NEW attrs, NEW n \in Nat
  PROVE  \E kept : Kept(kept, order, attrs, n)
<1> DEFINE S == {m \in Nat : \E kept : Kept(kept, order, attrs, m)}
           Grown(prev, k) == IF order[k] \in attrs THEN prev ELSE Append(prev, order[k])
<1>1. 0 \in S
  <2> DEFINE kept == [k \in 0 .. 0 |-> <<>>]
  <2>1. Kept(kept, order, attrs, 0)
    BY SMT DEF Kept
  <2> HIDE DEF kept
  <2> QED
    BY <2>1
<1>2. ASSUME NEW m \in Nat, m \in S PROVE m + 1 \in S
  <2>1. PICK f : Kept(f, order, attrs, m)
    BY <1>2
  <2> DEFINE g == [k \in 0 .. m + 1 |-> IF k = m + 1 THEN Grown(f[m], m + 1) ELSE f[k]]
  <2>2. \A k \in 0 .. m : f[k] = IF k = 0 THEN <<>> ELSE Grown(f[k - 1], k)
    BY <2>1 DEF Kept
  <2> HIDE DEF Grown
  <2>3. ASSUME NEW k \in 0 .. m + 1
        PROVE  g[k] = IF k = 0 THEN <<>> ELSE Grown(g[k - 1], k)
    <3>1. CASE k = m + 1
      <4>1. m \in 0 .. m + 1 /\ m # m + 1 /\ k - 1 = m /\ k # 0
        BY <3>1, SMT
      <4>2. g[k - 1] = f[m] /\ g[k] = Grown(f[m], m + 1)
        BY <3>1, <4>1
      <4> QED
        BY <3>1, <4>1, <4>2
    <3>2. CASE k # m + 1
      <4>1. /\ k \in 0 .. m
            /\ k # 0 => k - 1 \in 0 .. m + 1 /\ k - 1 # m + 1
        BY <3>2, SMT
      <4>2. g[k] = f[k] /\ (k # 0 => g[k - 1] = f[k - 1])
        BY <3>2, <4>1
      <4> QED
        BY <2>2, <4>1, <4>2
    <3> QED
      BY <3>1, <3>2
  <2>4. g = [k \in 0 .. m + 1 |-> g[k]]
    OBVIOUS
  <2> HIDE DEF g
  <2>5. Kept(g, order, attrs, m + 1)
    BY <2>3, <2>4 DEF Kept, Grown
  <2> QED
    BY <2>5
<1>3. Nat \subseteq S
  <2> HIDE DEF S
  <2> QED
    BY <1>1, <1>2, Induction
<1> QED
  BY <1>3

(* Without keeps the others, in a sequence, each as often as before.       *)
LEMMA WithoutKeeps ==
  ASSUME NEW T, NEW order \in Seq(T), NEW attrs
  PROVE  /\ Without(order, attrs) \in Seq(T)
         /\ Range(Without(order, attrs)) = Range(order) \ attrs
         /\ Once(order) => Once(Without(order, attrs))
<1> DEFINE f == CHOOSE kept : Kept(kept, order, attrs, Len(order))
           Upto(k) == {order[i] : i \in 1 .. k}
           Good(k) == /\ f[k] \in Seq(T)
                      /\ Range(f[k]) = Upto(k) \ attrs
                      /\ Once(order) => Once(f[k])
           S == {k \in Nat : k <= Len(order) => Good(k)}
<1>1. Len(order) \in Nat /\ \A i \in 1 .. Len(order) : order[i] \in T
  OBVIOUS
<1>2. Kept(f, order, attrs, Len(order))
  BY <1>1, KeptExists
<1>3. Without(order, attrs) = f[Len(order)]
  BY DEF Without, Kept
<1> HIDE DEF f
<1>4. \A k \in 0 .. Len(order) :
        f[k] = IF k = 0 THEN <<>>
               ELSE IF order[k] \in attrs THEN f[k - 1] ELSE Append(f[k - 1], order[k])
  BY <1>2 DEF Kept
<1>5. 0 \in S
  <2>1. f[0] = <<>>
    BY <1>1, <1>4
  <2>2. Upto(0) = {}
    BY SMT
  <2>3. <<>> \in Seq(T) /\ Range(<<>>) = {} /\ Once(<<>>)
    BY SMT DEF Range, Once
  <2>4. Good(0)
    BY <2>1, <2>2, <2>3
  <2> QED
    BY <2>4
<1>6. ASSUME NEW k \in Nat, k \in S PROVE k + 1 \in S
  <2> SUFFICES ASSUME k + 1 <= Len(order) PROVE Good(k + 1)
    OBVIOUS
  <2>1. /\ k <= Len(order) /\ k + 1 \in 0 .. Len(order) /\ (k + 1) - 1 = k /\ k + 1 # 0
        /\ k + 1 \in 1 .. Len(order)
    BY <1>1, SMT
  <2>2. Good(k)
    BY <1>6, <2>1
  <2>3. f[k + 1] = IF order[k + 1] \in attrs THEN f[k] ELSE Append(f[k], order[k + 1])
    BY <1>4, <2>1
  <2>4. Upto(k + 1) = Upto(k) \cup {order[k + 1]} /\ order[k + 1] \in T
    BY <1>1, <2>1, SMT
  <2>5. CASE order[k + 1] \in attrs
    BY <2>2, <2>3, <2>4, <2>5
  <2>6. CASE order[k + 1] \notin attrs
    <3> DEFINE s == f[k]
               e == order[k + 1]
    <3>1. s \in Seq(T) /\ e \in T /\ f[k + 1] = Append(s, e)
      BY <2>2, <2>3, <2>4, <2>6
    <3>2. Once(order) => e \notin Upto(k)
      BY <1>1, <2>1, SMT DEF Once
    <3>3. Range(s) = Upto(k) \ attrs /\ (Once(order) => Once(s))
      BY <2>2
    <3> HIDE DEF s, e, Upto
    <3>4. /\ Append(s, e) \in Seq(T) /\ Range(Append(s, e)) = Range(s) \cup {e}
          /\ Once(s) /\ e \notin Range(s) => Once(Append(s, e))
      BY <3>1, Appended
    <3> QED
      BY <2>4, <2>6, <3>1, <3>2, <3>3, <3>4 DEF e
  <2> QED
    BY <2>5, <2>6
<1>7. Len(order) \in S
  <2> HIDE DEF S
  <2> QED
    BY <1>1, <1>5, <1>6, Induction
<1>8. Upto(Len(order)) = Range(order)
  BY <1>1 DEF Range
<1> QED
  BY <1>1, <1>3, <1>7, <1>8

LEMMA AddToAdds ==
  ASSUME NEW T, NEW seq \in Seq(T), NEW a \in T
  PROVE  /\ AddTo(seq, a) \in Seq(T)
         /\ Range(AddTo(seq, a)) = Range(seq) \cup {a}
         /\ Once(seq) => Once(AddTo(seq, a))
<1>1. CASE Contains(seq, a)
  <2>1. a \in Range(seq)
    BY <1>1, SMT DEF Contains, Range
  <2> QED
    BY <1>1, <2>1 DEF AddTo
<1>2. CASE ~Contains(seq, a)
  <2>1. AddTo(seq, a) = Append(seq, a)
    BY <1>2 DEF AddTo
  <2>2. \A i \in DOMAIN seq : seq[i] # a
    BY <1>2, SMT DEF Contains
  <2> QED
    BY <2>1, <2>2, SMT DEF Range, Once
<1> QED
  BY <1>1, <1>2

LEMMA ConcatOnce ==
  ASSUME NEW T, NEW s \in Seq(T), NEW t \in Seq(T)
  PROVE  /\ s \o t \in Seq(T)
         /\ Range(s \o t) = Range(s) \cup Range(t)
         /\ Once(s) /\ Once(t) /\ Range(s) \cap Range(t) = {} => Once(s \o t)
<1>1. /\ s \o t \in Seq(T) /\ Len(s \o t) = Len(s) + Len(t)
      /\ Len(s) \in Nat /\ Len(t) \in Nat
      /\ DOMAIN s = 1 .. Len(s) /\ DOMAIN t = 1 .. Len(t)
      /\ DOMAIN (s \o t) = 1 .. Len(s) + Len(t)
      /\ \A i \in 1 .. Len(s) + Len(t) :
           (s \o t)[i] = IF i <= Len(s) THEN s[i] ELSE t[i - Len(s)]
  BY SMT
<1> DEFINE c == s \o t
<1> HIDE DEF c
<1>2. Range(c) = Range(s) \cup Range(t)
  <2>1. Range(c) \subseteq Range(s) \cup Range(t)
    BY <1>1, SMT DEF Range, c
  <2>2. \A i \in DOMAIN s : i \in DOMAIN c /\ c[i] = s[i]
    BY <1>1, SMT DEF c
  <2>3. \A i \in DOMAIN t : i + Len(s) \in DOMAIN c /\ c[i + Len(s)] = t[i]
    BY <1>1, SMT DEF c
  <2>4. Range(s) \subseteq Range(c)
    BY <2>2 DEF Range
  <2>5. Range(t) \subseteq Range(c)
    BY <2>3 DEF Range
  <2> QED
    BY <2>1, <2>4, <2>5
<1>3. ASSUME Once(s), Once(t), Range(s) \cap Range(t) = {},
             NEW i \in DOMAIN c, NEW k \in DOMAIN c, c[i] = c[k]
      PROVE  i = k
  <2>1. CASE i <= Len(s) /\ k <= Len(s)
    BY <1>1, <1>3, <2>1, SMT DEF Once, c
  <2>2. CASE i > Len(s) /\ k > Len(s)
    BY <1>1, <1>3, <2>2, SMT DEF Once, c
  <2>3. \A m, n \in DOMAIN c : m <= Len(s) /\ n > Len(s) => c[m] # c[n]
    <3> SUFFICES ASSUME NEW m \in DOMAIN c, NEW n \in DOMAIN c, m <= Len(s), n > Len(s)
                 PROVE  c[m] # c[n]
      OBVIOUS
    <3>1. c[m] \in Range(s)
      BY <1>1, SMT DEF Range, c
    <3>2. c[n] \in Range(t)
      BY <1>1, SMT DEF Range, c
    <3> QED
      BY <1>3, <3>1, <3>2
  <2> QED
    BY <1>1, <1>3, <2>1, <2>2, <2>3, SMT DEF c
<1> QED
  BY <1>1, <1>2, <1>3 DEF c, Once

(* What the branches set, each once.                                       *)
LEMMA MergedOnce ==
  ASSUME NEW T, NEW s \in Seq(T), NEW t \in Seq(T), Once(s), Once(t)
  PROVE  /\ s \o Without(t, Range(s)) \in Seq(T)
         /\ Range(s \o Without(t, Range(s))) = Range(s) \cup Range(t)
         /\ Once(s \o Without(t, Range(s)))
<1> DEFINE w == Without(t, Range(s))
<1>1. w \in Seq(T) /\ Range(w) = Range(t) \ Range(s) /\ Once(w)
  BY WithoutKeeps
<1> HIDE DEF w
<1>2. /\ s \o w \in Seq(T) /\ Range(s \o w) = Range(s) \cup Range(w)
      /\ Range(s) \cap Range(w) = {} => Once(s \o w)
  BY <1>1, ConcatOnce
<1> QED
  BY <1>1, <1>2 DEF w

-----------------------------------------------------------------------------
(* The function: which branches are open before a statement, and what the  *)
(* statement makes of them.                                                *)
Branch == [id : Nat \ {0}, branch : {"if", "else"}]
Stmt ==
  [kind : {"assign"}, attr : words.vars, expr : words.exprs, within : Seq(Branch)] \cup
  [kind : {"if"}, attr : words.vars, val : TestVals, within : Seq(Branch)] \cup
  [kind : {"else", "endif"}, within : Seq(Branch)]

At(n) == IF n <= Len(prog) THEN prog[n].within ELSE open

After(s, i) ==
  CASE s.kind = "assign" -> s.within
    [] s.kind = "if"     -> <<[id |-> i, branch |-> "if"]>> \o s.within
    [] s.kind = "else"   -> [s.within EXCEPT ![1].branch = "else"]
    [] s.kind = "endif"  -> Tail(s.within)

Legal(s) ==
  /\ s.kind = "else"  => s.within # <<>> /\ s.within[1].branch = "if"
  /\ s.kind = "endif" => s.within # <<>> /\ s.within[1].branch = "else"

(* The conditionals of which a branch is open began earlier, the inner     *)
(* ones later than those around them.                                      *)
Nested(i) ==
  /\ Len(At(i)) <= MaxDepth
  /\ \A n \in DOMAIN At(i) : At(i)[n].id < i
  /\ \A n, m \in DOMAIN At(i) : n < m => At(i)[m].id < At(i)[n].id
  /\ \A n \in DOMAIN At(i) :
       /\ prog[At(i)[n].id].kind = "if"
       /\ Range(prog[At(i)[n].id].within) \subseteq Range(At(i))

(* A branch that was left is not entered again.                            *)
Left(i) ==
  \A k \in i + 1 .. Len(prog) + 1 : \A n \in DOMAIN At(k) :
    /\ prog[i].kind = "else"  => At(k)[n] # At(i)[1]
    /\ prog[i].kind = "endif" => At(k)[n].id # At(i)[1].id

Written ==
  /\ words \in Vocabularies
  /\ prog \in Seq(Stmt)
  /\ open \in Seq(Branch)
  /\ phase \in {"write", "plot", "run", "raised"}
  /\ pc \in 1 .. Len(prog) + 1
  /\ phase = "write" => pc = 1
  /\ phase # "write" => open = <<>>
  /\ phase = "run" => pc = Len(prog) + 1
  /\ At(1) = <<>>
  /\ \A i \in 1 .. Len(prog) : At(i + 1) = After(prog[i], i) /\ Legal(prog[i]) /\ Left(i)
  /\ \A i \in 1 .. Len(prog) + 1 : Nested(i)

LEMMA WriteKeepsWritten ==
  ASSUME Written, phase = "write", UNCHANGED <<phase, words, pc>>,
         NEW s \in Stmt, s.within = open, Legal(s),
         prog' = Append(prog, s), open' = After(s, Len(prog) + 1),
         s.kind = "if" => Len(open) < MaxDepth
  PROVE  Written'
<1>0. PICK n : n = Len(prog)
  OBVIOUS
<1>1. /\ n = Len(prog) /\ n \in Nat /\ prog \in Seq(Stmt) /\ open \in Seq(Branch)
      /\ prog' \in Seq(Stmt) /\ Len(prog') = n + 1
      /\ \A i \in 1 .. n : prog'[i] = prog[i]
      /\ prog'[n + 1] = s
      /\ 1 .. Len(prog) = 1 .. n /\ 1 .. Len(prog) + 1 = 1 .. n + 1
  <2>1. prog \in Seq(Stmt) /\ open \in Seq(Branch) /\ Stmt' = Stmt
    BY DEF Written, Stmt
  <2> QED
    BY <1>0, <2>1
<1>2. /\ \A i \in 1 .. n + 1 : At(i)' = At(i)
      /\ At(n + 1) = open /\ At(n + 2)' = open'
  BY <1>1, SMT DEF At
<1>3. /\ s.kind \in {"assign", "if", "else", "endif"}
      /\ Len(open) \in Nat /\ DOMAIN open = 1 .. Len(open)
      /\ \A m \in DOMAIN open : open[m] \in Branch
  BY <1>1 DEF Stmt
<1>4. /\ \A i \in 1 .. n + 1 : Nested(i)
      /\ \A i \in 1 .. n : At(i + 1) = After(prog[i], i) /\ Legal(prog[i]) /\ Left(i)
  BY <1>1 DEF Written
<1>5. Nested(n + 1) /\ At(n + 1) = open
  BY <1>1, <1>2, <1>4, SMT
<1>6. /\ Len(open) <= MaxDepth
      /\ \A m \in DOMAIN open : open[m].id \in 1 .. n
      /\ \A m, k \in DOMAIN open : m < k => open[k].id < open[m].id
      /\ \A m \in DOMAIN open :
           /\ prog[open[m].id].kind = "if"
           /\ Range(prog[open[m].id].within) \subseteq Range(open)
  <2>1. \A m \in DOMAIN open : open[m].id \in Nat \ {0} /\ open[m].id < n + 1
    BY <1>3, <1>5 DEF Nested, Branch
  <2>2. \A m \in DOMAIN open : open[m].id \in 1 .. n
    BY <1>1, <2>1, SMT
  <2> QED
    BY <1>5, <2>2 DEF Nested
<1>7. \A m \in DOMAIN open :
        /\ open[m].id \in Nat /\ open[m].id < n + 1 /\ open[m].id <= n + 1
        /\ prog'[open[m].id] = prog[open[m].id]
        /\ m # 1 => open[m].id < open[1].id /\ open[m] # open[1]
  <2> SUFFICES ASSUME NEW m \in DOMAIN open
               PROVE  /\ open[m].id \in Nat /\ open[m].id < n + 1 /\ open[m].id <= n + 1
                      /\ prog'[open[m].id] = prog[open[m].id]
                      /\ m # 1 => open[m].id < open[1].id /\ open[m] # open[1]
    OBVIOUS
  <2>1. n \in Nat /\ open[m].id \in 1 .. n /\ prog'[open[m].id] = prog[open[m].id]
    BY <1>1, <1>6
  <2>2. m # 1 => 1 \in DOMAIN open /\ 1 < m
    BY <1>3, SMT
  <2>3. m # 1 => open[m].id < open[1].id
    BY <1>6, <2>2
  <2> QED
    BY <2>1, <2>3, SMT
(* What is open around a conditional was open before it, and still is.     *)
<1>8. ASSUME NEW m \in DOMAIN open, NEW b \in Range(prog[open[m].id].within)
      PROVE  b \in Range(open) /\ b.id < open[m].id
  <2>1. open[m].id \in 1 .. n /\ Nested(open[m].id)
    BY <1>1, <1>4, <1>6, SMT
  <2>2. At(open[m].id) = prog[open[m].id].within
    BY <1>1, <2>1, SMT DEF At
  <2>3. Range(prog[open[m].id].within) \subseteq Range(open)
    BY <1>6
  <2>4. PICK k \in DOMAIN prog[open[m].id].within : b = prog[open[m].id].within[k]
    BY DEF Range
  <2> QED
    BY <2>1, <2>2, <2>3, <2>4 DEF Nested
<1>9. ASSUME NEW i \in 1 .. n
      PROVE  /\ prog[i].kind \in {"else", "endif"} =>
                  prog[i].within # <<>> /\ prog[i].within[1].id < i
             /\ prog[i].kind = "else" => prog[i].within[1].branch = "if"
             /\ \A k \in DOMAIN open :
                  /\ prog[i].kind = "else"  => open[k] # prog[i].within[1]
                  /\ prog[i].kind = "endif" => open[k].id # prog[i].within[1].id
  <2>1. Legal(prog[i]) /\ Left(i) /\ Nested(i) /\ At(i) = prog[i].within
    BY <1>1, <1>4, SMT DEF At
  <2>2. prog[i].within \in Seq(Branch)
    BY <1>1 DEF Stmt
  <2>3. prog[i].kind \in {"else", "endif"} => prog[i].within # <<>>
    BY <2>1 DEF Legal
  <2>4. prog[i].within # <<>> => 1 \in DOMAIN prog[i].within
    BY <2>2, SMT
  <2>5. n + 1 \in i + 1 .. Len(prog) + 1
    BY <1>1, SMT
  <2>6. \A k \in DOMAIN open :
          /\ prog[i].kind = "else"  => open[k] # prog[i].within[1]
          /\ prog[i].kind = "endif" => open[k].id # prog[i].within[1].id
    BY <1>2, <2>1, <2>5 DEF Left
  <2>7. prog[i].within # <<>> => prog[i].within[1].id < i
    BY <2>1, <2>4 DEF Nested
  <2> QED
    BY <2>1, <2>3, <2>6, <2>7 DEF Legal
<1> DEFINE
      Typed == open' \in Seq(Branch) /\ Len(open') <= MaxDepth
      Earlier == \A m \in DOMAIN open' : open'[m].id <= n + 1
      Ordered == \A m, k \in DOMAIN open' : m < k => open'[k].id < open'[m].id
      Around == \A m \in DOMAIN open' :
                  /\ prog'[open'[m].id].kind = "if"
                  /\ Range(prog'[open'[m].id].within) \subseteq Range(open')
      LeftBefore == \A i \in 1 .. n, m \in DOMAIN open' :
                      /\ prog[i].kind = "else"  => open'[m] # prog[i].within[1]
                      /\ prog[i].kind = "endif" => open'[m].id # prog[i].within[1].id
      LeftNow == \A m \in DOMAIN open' :
                   /\ s.kind = "else"  => open'[m] # open[1]
                   /\ s.kind = "endif" => open'[m].id # open[1].id
<1>10. ASSUME s.kind = "assign"
      PROVE  Typed /\ Earlier /\ Ordered /\ Around /\ LeftBefore /\ LeftNow
  <2>1. open' = open
    BY <1>10, SMT DEF After
  <2>2. \A m \in DOMAIN open : prog'[open[m].id] = prog[open[m].id]
    BY <1>7
  <2>3. \A m \in DOMAIN open : open[m].id <= n + 1
    BY <1>7
  <2>4. Typed /\ Earlier
    BY <1>1, <1>6, <2>1, <2>3
  <2>5. Ordered
    BY <1>6, <2>1
  <2>6. Around
    <3> SUFFICES ASSUME NEW m \in DOMAIN open
                 PROVE  /\ prog'[open[m].id].kind = "if"
                        /\ Range(prog'[open[m].id].within) \subseteq Range(open)
      BY <2>1
    <3>1. prog'[open[m].id] = prog[open[m].id]
      BY <2>2
    <3>2. prog[open[m].id].kind = "if" /\ Range(prog[open[m].id].within) \subseteq Range(open)
      BY <1>6
    <3> QED
      BY <3>1, <3>2
  <2>7. LeftBefore
    BY <1>9, <2>1
  <2>8. LeftNow
    BY <1>10
  <2> QED
    BY <2>4, <2>5, <2>6, <2>7, <2>8
<1>11. ASSUME s.kind = "if"
      PROVE  Typed /\ Earlier /\ Ordered /\ Around /\ LeftBefore /\ LeftNow
  <2> DEFINE e == [id |-> n + 1, branch |-> "if"]
  <2>1. open' = <<e>> \o open /\ e \in Branch /\ e.id = n + 1
    BY <1>1, <1>11, SMT DEF After, Branch
  <2> HIDE DEF e
  <2>2. /\ open' \in Seq(Branch) /\ Len(open') = Len(open) + 1 /\ DOMAIN open' = 1 .. Len(open) + 1
        /\ open'[1] = e
        /\ \A m \in DOMAIN open' : m # 1 => m - 1 \in DOMAIN open /\ open'[m] = open[m - 1]
    <3>1. <<e>> \in Seq(Branch) /\ open \in Seq(Branch)
      BY <1>1, <2>1
    <3>2. open' \in Seq(Branch)
      <4>1. <<e>> \o open \in Seq(Branch)
        BY <3>1
      <4> QED
        BY <2>1, <4>1
    <3>3. Len(open') = Len(open) + 1 /\ DOMAIN open' = 1 .. Len(open) + 1 /\ open'[1] = e
      BY <1>3, <2>1, <3>1, SMT
    <3>4. \A m \in DOMAIN open' : m # 1 => m - 1 \in DOMAIN open /\ open'[m] = open[m - 1]
      BY <1>3, <2>1, <3>1, <3>3, SMT
    <3> QED
      BY <3>2, <3>3, <3>4
  <2>3. \A m \in DOMAIN open : m + 1 \in DOMAIN open' /\ open'[m + 1] = open[m]
    BY <1>1, <1>3, <2>1, SMT
  <2>4. Range(open) \subseteq Range(open')
    BY <2>3 DEF Range
  <2>5. \A m \in DOMAIN open' : (m = 1 /\ open'[m] = e) \/ open'[m] \in Range(open)
    BY <2>2 DEF Range
  <2>6. Len(open') <= MaxDepth
    BY <1>3, <1>11, <2>2, BoundsAssumption, SMT
  <2>7. \A b \in Range(open) : b.id <= n + 1
    BY <1>7 DEF Range
  <2>8. \A m \in DOMAIN open' : open'[m].id <= n + 1
    BY <1>1, <2>1, <2>5, <2>7
  <2>9. ASSUME NEW m \in DOMAIN open', NEW k \in DOMAIN open', m < k
        PROVE  open'[k].id < open'[m].id
    <3>1. k # 1 /\ k - 1 \in DOMAIN open /\ open'[k] = open[k - 1] /\ open[k - 1].id < n + 1
      <4>1. k # 1
        BY <1>3, <2>2, <2>9, SMT
      <4> QED
        BY <1>7, <2>2, <4>1
    <3>2. CASE m = 1
      BY <2>1, <2>2, <3>1, <3>2
    <3>3. CASE m # 1
      <4>1. m - 1 \in DOMAIN open /\ open'[m] = open[m - 1] /\ m - 1 < k - 1
        BY <1>3, <2>2, <2>9, <3>3, SMT
      <4> QED
        BY <1>6, <3>1, <4>1
    <3> QED
      BY <3>2, <3>3
  <2>10. \A b \in Range(open) :
           prog'[b.id].kind = "if" /\ Range(prog'[b.id].within) \subseteq Range(open)
    <3>1. \A m \in DOMAIN open : prog'[open[m].id] = prog[open[m].id]
      BY <1>1, <1>6
    <3>2. \A m \in DOMAIN open :
            prog'[open[m].id].kind = "if" /\ Range(prog'[open[m].id].within) \subseteq Range(open)
      <4> SUFFICES ASSUME NEW m \in DOMAIN open
                   PROVE  /\ prog'[open[m].id].kind = "if"
                          /\ Range(prog'[open[m].id].within) \subseteq Range(open)
        OBVIOUS
      <4>1. prog[open[m].id].kind = "if" /\ Range(prog[open[m].id].within) \subseteq Range(open)
        BY <1>6
      <4> QED
        BY <3>1, <4>1
    <3>3. \A b \in Range(open) : \E m \in DOMAIN open : b = open[m]
      BY DEF Range
    <3> SUFFICES ASSUME NEW b \in Range(open)
                 PROVE  /\ prog'[b.id].kind = "if"
                        /\ Range(prog'[b.id].within) \subseteq Range(open)
      OBVIOUS
    <3>4. PICK m \in DOMAIN open : b = open[m]
      BY <3>3
    <3> QED
      BY <3>2, <3>4
  <2>11. prog'[e.id].kind = "if" /\ Range(prog'[e.id].within) = Range(open)
    BY <1>1, <1>11, <2>1
  <2>12. \A m \in DOMAIN open' :
           /\ prog'[open'[m].id].kind = "if"
           /\ Range(prog'[open'[m].id].within) \subseteq Range(open')
    BY <2>4, <2>5, <2>10, <2>11
  <2>13. ASSUME NEW i \in 1 .. n, NEW m \in DOMAIN open'
         PROVE  /\ prog[i].kind = "else"  => open'[m] # prog[i].within[1]
                /\ prog[i].kind = "endif" => open'[m].id # prog[i].within[1].id
    <3>1. CASE open'[m] = e
      <4>1. prog[i].kind \in {"else", "endif"} => prog[i].within[1].id < n + 1
        <5>1. prog[i].within \in Seq(Branch)
          BY <1>1 DEF Stmt
        <5>2. prog[i].within # <<>> => prog[i].within[1].id \in Nat
          <6>1. prog[i].within # <<>> => prog[i].within[1] \in Branch
            BY <5>1, SMT
          <6> QED
            BY <6>1 DEF Branch
        <5> QED
          BY <1>1, <1>9, <5>2, SMT
      <4> QED
        BY <1>1, <2>1, <3>1, <4>1, SMT
    <3>2. CASE open'[m] \in Range(open)
      BY <1>9, <3>2 DEF Range
    <3> QED
      BY <2>5, <3>1, <3>2
  <2>14. Typed /\ Earlier
    BY <2>2, <2>6, <2>8
  <2>15. Ordered
    BY <2>9
  <2>16. LeftBefore
    BY <2>13
  <2>17. LeftNow
    BY <1>11
  <2> QED
    BY <2>12, <2>14, <2>15, <2>16, <2>17
<1>12. ASSUME s.kind = "else"
      PROVE  Typed /\ Earlier /\ Ordered /\ Around /\ LeftBefore /\ LeftNow
  <2>1. /\ open # <<>> /\ 1 \in DOMAIN open /\ open[1].branch = "if"
    BY <1>3, <1>12 DEF Legal
  <2>2. PICK e : e = [open[1] EXCEPT !.branch = "else"]
    OBVIOUS
  <2>3. open' = [open EXCEPT ![1] = e]
    BY <1>12, <2>2, SMT DEF After
  <2>4. e \in Branch /\ e.id = open[1].id /\ e.branch = "else"
    <3>1. open[1] \in Branch
      BY <1>3, <2>1
    <3> QED
      BY <2>2, <3>1 DEF Branch
  <2>5. /\ DOMAIN open' = DOMAIN open /\ Len(open') = Len(open)
        /\ \A m \in DOMAIN open : m # 1 => open'[m] = open[m]
        /\ open' \in Seq(Branch)
        /\ open'[1].id = open[1].id /\ open'[1].branch = "else"
    <3>1. open \in Seq(Branch)
      BY <1>1
    <3>2. /\ open' \in Seq(Branch) /\ Len(open') = Len(open) /\ DOMAIN open' = DOMAIN open
          /\ open'[1] = e
          /\ \A m \in DOMAIN open : m # 1 => open'[m] = open[m]
      BY <2>1, <2>3, <2>4, <3>1
    <3> QED
      BY <2>4, <3>2
  <2>6. \A m \in DOMAIN open : open'[m].id = open[m].id
    BY <2>5
  <2>7. \A m \in DOMAIN open : open[m].id <= n + 1 /\ prog'[open[m].id] = prog[open[m].id]
    BY <1>7
  <2>8. ASSUME NEW m \in DOMAIN open
        PROVE  Range(prog[open[m].id].within) \subseteq Range(open')
    <3> SUFFICES ASSUME NEW b \in Range(prog[open[m].id].within) PROVE b \in Range(open')
      OBVIOUS
    <3>1. b \in Range(open) /\ b.id < open[m].id
      BY <1>8
    <3>2. b # open[1]
      <4>1. /\ open[m].id \in Nat /\ open[1].id \in Nat
            /\ m = 1 \/ open[m].id < open[1].id
        BY <1>7, <2>1
      <4> QED
        BY <3>1, <4>1, SMT
    <3>3. PICK k \in DOMAIN open : b = open[k]
      BY <3>1 DEF Range
    <3> QED
      BY <2>5, <3>2, <3>3 DEF Range
  <2>9. ASSUME NEW i \in 1 .. n, NEW m \in DOMAIN open'
        PROVE  /\ prog[i].kind = "else"  => open'[m] # prog[i].within[1]
               /\ prog[i].kind = "endif" => open'[m].id # prog[i].within[1].id
    BY <1>9, <2>5, <2>6
  <2>10. \A m \in DOMAIN open' : open'[m] # open[1]
    BY <1>7, <2>1, <2>5
  <2>11. Typed /\ Earlier
    BY <1>6, <2>5, <2>6, <2>7
  <2>12. Ordered
    <3> SUFFICES ASSUME NEW m \in DOMAIN open, NEW k \in DOMAIN open, m < k
                 PROVE  open'[k].id < open'[m].id
      BY <2>5
    <3> QED
      BY <1>6, <2>6
  <2>13. Around
    <3> SUFFICES ASSUME NEW m \in DOMAIN open
                 PROVE  /\ prog'[open'[m].id].kind = "if"
                        /\ Range(prog'[open'[m].id].within) \subseteq Range(open')
      BY <2>5
    <3>1. prog'[open'[m].id] = prog[open[m].id]
      BY <2>6, <2>7
    <3>2. prog[open[m].id].kind = "if"
      BY <1>6
    <3> QED
      BY <2>8, <3>1, <3>2
  <2>14. LeftBefore
    BY <2>9
  <2>15. LeftNow
    BY <1>12, <2>10
  <2> QED
    BY <2>11, <2>12, <2>13, <2>14, <2>15
<1>13. ASSUME s.kind = "endif"
      PROVE  Typed /\ Earlier /\ Ordered /\ Around /\ LeftBefore /\ LeftNow
  <2>1. /\ open # <<>> /\ 1 \in DOMAIN open
    BY <1>3, <1>13 DEF Legal
  <2>2. open' = Tail(open)
    BY <1>13, SMT DEF After
  <2>3. /\ open' \in Seq(Branch) /\ Len(open') <= Len(open)
        /\ \A m \in DOMAIN open' : m \in Nat /\ m + 1 \in DOMAIN open /\ open'[m] = open[m + 1]
        /\ \A m \in DOMAIN open : m # 1 => m - 1 \in DOMAIN open' /\ open'[m - 1] = open[m]
    <3>1. /\ open' \in Seq(Branch) /\ Len(open') = Len(open) - 1
          /\ \A m \in 1 .. Len(open) - 1 : open'[m] = open[m + 1]
      <4>1. open \in Seq(Branch)
        BY <1>1
      <4> QED
        BY <2>1, <2>2, <4>1, TailShifts
    <3>2. DOMAIN open' = 1 .. Len(open) - 1
      BY <3>1, SMT
    <3>3. \A m \in 1 .. Len(open) : m # 1 => m - 1 \in 1 .. Len(open) - 1 /\ (m - 1) + 1 = m
      BY <1>3, SMT
    <3>4. \A m \in 1 .. Len(open) - 1 : m \in Nat /\ m + 1 \in 1 .. Len(open)
      BY <1>3, SMT
    <3>5. Len(open') <= Len(open)
      BY <1>3, <3>1, SMT
    <3> QED
      BY <1>3, <3>1, <3>2, <3>3, <3>4, <3>5
  <2>4. \A m \in DOMAIN open : open[m].id <= n + 1 /\ prog'[open[m].id] = prog[open[m].id]
    BY <1>7
  <2>5. ASSUME NEW m \in DOMAIN open
        PROVE  Range(prog[open[m].id].within) \subseteq Range(open')
    <3> SUFFICES ASSUME NEW b \in Range(prog[open[m].id].within) PROVE b \in Range(open')
      OBVIOUS
    <3>1. b \in Range(open) /\ b.id < open[m].id
      BY <1>8
    <3>2. b # open[1]
      <4>1. /\ open[m].id \in Nat /\ open[1].id \in Nat
            /\ m = 1 \/ open[m].id < open[1].id
        BY <1>7, <2>1
      <4> QED
        BY <3>1, <4>1, SMT
    <3>3. PICK k \in DOMAIN open : b = open[k]
      BY <3>1 DEF Range
    <3> QED
      BY <2>3, <3>2, <3>3 DEF Range
  <2>6. Len(open') <= MaxDepth
    BY <1>3, <1>6, <2>3, BoundsAssumption, SMT
  <2>7. ASSUME NEW m \in DOMAIN open', NEW k \in DOMAIN open', m < k
        PROVE  open'[k].id < open'[m].id
    <3>1. m + 1 \in DOMAIN open /\ k + 1 \in DOMAIN open /\ m \in Nat /\ k \in Nat
      BY <2>3
    <3>2. m + 1 < k + 1
      BY <2>7, <3>1, SMT
    <3> QED
      BY <1>6, <2>3, <3>1, <3>2
  <2>8. ASSUME NEW m \in DOMAIN open' PROVE open'[m].id # open[1].id
    <3>1. m + 1 \in DOMAIN open /\ open'[m] = open[m + 1] /\ 1 < m + 1
      BY <1>3, <2>3, SMT
    <3>2. open[m + 1].id < open[1].id /\ open[m + 1].id \in Nat /\ open[1].id \in Nat
      BY <1>3, <1>6, <2>1, <3>1 DEF Branch
    <3> QED
      BY <3>1, <3>2, SMT
  <2>9. Typed /\ Earlier
    <3>1. ASSUME NEW m \in DOMAIN open' PROVE open'[m].id <= n + 1
      <4>1. m + 1 \in DOMAIN open /\ open'[m] = open[m + 1]
        BY <2>3
      <4> QED
        BY <2>4, <4>1
    <3> QED
      BY <2>3, <2>6, <3>1
  <2>10. Ordered
    BY <2>7
  <2>11. Around
    <3> SUFFICES ASSUME NEW m \in DOMAIN open'
                 PROVE  /\ prog'[open'[m].id].kind = "if"
                        /\ Range(prog'[open'[m].id].within) \subseteq Range(open')
      OBVIOUS
    <3>1. m + 1 \in DOMAIN open /\ open'[m] = open[m + 1]
      BY <2>3
    <3>2. prog'[open'[m].id] = prog[open[m + 1].id]
      BY <2>4, <3>1
    <3>3. prog[open[m + 1].id].kind = "if"
      BY <1>6, <3>1
    <3>4. Range(prog[open[m + 1].id].within) \subseteq Range(open')
      BY <2>5, <3>1
    <3> QED
      BY <3>2, <3>3, <3>4
  <2>12. LeftBefore
    <3> SUFFICES ASSUME NEW i \in 1 .. n, NEW m \in DOMAIN open'
                 PROVE  /\ prog[i].kind = "else"  => open'[m] # prog[i].within[1]
                        /\ prog[i].kind = "endif" => open'[m].id # prog[i].within[1].id
      OBVIOUS
    <3>1. m + 1 \in DOMAIN open /\ open'[m] = open[m + 1]
      BY <2>3
    <3> QED
      BY <1>9, <3>1
  <2>13. LeftNow
    BY <1>13, <2>8
  <2> QED
    BY <2>9, <2>10, <2>11, <2>12, <2>13
<1>14. Typed /\ Earlier /\ Ordered /\ Around /\ LeftBefore /\ LeftNow
  <2> HIDE DEF Typed, Earlier, Ordered, Around, LeftBefore, LeftNow
  <2> QED
    BY <1>3, <1>10, <1>11, <1>12, <1>13
<1>15. ASSUME NEW i \in 1 .. n + 1 PROVE Nested(i)'
  <2>1. Nested(i) /\ At(i)' = At(i) /\ At(i) \in Seq(Branch)
    <3>1. Nested(i) /\ At(i)' = At(i)
      BY <1>2, <1>4
    <3>2. CASE i = n + 1
      BY <1>1, <1>2, <3>1, <3>2
    <3>3. CASE i # n + 1
      <4>1. i \in 1 .. n /\ At(i) = prog[i].within
        BY <1>1, <3>3, SMT DEF At
      <4>2. prog[i] \in Stmt
        BY <1>1, <4>1
      <4> QED
        BY <3>1, <4>1, <4>2 DEF Stmt
    <3> QED
      BY <3>2, <3>3
  <2>2. \A m \in DOMAIN At(i) : prog'[At(i)[m].id] = prog[At(i)[m].id]
    <3> SUFFICES ASSUME NEW m \in DOMAIN At(i) PROVE At(i)[m].id \in 1 .. n
      BY <1>1
    <3>1. At(i)[m] \in Branch /\ At(i)[m].id < i
      BY <2>1 DEF Nested
    <3>2. At(i)[m].id \in Nat \ {0}
      BY <3>1 DEF Branch
    <3> QED
      BY <1>1, <3>1, <3>2, SMT
  <2> QED
    BY <2>1, <2>2 DEF Nested
<1>16. Nested(n + 2)'
  <2>1. \A m \in DOMAIN open' : open'[m].id < n + 2
    <3> SUFFICES ASSUME NEW m \in DOMAIN open' PROVE open'[m].id < n + 2
      OBVIOUS
    <3>1. open'[m] \in Branch /\ open'[m].id <= n + 1
      BY <1>14
    <3>2. open'[m].id \in Nat
      BY <3>1 DEF Branch
    <3> QED
      BY <1>1, <3>1, <3>2, SMT
  <2> QED
    BY <1>2, <1>14, <2>1 DEF Nested
<1>17. ASSUME NEW i \in 1 .. n + 1 PROVE Left(i)'
  <2>1. ASSUME NEW k \in i + 1 .. n + 1, i \in 1 .. n, NEW m \in DOMAIN At(k)'
        PROVE  /\ prog[i].kind = "else"  => At(k)'[m] # At(i)[1]
               /\ prog[i].kind = "endif" => At(k)'[m].id # At(i)[1].id
    <3>1. At(k)' = At(k)
      BY <1>1, <1>2, <2>1, SMT
    <3> QED
      BY <1>1, <1>4, <2>1, <3>1 DEF Left
  <2>2. ASSUME NEW m \in DOMAIN open', i \in 1 .. n
        PROVE  /\ prog[i].kind = "else"  => open'[m] # At(i)[1]
               /\ prog[i].kind = "endif" => open'[m].id # At(i)[1].id
    <3>1. At(i) = prog[i].within
      BY <1>1, <2>2, SMT DEF At
    <3> QED
      BY <1>14, <2>2, <3>1
  <2>3. i \in 1 .. n => prog'[i] = prog[i]
    BY <1>1
  <2>4. At(i)' = At(i) /\ Len(prog') + 1 = n + 2 /\ At(n + 2)' = open'
    BY <1>1, <1>2
  <2>5. CASE i \in 1 .. n
    <3> SUFFICES ASSUME NEW k \in i + 1 .. n + 2, NEW m \in DOMAIN At(k)'
                 PROVE  /\ prog[i].kind = "else"  => At(k)'[m] # At(i)[1]
                        /\ prog[i].kind = "endif" => At(k)'[m].id # At(i)[1].id
      BY <2>3, <2>4, <2>5 DEF Left
    <3>1. k \in i + 1 .. n + 1 \/ k = n + 2
      BY <1>1, SMT
    <3> QED
      BY <2>1, <2>2, <2>4, <2>5, <3>1
  <2>6. CASE i = n + 1
    <3> SUFFICES ASSUME NEW k \in i + 1 .. n + 2, NEW m \in DOMAIN At(k)'
                 PROVE  /\ s.kind = "else"  => At(k)'[m] # At(i)[1]
                        /\ s.kind = "endif" => At(k)'[m].id # At(i)[1].id
      BY <1>1, <2>4, <2>6 DEF Left
    <3>1. k = n + 2 /\ At(i) = open
      BY <1>1, <1>2, <2>6, SMT
    <3> QED
      BY <1>14, <2>4, <3>1
  <2> QED
    BY <1>1, <2>5, <2>6, SMT
<1>18. ASSUME NEW i \in 1 .. n + 1
       PROVE  At(i + 1)' = After(prog'[i], i) /\ Legal(prog'[i])
  <2>1. CASE i \in 1 .. n
    <3>1. i + 1 \in 1 .. n + 1 /\ prog'[i] = prog[i]
      BY <1>1, <2>1, SMT
    <3> QED
      BY <1>2, <1>4, <2>1, <3>1
  <2>2. CASE i = n + 1
    <3>1. i + 1 = n + 2 /\ prog'[i] = s
      BY <1>1, <2>2, SMT
    <3>2. At(i + 1)' = open' /\ open' = After(s, n + 1)
      BY <1>1, <1>2, <3>1
    <3> QED
      BY <2>2, <3>1, <3>2
  <2> QED
    BY <1>1, <2>1, <2>2, SMT
<1>19. At(1)' = <<>>
  BY <1>1, <1>2, SMT DEF Written
<1>20. pc' = 1 /\ pc' \in 1 .. Len(prog') + 1
  BY <1>1, SMT DEF Written
<1>21. \A i \in 1 .. Len(prog') : At(i + 1)' = After(prog'[i], i) /\ Legal(prog'[i]) /\ Left(i)'
  BY <1>1, <1>17, <1>18
<1>22. \A i \in 1 .. Len(prog') + 1 : Nested(i)'
  <2>1. Len(prog') + 1 = n + 2
    BY <1>1
  <2>2. \A i \in 1 .. n + 2 : i \in 1 .. n + 1 \/ i = n + 2
    BY <1>1, SMT
  <2> QED
    BY <1>15, <1>16, <2>1, <2>2
<1>23. words' \in Vocabularies /\ prog' \in Seq(Stmt)' /\ open' \in Seq(Branch)
  <2>1. Stmt' = Stmt
    BY DEF Stmt
  <2> QED
    BY <1>1, <1>14, <2>1 DEF Written
<1> QED
  BY <1>19, <1>20, <1>21, <1>22, <1>23 DEF Written

LEMMA WrittenSame ==
  ASSUME Written, UNCHANGED <<words, prog, open>>,
         phase' \in {"write", "plot", "run", "raised"}, pc' \in 1 .. Len(prog) + 1,
         phase' = "write" => pc' = 1,
         phase' # "write" => open = <<>>,
         phase' = "run" => pc' = Len(prog) + 1
  PROVE  Written'
<1>1. Stmt' = Stmt
  BY DEF Stmt
<1>2. \A i : At(i)' = At(i)
  BY DEF At
<1>3. \A i : (Left(i)' <=> Left(i)) /\ (Nested(i)' <=> Nested(i))
  BY <1>2 DEF Left, Nested
<1> QED
  BY <1>1, <1>2, <1>3 DEF Written

(* Every step keeps the function well formed.                              *)
LEMMA WrittenStep ==
  ASSUME Written, [Next]_vars
  PROVE  Written'
<1>1. /\ prog \in Seq(Stmt) /\ Len(prog) \in Nat /\ open \in Seq(Branch)
      /\ words \in Vocabularies /\ pc \in 1 .. Len(prog) + 1
      /\ phase \in {"write", "plot", "run", "raised"}
      /\ phase = "write" => pc = 1
      /\ phase # "write" => open = <<>>
      /\ phase = "run" => pc = Len(prog) + 1
  BY DEF Written
<1>2. ASSUME NEW a \in words.vars, NEW expr \in words.exprs, WriteAssign(a, expr)
      PROVE  Written'
  <2>1. PICK s : s = [kind |-> "assign", attr |-> a, expr |-> expr, within |-> open]
    OBVIOUS
  <2>2. s \in Stmt /\ s.within = open /\ Legal(s) /\ s.kind = "assign"
    BY <1>1, <2>1 DEF Stmt, Legal
  <2>3. phase = "write" /\ UNCHANGED <<phase, words, pc, open>> /\ prog' = Append(prog, s)
    BY <1>2, <2>1 DEF WriteAssign, Write
  <2>4. open' = After(s, Len(prog) + 1)
    BY <2>2, <2>3, SMT DEF After
  <2> QED
    BY <2>2, <2>3, <2>4, WriteKeepsWritten
<1>3. ASSUME NEW a \in words.vars, NEW v \in TestVals, WriteIf(a, v)
      PROVE  Written'
  <2>1. PICK s : s = [kind |-> "if", attr |-> a, val |-> v, within |-> open]
    OBVIOUS
  <2>2. s \in Stmt /\ s.within = open /\ Legal(s) /\ s.kind = "if"
    BY <1>1, <2>1 DEF Stmt, Legal
  <2>3. /\ phase = "write" /\ UNCHANGED <<phase, words, pc>> /\ prog' = Append(prog, s)
        /\ Len(open) < MaxDepth
        /\ open' = <<[id |-> Len(prog) + 1, branch |-> "if"]>> \o open
    BY <1>3, <2>1 DEF WriteIf, Write
  <2>4. open' = After(s, Len(prog) + 1)
    BY <2>2, <2>3, SMT DEF After
  <2> QED
    BY <2>2, <2>3, <2>4, WriteKeepsWritten
<1>4. CASE WriteElse
  <2>1. PICK s : s = [kind |-> "else", within |-> open]
    OBVIOUS
  <2>2. /\ phase = "write" /\ UNCHANGED <<phase, words, pc>> /\ prog' = Append(prog, s)
        /\ open # <<>> /\ open[1].branch = "if"
        /\ open' = [open EXCEPT ![1].branch = "else"]
    BY <1>1, <1>4, <2>1 DEF WriteElse, Write
  <2>3. s \in Stmt /\ s.within = open /\ Legal(s) /\ s.kind = "else"
    BY <1>1, <2>1, <2>2 DEF Stmt, Legal
  <2>4. open' = After(s, Len(prog) + 1)
    BY <2>2, <2>3, SMT DEF After
  <2> QED
    BY <2>2, <2>3, <2>4, WriteKeepsWritten
<1>5. CASE WriteEndIf
  <2>1. PICK s : s = [kind |-> "endif", within |-> open]
    OBVIOUS
  <2>2. /\ phase = "write" /\ UNCHANGED <<phase, words, pc>> /\ prog' = Append(prog, s)
        /\ open # <<>> /\ open[1].branch = "else"
        /\ open' = Tail(open)
    BY <1>1, <1>5, <2>1 DEF WriteEndIf, Write
  <2>3. s \in Stmt /\ s.within = open /\ Legal(s) /\ s.kind = "endif"
    BY <1>1, <2>1, <2>2 DEF Stmt, Legal
  <2>4. open' = After(s, Len(prog) + 1)
    BY <2>2, <2>3, SMT DEF After
  <2> QED
    BY <2>2, <2>3, <2>4, WriteKeepsWritten
<1>6. CASE Compile
  BY <1>1, <1>6, WrittenSame DEF Compile
<1>7. ASSUME NEW kind, Plot(kind) PROVE Written'
  <2>1. /\ phase = "plot" /\ UNCHANGED <<phase, words, prog, open>>
        /\ pc <= Len(prog) /\ pc' = pc + 1
    BY <1>7 DEF Plot
  <2>2. pc' \in 1 .. Len(prog) + 1
    BY <1>1, <2>1, SMT
  <2> QED
    BY <1>1, <2>1, <2>2, WrittenSame
<1>8. CASE PlotAssign \/ PlotIf \/ PlotElse \/ PlotEndIf
  BY <1>7, <1>8 DEF PlotAssign, PlotIf, PlotElse, PlotEndIf
<1>9. CASE PlotRaises
  BY <1>1, <1>9, WrittenSame DEF PlotRaises
<1>10. CASE Graph
  <2>1. phase = "plot" /\ phase' = "run" /\ pc > Len(prog) /\ UNCHANGED <<words, prog, open, pc>>
    BY <1>10 DEF Graph
  <2>2. pc = Len(prog) + 1
    BY <1>1, <2>1, SMT
  <2> QED
    BY <1>1, <2>1, <2>2, WrittenSame
<1>11. CASE Mutate
  BY <1>1, <1>11, WrittenSame DEF Mutate
<1>12. CASE UNCHANGED vars
  BY <1>1, <1>12, WrittenSame DEF vars
<1> QED
  BY <1>2, <1>3, <1>4, <1>5, <1>6, <1>8, <1>9, <1>10, <1>11, <1>12 DEF Next

-----------------------------------------------------------------------------
(* What is recorded is well formed, and depends on inputs only.            *)
Clean(node, ins) ==
  /\ node.plain # NoAttr => node = Retrieve(node.plain)
  /\ \A b \in Attrs \ ins : Ignores(node, b)

CondIgnores(cond, b) ==
  \A s \in Snapshots, v \in Vals : s \in cond <=> [s EXCEPT ![b] = v] \in cond
CleanCond(cond, ins) == \A b \in Attrs \ ins : CondIgnores(cond, b)

Outputs == [defs : UNION {[D -> Node] : D \in SUBSET Vars}, order : Seq(Attrs)]

Sane(outs, ins) ==
  /\ outs \in Outputs
  /\ OutputsOK(outs)
  /\ \A a \in Recorded(outs) : Clean(outs.defs[a], ins)

Frame ==
  [cond : SUBSET Snapshots, args : SUBSET Range(words.base),
   outer : Outputs, then : Outputs, own : Seq(Vars), nested : Seq(Vars),
   holds : SUBSET Snapshots, live : SUBSET Snapshots,
   scope : SUBSET Locals, bound : SUBSET Locals]

SaneFrame(f, ins) ==
  /\ Sane(f.outer, ins) /\ Sane(f.then, ins)
  /\ CleanCond(f.cond, ins)
  /\ Once(f.own) /\ Once(f.nested)
  /\ f.holds \subseteq f.live

Identity == [s \in Snapshots |-> s]

Shape ==
  /\ source \in [Snapshots -> [Vars -> Vals]]
  /\ live \in SUBSET Snapshots
  /\ inputs \in SUBSET Attrs
  /\ Sane(outputs, inputs)
  /\ frames \in Seq(Frame)
  /\ \A i \in DOMAIN frames : SaneFrame(frames[i], inputs)
  /\ Len(frames) = Len(At(pc))
  /\ store \in [Snapshots -> Snapshots]
  /\ ran \in 0 .. Len(outputs.order)
  /\ phase # "run" => ran = 0 /\ store = Identity
  /\ ignored \in BOOLEAN /\ leaked \in BOOLEAN

-----------------------------------------------------------------------------
(* Nodes.                                                                  *)
LEMMA ChangedSnapshot ==
  ASSUME NEW s \in Snapshots, NEW b \in Attrs, NEW v \in Vals
  PROVE  /\ [s EXCEPT ![b] = v] \in Snapshots
         /\ [s EXCEPT ![b] = v][b] = v
         /\ \A a \in Attrs : a # b => [s EXCEPT ![b] = v][a] = s[a]
BY DEF Snapshots

LEMMA RetrieveClean ==
  ASSUME NEW ins, NEW a \in Attrs
  PROVE  /\ Retrieve(a) \in Node
         /\ a \in ins => Clean(Retrieve(a), ins)
<1>1. \A s \in Snapshots : s[a] \in Vals
  BY DEF Snapshots
<1>2. Retrieve(a) \in Node /\ Retrieve(a).plain = a
  BY <1>1 DEF Retrieve, Node
<1>3. ASSUME NEW b \in Attrs, b # a PROVE Ignores(Retrieve(a), b)
  <2> SUFFICES ASSUME NEW s \in Snapshots, NEW v \in Vals
               PROVE  Retrieve(a).value[[s EXCEPT ![b] = v]] = Retrieve(a).value[s]
    BY DEF Ignores
  <2>1. [s EXCEPT ![b] = v] \in Snapshots /\ [s EXCEPT ![b] = v][a] = s[a]
    BY <1>3, ChangedSnapshot
  <2>2. \A t \in Snapshots : Retrieve(a).value[t] = t[a]
    BY DEF Retrieve
  <2> QED
    BY <2>1, <2>2
<1> QED
  BY <1>2, <1>3 DEF Clean

LEMMA ConstClean ==
  ASSUME NEW ins, NEW v \in Vals
  PROVE  Const(v) \in Node /\ Clean(Const(v), ins)
<1>1. Const(v) \in Node /\ Const(v).plain = NoAttr
  BY DEF Const, Node
<1>2. ASSUME NEW b \in Attrs PROVE Ignores(Const(v), b)
  <2>1. \A t \in Snapshots : Const(v).value[t] = v
    BY DEF Const
  <2>2. \A s \in Snapshots, u \in Vals : [s EXCEPT ![b] = u] \in Snapshots
    BY ChangedSnapshot
  <2> QED
    BY <2>1, <2>2 DEF Ignores
<1> QED
  BY <1>1, <1>2 DEF Clean

LEMMA ZeroIsAValue == 0 \in Vals /\ \A v, u \in Vals : (v + u) % ValMod \in Vals
BY ValModAssumption, SMT DEF Vals

LEMMA AddClean ==
  ASSUME NEW ins, NEW v \in Vals, NEW node \in Node, Clean(node, ins)
  PROVE  Add(node, v) \in Node /\ Clean(Add(node, v), ins)
<1>1. \A s \in Snapshots : (node.value[s] + v) % ValMod \in Vals
  BY ZeroIsAValue DEF Node
<1>2. Add(node, v) \in Node /\ Add(node, v).plain = NoAttr
  BY <1>1 DEF Add, Node
<1>3. ASSUME NEW b \in Attrs \ ins PROVE Ignores(Add(node, v), b)
  <2>1. \A t \in Snapshots : Add(node, v).value[t] = (node.value[t] + v) % ValMod
    BY DEF Add
  <2>2. \A s \in Snapshots, u \in Vals :
          [s EXCEPT ![b] = u] \in Snapshots /\ node.value[[s EXCEPT ![b] = u]] = node.value[s]
    BY ChangedSnapshot DEF Clean, Ignores
  <2> QED
    BY <2>1, <2>2 DEF Ignores
<1> QED
  BY <1>2, <1>3 DEF Clean

LEMMA SwitchClean ==
  ASSUME NEW ins, NEW cond, NEW true \in Node, NEW false \in Node
  PROVE  /\ Switch(cond, true, false) \in Node
         /\ CleanCond(cond, ins) /\ Clean(true, ins) /\ Clean(false, ins)
              => Clean(Switch(cond, true, false), ins)
<1> DEFINE node == Switch(cond, true, false)
<1>1. node \in Node /\ node.plain = NoAttr
  BY DEF Switch, Node
<1>2. ASSUME CleanCond(cond, ins), Clean(true, ins), Clean(false, ins), NEW b \in Attrs \ ins
      PROVE  Ignores(node, b)
  <2>1. \A t \in Snapshots :
          node.value[t] = IF t \in cond THEN true.value[t] ELSE false.value[t]
    BY DEF Switch
  <2>2. \A s \in Snapshots, u \in Vals :
          /\ [s EXCEPT ![b] = u] \in Snapshots
          /\ true.value[[s EXCEPT ![b] = u]] = true.value[s]
          /\ false.value[[s EXCEPT ![b] = u]] = false.value[s]
          /\ [s EXCEPT ![b] = u] \in cond <=> s \in cond
    <3> SUFFICES ASSUME NEW s \in Snapshots, NEW u \in Vals
                 PROVE  /\ [s EXCEPT ![b] = u] \in Snapshots
                        /\ true.value[[s EXCEPT ![b] = u]] = true.value[s]
                        /\ false.value[[s EXCEPT ![b] = u]] = false.value[s]
                        /\ [s EXCEPT ![b] = u] \in cond <=> s \in cond
      OBVIOUS
    <3>1. [s EXCEPT ![b] = u] \in Snapshots
      BY ChangedSnapshot
    <3> QED
      BY <1>2, <3>1 DEF Clean, CleanCond, CondIgnores, Ignores
  <2> HIDE DEF node
  <2> QED
    BY <2>1, <2>2 DEF Ignores
<1> HIDE DEF node
<1> QED
  BY <1>1, <1>2 DEF Clean, node

LEMMA CondClean ==
  ASSUME NEW ins, NEW v, NEW node, Clean(node, ins)
  PROVE  CleanCond({s \in Snapshots : node.value[s] = v}, ins)
<1> DEFINE cond == {s \in Snapshots : node.value[s] = v}
<1>1. ASSUME NEW b \in Attrs \ ins, NEW s \in Snapshots, NEW u \in Vals
      PROVE  s \in cond <=> [s EXCEPT ![b] = u] \in cond
  <2>1. [s EXCEPT ![b] = u] \in Snapshots
    BY ChangedSnapshot
  <2>2. node.value[[s EXCEPT ![b] = u]] = node.value[s]
    BY DEF Clean, Ignores
  <2> QED
    BY <2>1, <2>2
<1> HIDE DEF cond
<1>2. CleanCond(cond, ins)
  BY <1>1, Zenon DEF CleanCond, CondIgnores
<1> QED
  BY <1>2 DEF cond

-----------------------------------------------------------------------------
(* Outputs.                                                                *)
LEMMA SeqOver ==
  ASSUME NEW T, NEW U, NEW s \in Seq(T), Range(s) \subseteq U
  PROVE  s \in Seq(U)
<1>1. Len(s) \in Nat /\ s = [i \in 1 .. Len(s) |-> s[i]] /\ DOMAIN s = 1 .. Len(s)
  BY SMT
<1>2. \A i \in 1 .. Len(s) : s[i] \in U
  BY <1>1 DEF Range
<1> QED
  BY <1>1, <1>2, SMT

LEMMA SaneRecord ==
  ASSUME NEW ins, NEW D \in SUBSET Vars, Locals \subseteq D, NEW defs \in [D -> Node],
         \A a \in D : Clean(defs[a], ins),
         NEW order \in Seq(Vars), Once(order), Range(order) = D \ Locals
  PROVE  Sane([defs |-> defs, order |-> order], ins)
<1> DEFINE outs == [defs |-> defs, order |-> order]
<1>1. D \ Locals \subseteq Attrs
  BY DEF Vars
<1>2. order \in Seq(Attrs)
  BY <1>1, SeqOver
<1>3. outs \in Outputs /\ outs.defs = defs /\ outs.order = order
  BY <1>2 DEF Outputs
<1>4. Recorded(outs) = D
  BY <1>3 DEF Recorded
<1> HIDE DEF outs
<1> QED
  BY <1>3, <1>4 DEF Sane, OutputsOK, Once, outs

LEMMA SaneParts ==
  ASSUME NEW ins, NEW outs, Sane(outs, ins)
  PROVE  /\ Recorded(outs) \in SUBSET Vars /\ Locals \subseteq Recorded(outs)
         /\ outs.defs \in [Recorded(outs) -> Node]
         /\ \A a \in Recorded(outs) : Clean(outs.defs[a], ins) /\ outs.defs[a] \in Node
         /\ outs.order \in Seq(Attrs) /\ outs.order \in Seq(Vars)
         /\ Once(outs.order) /\ Range(outs.order) = Recorded(outs) \ Locals
<1>1. outs.order \in Seq(Attrs)
  BY DEF Sane, Outputs
<1>2. Range(outs.order) \subseteq Vars
  BY DEF Sane, OutputsOK
<1>3. outs.order \in Seq(Vars)
  BY <1>1, <1>2, SeqOver
<1> QED
  BY <1>1, <1>3 DEF Sane, OutputsOK, Once

(* What is read is clean once it is recorded as an input.                  *)
LEMMA GetAttrClean ==
  ASSUME NEW ins, NEW outs, Sane(outs, ins), NEW a \in Vars
  PROVE  /\ GetAttr(outs, a) \in Node
         /\ a \in Recorded(outs) \cup ins => Clean(GetAttr(outs, a), ins)
<1>1. CASE a \in Recorded(outs)
  BY <1>1, SaneParts DEF GetAttr
<1>2. CASE a \notin Recorded(outs)
  <2>1. a \in Attrs
    BY <1>2, SaneParts DEF Vars
  <2> QED
    BY <1>2, <2>1, RetrieveClean DEF GetAttr
<1> QED
  BY <1>1, <1>2

LEMMA CleanMore ==
  ASSUME NEW ins, NEW more, ins \subseteq more
  PROVE  /\ \A node : Clean(node, ins) => Clean(node, more)
         /\ \A cond : CleanCond(cond, ins) => CleanCond(cond, more)
         /\ \A outs : Sane(outs, ins) => Sane(outs, more)
         /\ \A f : SaneFrame(f, ins) => SaneFrame(f, more)
<1>1. \A node : Clean(node, ins) => Clean(node, more)
  BY DEF Clean
<1>2. \A cond : CleanCond(cond, ins) => CleanCond(cond, more)
  BY DEF CleanCond
<1>3. \A outs : Sane(outs, ins) => Sane(outs, more)
  BY <1>1 DEF Sane
<1> QED
  BY <1>1, <1>2, <1>3 DEF SaneFrame

LEMMA SetAllSane ==
  ASSUME NEW ins, NEW outs, Sane(outs, ins), NEW attrs \in Seq(Vars), Once(attrs), NEW node,
         \A a \in Range(attrs) : node[a] \in Node /\ Clean(node[a], ins)
  PROVE  Sane(SetAll(outs, attrs, node), ins)
<1> DEFINE D == Recorded(outs) \cup Range(attrs)
           defs == [a \in D |-> IF a \in Range(attrs) THEN node[a] ELSE outs.defs[a]]
           before == Without(outs.order, Range(attrs))
           after == Without(attrs, Locals)
<1>1. Range(attrs) \subseteq Vars
  BY SMT DEF Range
<1>2. /\ before \in Seq(Vars) /\ Once(before)
      /\ Range(before) = (Recorded(outs) \ Locals) \ Range(attrs)
  BY SaneParts, WithoutKeeps
<1>3. after \in Seq(Vars) /\ Once(after) /\ Range(after) = Range(attrs) \ Locals
  BY WithoutKeeps
<1>4. D \in SUBSET Vars /\ Locals \subseteq D
  BY <1>1, SaneParts
<1>5. defs \in [D -> Node] /\ \A a \in D : Clean(defs[a], ins)
  BY SaneParts
<1> HIDE DEF before, after
<1>6. before \o after \in Seq(Vars) /\ Once(before \o after)
      /\ Range(before \o after) = D \ Locals
  <2>1. Range(before) \cap Range(after) = {}
    BY <1>2, <1>3
  <2>2. Range(before \o after) = Range(before) \cup Range(after)
    BY <1>2, <1>3, ConcatOnce
  <2> QED
    BY <1>2, <1>3, <2>1, <2>2, ConcatOnce
<1>7. SetAll(outs, attrs, node) = [defs |-> defs, order |-> before \o after]
  BY DEF SetAll, before, after
<1> DEFINE order == before \o after
<1>8. order \in Seq(Vars) /\ Once(order) /\ Range(order) = D \ Locals
  BY <1>6
<1> HIDE DEF D, defs, order
<1>9. Sane([defs |-> defs, order |-> order], ins)
  BY <1>4, <1>5, <1>8, SaneRecord
<1> QED
  BY <1>7, <1>9 DEF order

LEMMA SetAttrSane ==
  ASSUME NEW ins, NEW outs, Sane(outs, ins), NEW a \in Vars, NEW node \in Node, Clean(node, ins)
  PROVE  Sane(SetAttr(outs, a, node), ins)
<1> DEFINE attrs == <<a>>
           nodes == [b \in {a} |-> node]
<1>1. attrs \in Seq(Vars) /\ Once(attrs) /\ Range(attrs) = {a}
  BY SMT DEF Once, Range
<1>2. nodes[a] = node
  OBVIOUS
<1> HIDE DEF attrs, nodes
<1>3. Sane(SetAll(outs, attrs, nodes), ins)
  BY <1>1, <1>2, SetAllSane
<1> QED
  BY <1>3 DEF SetAttr, attrs, nodes

LEMMA OutsideSane ==
  ASSUME NEW ins, Sane(outputs, ins), NEW f, Sane(f.outer, ins)
  PROVE  Sane(Outside(f), ins)
<1> DEFINE kept == Locals \cup {a \in Attrs : words.base[a] \in f.args}
           seen == (Recorded(f.outer) \cap kept) \cup (Recorded(outputs) \ kept)
           defs == [a \in seen |-> IF a \in kept THEN f.outer.defs[a] ELSE outputs.defs[a]]
           before == Without(f.outer.order, Attrs \ seen)
           after == Without(outputs.order, (Attrs \ seen) \cup Recorded(f.outer))
<1>1. /\ Recorded(f.outer) \in SUBSET Vars /\ Locals \subseteq Recorded(f.outer)
      /\ Recorded(outputs) \in SUBSET Vars /\ Locals \subseteq Recorded(outputs)
  BY SaneParts
<1>2. seen \in SUBSET Vars /\ Locals \subseteq seen
  BY <1>1
<1>3. \A a \in seen : defs[a] \in Node /\ Clean(defs[a], ins)
  BY SaneParts
<1>4. defs \in [seen -> Node]
  BY <1>3
<1>5. /\ before \in Seq(Vars) /\ Once(before)
      /\ Range(before) = (Recorded(f.outer) \ Locals) \ (Attrs \ seen)
  BY SaneParts, WithoutKeeps
<1>6. /\ after \in Seq(Vars) /\ Once(after)
      /\ Range(after) = (Recorded(outputs) \ Locals) \ ((Attrs \ seen) \cup Recorded(f.outer))
  BY SaneParts, WithoutKeeps
<1>7. Outside(f) = [defs |-> defs, order |-> before \o after]
  BY DEF Outside
<1> HIDE DEF before, after
<1> DEFINE order == before \o after
<1>8. order \in Seq(Vars) /\ Once(order) /\ Range(order) = Range(before) \cup Range(after)
  <2>1. Range(before) \cap Range(after) = {}
    BY <1>5, <1>6
  <2> QED
    BY <1>5, <1>6, <2>1, ConcatOnce
<1>9. Range(order) = seen \ Locals
  <2>1. Range(before) \cup Range(after) = seen \ Locals
    BY <1>1, <1>5, <1>6 DEF Vars
  <2> QED
    BY <1>8, <2>1
<1> HIDE DEF seen, defs, order
<1>10. Sane([defs |-> defs, order |-> order], ins)
  BY <1>2, <1>3, <1>4, <1>8, <1>9, SaneRecord
<1> QED
  BY <1>7, <1>10 DEF order

LEMMA ExprReads ==
  ASSUME NEW expr \in Expr
  PROVE  /\ ReadBy(expr) \subseteq Vars
         /\ \/ expr.op = "const" /\ expr.val \in Vals
            \/ expr.op = "var" /\ expr.from \in Vars /\ ReadBy(expr) = {expr.from}
            \/ expr.op = "add" /\ expr.from \in Vars /\ expr.val \in Vals
                 /\ ReadBy(expr) = {expr.from}
            \/ expr.op = "ternary" /\ expr.test \in Vars /\ expr.val \in Vals
                 /\ expr.from \in Vars /\ expr.other \in Vars
                 /\ ReadBy(expr) = {expr.test, expr.from, expr.other}
BY SMT DEF Expr, ReadBy

LEMMA HoldsClean ==
  ASSUME NEW ins, Sane(outputs, ins), NEW a \in Vars, NEW v
  PROVE  /\ Holds(a, v) \in SUBSET Snapshots
         /\ a \in Recorded(outputs) \cup ins => CleanCond(Holds(a, v), ins)
<1>1. a \in Recorded(outputs) \cup ins => Clean(GetAttr(outputs, a), ins)
  BY GetAttrClean
<1> QED
  BY <1>1, CondClean DEF Holds

LEMMA NodeOfClean ==
  ASSUME NEW ins, Sane(outputs, ins), NEW expr \in Expr,
         ReadBy(expr) \subseteq Recorded(outputs) \cup ins
  PROVE  NodeOf(expr) \in Node /\ Clean(NodeOf(expr), ins)
<1>1. CASE expr.op = "const" /\ expr.val \in Vals
  <2>1. NodeOf(expr) = Const(expr.val)
    BY <1>1, SMT DEF NodeOf
  <2> QED
    BY <1>1, <2>1, ConstClean
<1>2. CASE expr.op = "var" /\ expr.from \in Vars /\ ReadBy(expr) = {expr.from}
  <2>1. NodeOf(expr) = GetAttr(outputs, expr.from)
    BY <1>2, SMT DEF NodeOf
  <2> QED
    BY <1>2, <2>1, GetAttrClean
<1>3. CASE expr.op = "add" /\ expr.from \in Vars /\ expr.val \in Vals
             /\ ReadBy(expr) = {expr.from}
  <2>1. NodeOf(expr) = Add(GetAttr(outputs, expr.from), expr.val)
    BY <1>3, SMT DEF NodeOf
  <2>2. GetAttr(outputs, expr.from) \in Node /\ Clean(GetAttr(outputs, expr.from), ins)
    BY <1>3, GetAttrClean
  <2> QED
    BY <1>3, <2>1, <2>2, AddClean
<1>4. CASE expr.op = "ternary" /\ expr.test \in Vars /\ expr.val \in Vals
             /\ expr.from \in Vars /\ expr.other \in Vars
             /\ ReadBy(expr) = {expr.test, expr.from, expr.other}
  <2>1. NodeOf(expr) = Switch(Holds(expr.test, expr.val),
                              GetAttr(outputs, expr.from), GetAttr(outputs, expr.other))
    BY <1>4, SMT DEF NodeOf
  <2>2. /\ GetAttr(outputs, expr.from) \in Node /\ Clean(GetAttr(outputs, expr.from), ins)
        /\ GetAttr(outputs, expr.other) \in Node /\ Clean(GetAttr(outputs, expr.other), ins)
    BY <1>4, GetAttrClean
  <2>3. CleanCond(Holds(expr.test, expr.val), ins)
    BY <1>4, HoldsClean
  <2> QED
    BY <2>1, <2>2, <2>3, SwitchClean
<1> QED
  BY <1>1, <1>2, <1>3, <1>4, ExprReads

-----------------------------------------------------------------------------
(* What a step of the plotter does.                                        *)
LEMMA PlotStep ==
  ASSUME Written, NEW kind, Plot(kind)
  PROVE  /\ phase = "plot" /\ UNCHANGED <<phase, words, prog, open, store, ran>>
         /\ pc \in 1 .. Len(prog) /\ pc' = pc + 1 /\ ~Raises
         /\ stmt \in Stmt /\ stmt.kind = kind /\ Legal(stmt)
         /\ At(pc) = stmt.within /\ At(pc) \in Seq(Branch) /\ Nested(pc)
         /\ At(pc)' = After(stmt, pc)
<1>1. /\ phase = "plot" /\ UNCHANGED <<phase, words, prog, open, store, ran>>
      /\ pc <= Len(prog) /\ pc' = pc + 1 /\ ~Raises /\ stmt.kind = kind
  BY DEF Plot, engine
<1>2. prog \in Seq(Stmt) /\ Len(prog) \in Nat /\ pc \in 1 .. Len(prog) + 1
  BY DEF Written
<1>3. pc \in 1 .. Len(prog)
  BY <1>1, <1>2, SMT
<1>4. stmt \in Stmt
  BY <1>2, <1>3 DEF stmt
<1>5. At(pc) = stmt.within
  BY <1>1 DEF At, stmt
<1>6. Legal(stmt) /\ Nested(pc) /\ At(pc + 1) = After(stmt, pc)
  BY <1>2, <1>3 DEF Written, stmt
<1>7. At(pc)' = At(pc + 1)
  BY <1>1 DEF At
<1>8. At(pc) \in Seq(Branch)
  BY <1>4, <1>5 DEF Stmt
<1> QED
  BY <1>1, <1>3, <1>4, <1>5, <1>6, <1>7, <1>8

LEMMA StmtParts ==
  ASSUME Written, NEW s \in Stmt
  PROVE  /\ s.kind \in {"assign", "if", "else", "endif"}
         /\ s.kind = "assign" => s.attr \in Vars /\ s.expr \in Expr /\ Reads(s) = ReadBy(s.expr)
         /\ s.kind = "if" => s.attr \in Vars /\ s.val \in Vals /\ Reads(s) = {s.attr}
         /\ Reads(s) \in SUBSET Vars
<1>1. words.vars \subseteq Vars /\ words.exprs \subseteq Expr
  BY VocabulariesAssumption DEF Written
<1>2. /\ s.kind \in {"assign", "if", "else", "endif"}
      /\ s.kind = "assign" => s.attr \in Vars /\ s.expr \in Expr
      /\ s.kind = "if" => s.attr \in Vars /\ s.val \in Vals
  BY <1>1, TestValsAssumption DEF Stmt
<1>3. /\ s.kind = "assign" => Reads(s) = ReadBy(s.expr)
      /\ s.kind = "if" => Reads(s) = {s.attr}
      /\ s.kind \in {"else", "endif"} => Reads(s) = {}
  BY SMT DEF Reads
<1> QED
  BY <1>2, <1>3, ExprReads

LEMMA ValueOfTyped ==
  ASSUME NEW expr \in Expr, NEW vals \in [Vars -> Vals]
  PROVE  ValueOf(expr, vals) \in Vals
<1>1. CASE expr.op = "const" /\ expr.val \in Vals
  BY <1>1, SMT DEF ValueOf
<1>2. CASE expr.op = "var" /\ expr.from \in Vars
  BY <1>2, SMT DEF ValueOf
<1>3. CASE expr.op = "add" /\ expr.from \in Vars /\ expr.val \in Vals
  <2>1. ValueOf(expr, vals) = (vals[expr.from] + expr.val) % ValMod
    BY <1>3, SMT DEF ValueOf
  <2> QED
    BY <1>3, <2>1, ZeroIsAValue
<1>4. CASE expr.op = "ternary" /\ expr.from \in Vars /\ expr.other \in Vars
  <2>1. ValueOf(expr, vals) = vals[expr.from] \/ ValueOf(expr, vals) = vals[expr.other]
    BY <1>4, SMT DEF ValueOf
  <2> QED
    BY <1>4, <2>1
<1> QED
  BY <1>1, <1>2, <1>3, <1>4, ExprReads

LEMMA PlotKeepsShape ==
  ASSUME Written, Shape, NEW kind, Plot(kind),
         source' \in [Snapshots -> [Vars -> Vals]], live' \in SUBSET Snapshots,
         inputs' \in SUBSET Attrs, Sane(outputs', inputs'),
         frames' \in Seq(Frame), \A i \in DOMAIN frames' : SaneFrame(frames'[i], inputs'),
         Len(frames') = Len(After(stmt, pc)),
         ignored' \in BOOLEAN, leaked' \in BOOLEAN
  PROVE  Shape'
<1>1. /\ phase = "plot" /\ UNCHANGED <<phase, words, store, ran>>
      /\ At(pc)' = After(stmt, pc)
  BY PlotStep
<1>2. ran' = 0 /\ store' = Identity /\ store' \in [Snapshots -> Snapshots]
  BY <1>1 DEF Shape
<1>3. Len(outputs'.order) \in Nat
  <2>1. outputs'.order \in Seq(Attrs)
    BY SaneParts
  <2> QED
    BY <2>1
<1>4. ran' \in 0 .. Len(outputs'.order)
  BY <1>2, <1>3, SMT
<1>5. Frame' = Frame
  BY <1>1 DEF Frame
<1>6. /\ Sane(outputs, inputs)'
      /\ \A i \in DOMAIN frames' : SaneFrame(frames[i], inputs)'
  OBVIOUS
<1> QED
  BY <1>1, <1>2, <1>4, <1>5, <1>6 DEF Shape

(* Changing some fields of the innermost frame.                            *)
LEMMA InnermostChanged ==
  ASSUME NEW T, NEW seq \in Seq(T), seq # <<>>, NEW f \in T, NEW new,
         new = [seq EXCEPT ![1] = f]
  PROVE  /\ new \in Seq(T) /\ Len(new) = Len(seq) /\ DOMAIN new = DOMAIN seq
         /\ 1 \in DOMAIN seq /\ new[1] = f
         /\ \A i \in DOMAIN seq : i # 1 => new[i] = seq[i]
<1>1. Len(seq) \in Nat /\ Len(seq) # 0 /\ DOMAIN seq = 1 .. Len(seq)
  BY SMT
<1>2. 1 \in DOMAIN seq
  BY <1>1, SMT
<1> QED
  BY <1>1, <1>2, SMT

LEMMA AssignStep ==
  ASSUME Written, Shape, PlotAssign
  PROVE  /\ stmt.kind = "assign" /\ stmt.attr \in Vars /\ stmt.expr \in Expr
         /\ After(stmt, pc) = At(pc) /\ At(pc)' = At(pc)
         /\ outputs' = SetAttr(outputs, stmt.attr, NodeOf(stmt.expr))
         /\ inputs' = inputs \cup (ReadBy(stmt.expr) \ Recorded(outputs))
         /\ source' = [s \in Snapshots |->
                         IF s \in live
                           THEN [source[s] EXCEPT ![stmt.attr] = ValueOf(stmt.expr, source[s])]
                           ELSE source[s]]
         /\ frames' \in Seq(Frame) /\ Len(frames') = Len(frames)
         /\ DOMAIN frames' = DOMAIN frames
         /\ \A i \in DOMAIN frames : i # 1 => frames'[i] = frames[i]
         /\ 1 \in DOMAIN frames =>
              frames'[1] = [frames[1] EXCEPT !.own = AddTo(@, stmt.attr),
                                             !.bound = @ \cup ({stmt.attr} \cap Locals)]
         /\ ignored' = (ignored \/ (/\ NodeOf(stmt.expr).plain = stmt.attr
                                    /\ stmt.attr \in Recorded(outputs)))
         /\ UNCHANGED <<live, leaked>>
<1>1. Plot("assign")
  BY DEF PlotAssign
<1>2. /\ stmt \in Stmt /\ stmt.kind = "assign" /\ At(pc) = stmt.within
      /\ At(pc)' = After(stmt, pc)
  BY <1>1, PlotStep
<1>3. stmt.attr \in Vars /\ stmt.expr \in Expr /\ Reads(stmt) = ReadBy(stmt.expr)
  BY <1>2, StmtParts
<1>4. After(stmt, pc) = At(pc)
  BY <1>2, SMT DEF After
<1> DEFINE new == [frames[1] EXCEPT !.own = AddTo(@, stmt.attr),
                                    !.bound = @ \cup ({stmt.attr} \cap Locals)]
<1>5. frames \in Seq(Frame)
  BY DEF Shape
<1>6. /\ frames' \in Seq(Frame) /\ Len(frames') = Len(frames) /\ DOMAIN frames' = DOMAIN frames
      /\ \A i \in DOMAIN frames : i # 1 => frames'[i] = frames[i]
      /\ 1 \in DOMAIN frames => frames'[1] = new
  <2>1. CASE frames = <<>>
    <3>1. frames' = <<>>
      BY <2>1 DEF PlotAssign
    <3>2. 1 \notin DOMAIN frames
      BY <2>1, SMT
    <3> QED
      BY <1>5, <2>1, <3>1, <3>2
  <2>2. CASE frames # <<>>
    <3>1. 1 \in DOMAIN frames /\ frames[1] \in Frame
      BY <1>5, <2>2, SMT
    <3>2. frames' = [frames EXCEPT ![1] = new]
      <4>1. frames' = [frames EXCEPT ![1].own = AddTo(@, stmt.attr),
                                     ![1].bound = @ \cup ({stmt.attr} \cap Locals)]
        BY <2>2 DEF PlotAssign
      <4> QED
        BY <1>5, <3>1, <4>1 DEF Frame
    <3>3. new \in Frame
      <4>1. AddTo(frames[1].own, stmt.attr) \in Seq(Vars)
        BY <1>3, <3>1, AddToAdds DEF Frame
      <4>2. frames[1].bound \cup ({stmt.attr} \cap Locals) \in SUBSET Locals
        BY <3>1 DEF Frame
      <4> QED
        BY <3>1, <4>1, <4>2 DEF Frame
    <3> HIDE DEF new
    <3> QED
      BY <1>5, <2>2, <3>2, <3>3, InnermostChanged
  <2> QED
    BY <2>1, <2>2
<1> QED
  BY <1>2, <1>3, <1>4, <1>6 DEF PlotAssign, Retrieved

LEMMA BaseInSymsTyped ==
  ASSUME Written, NEW k
  PROVE  BaseInSyms(k) \in SUBSET Range(words.base)
<1>1. DOMAIN words.base = Vars
  BY VocabulariesAssumption DEF Written
<1>2. ASSUME NEW i \in DOMAIN prog PROVE InputSyms(i) \subseteq Vars
  <2>1. prog[i] \in Stmt
    BY DEF Written
  <2>2. Reads(prog[i]) \subseteq Vars
    BY <2>1, StmtParts
  <2> QED
    BY <2>2 DEF InputSyms
<1> QED
  BY <1>1, <1>2 DEF BaseInSyms, Range

LEMMA IfStep ==
  ASSUME Written, Shape, PlotIf
  PROVE  /\ stmt.kind = "if" /\ stmt.attr \in Vars /\ stmt.val \in Vals
         /\ pc \in 1 .. Len(prog)
         /\ After(stmt, pc) = <<[id |-> pc, branch |-> "if"]>> \o At(pc)
         /\ At(pc)' = After(stmt, pc) /\ Len(At(pc)') = Len(At(pc)) + 1
         /\ inputs' = inputs \cup ({stmt.attr} \ Recorded(outputs))
         /\ frames' \in Seq(Frame) /\ Len(frames') = Len(frames) + 1
         /\ DOMAIN frames' = 1 .. Len(frames) + 1
         /\ \A i \in DOMAIN frames : i + 1 \in DOMAIN frames' /\ frames'[i + 1] = frames[i]
         /\ \A i \in DOMAIN frames' : i # 1 => i - 1 \in DOMAIN frames /\ frames'[i] = frames[i - 1]
         /\ 1 \in DOMAIN frames'
         /\ frames'[1] =
              [cond |-> Holds(stmt.attr, stmt.val),
               args |-> BaseInSyms(pc), outer |-> outputs, then |-> outputs,
               own |-> <<>>, nested |-> <<>>,
               holds |-> {s \in live : source[s][stmt.attr] = stmt.val}, live |-> live,
               scope |-> (BaseInSyms(pc) \cap Locals) \cup AssignedIn(pc, "if"),
               bound |-> BaseInSyms(pc) \cap Locals]
         /\ live' = {s \in live : source[s][stmt.attr] = stmt.val}
         /\ UNCHANGED <<source, outputs, ignored, leaked>>
<1>1. Plot("if")
  BY DEF PlotIf
<1>2. /\ stmt \in Stmt /\ stmt.kind = "if" /\ At(pc) = stmt.within /\ At(pc) \in Seq(Branch)
      /\ At(pc)' = After(stmt, pc) /\ pc \in 1 .. Len(prog)
  BY <1>1, PlotStep
<1>3. stmt.attr \in Vars /\ stmt.val \in Vals /\ Reads(stmt) = {stmt.attr}
  BY <1>2, StmtParts
<1>4. After(stmt, pc) = <<[id |-> pc, branch |-> "if"]>> \o At(pc)
  BY <1>2, SMT DEF After
<1>5. Len(At(pc)') = Len(At(pc)) + 1
  <2> DEFINE e == [id |-> pc, branch |-> "if"]
             at == At(pc)
  <2>1. e \in Branch
    BY <1>2, SMT DEF Branch, Written
  <2>2. at \in Seq(Branch)
    BY <1>2
  <2> HIDE DEF e, at
  <2>3. Len(<<e>> \o at) = Len(at) + 1
    BY <2>1, <2>2, SMT
  <2> QED
    BY <1>2, <1>4, <2>3 DEF e, at
<1> DEFINE holds == {s \in live : source[s][stmt.attr] = stmt.val}
           new == [cond |-> Holds(stmt.attr, stmt.val),
               args |-> BaseInSyms(pc), outer |-> outputs, then |-> outputs,
               own |-> <<>>, nested |-> <<>>,
               holds |-> holds, live |-> live,
               scope |-> (BaseInSyms(pc) \cap Locals) \cup AssignedIn(pc, "if"),
               bound |-> BaseInSyms(pc) \cap Locals]
<1>6. new \in Frame
  <2>1. BaseInSyms(pc) \in SUBSET Range(words.base)
    BY BaseInSymsTyped
  <2>2. outputs \in Outputs /\ live \in SUBSET Snapshots
    BY DEF Shape, Sane
  <2>3. Holds(stmt.attr, stmt.val) \in SUBSET Snapshots
    BY DEF Holds
  <2>4. AssignedIn(pc, "if") \in SUBSET Locals
    BY DEF AssignedIn
  <2>5. holds \in SUBSET Snapshots
    BY <2>2
  <2>6. <<>> \in Seq(Vars)
    OBVIOUS
  <2> HIDE DEF holds
  <2> QED
    BY <2>1, <2>2, <2>3, <2>4, <2>5, <2>6 DEF Frame
<1>7. frames \in Seq(Frame)
  BY DEF Shape
<1>8. frames' = <<new>> \o frames
  BY DEF PlotIf
<1> HIDE DEF new, holds
<1>9. /\ frames' \in Seq(Frame) /\ Len(frames') = Len(frames) + 1
      /\ DOMAIN frames' = 1 .. Len(frames) + 1
      /\ \A i \in DOMAIN frames : i + 1 \in DOMAIN frames' /\ frames'[i + 1] = frames[i]
      /\ \A i \in DOMAIN frames' : i # 1 => i - 1 \in DOMAIN frames /\ frames'[i] = frames[i - 1]
      /\ 1 \in DOMAIN frames' /\ frames'[1] = new
  <2>1. <<new>> \in Seq(Frame)
    BY <1>6
  <2>2. frames' \in Seq(Frame)
    <3>1. <<new>> \o frames \in Seq(Frame)
      BY <1>7, <2>1
    <3> QED
      BY <1>8, <3>1
  <2>3. Len(frames) \in Nat /\ DOMAIN frames = 1 .. Len(frames)
    BY <1>7
  <2>4. Len(frames') = Len(frames) + 1 /\ DOMAIN frames' = 1 .. Len(frames) + 1
    BY <1>7, <1>8, <2>1, <2>3, SMT
  <2>5. /\ \A i \in DOMAIN frames : i + 1 \in DOMAIN frames' /\ frames'[i + 1] = frames[i]
        /\ 1 \in DOMAIN frames' /\ frames'[1] = new
    BY <1>7, <1>8, <2>1, <2>3, <2>4, SMT
  <2>6. \A i \in DOMAIN frames' : i # 1 => i - 1 \in DOMAIN frames /\ frames'[i] = frames[i - 1]
    BY <1>7, <1>8, <2>1, <2>3, <2>4, SMT
  <2> QED
    BY <2>2, <2>4, <2>5, <2>6
<1>10. /\ inputs' = inputs \cup ({stmt.attr} \ Recorded(outputs))
       /\ live' = holds /\ UNCHANGED <<source, outputs, ignored, leaked>>
  BY <1>3 DEF PlotIf, Retrieved, flaws, holds
<1> QED
  BY <1>2, <1>3, <1>4, <1>5, <1>9, <1>10 DEF new, holds

(* There is a frame for each branch that is open.                          *)
LEMMA FramesOpen ==
  ASSUME Written, Shape, NEW kind \in {"else", "endif"}, Plot(kind)
  PROVE  /\ frames \in Seq(Frame) /\ frames # <<>> /\ 1 \in DOMAIN frames /\ frames[1] \in Frame
         /\ Head(frames) = frames[1] /\ DOMAIN frames = DOMAIN At(pc)
         /\ At(pc) \in Seq(Branch) /\ At(pc) # <<>> /\ At(pc)[1] \in Branch
         /\ Block(pc) = At(pc)[1].id
         /\ At(pc)[1].branch = IF kind = "else" THEN "if" ELSE "else"
         /\ At(pc)' = After(stmt, pc) /\ pc \in 1 .. Len(prog)
<1>1. /\ stmt \in Stmt /\ stmt.kind = kind /\ Legal(stmt) /\ At(pc) = stmt.within
      /\ At(pc) \in Seq(Branch) /\ At(pc)' = After(stmt, pc) /\ pc \in 1 .. Len(prog)
  BY PlotStep
<1>2. /\ At(pc) # <<>> /\ At(pc)[1].branch = IF kind = "else" THEN "if" ELSE "else"
  BY <1>1 DEF Legal
<1>3. frames \in Seq(Frame) /\ Len(frames) = Len(At(pc))
  BY DEF Shape
<1> DEFINE at == At(pc)
<1> HIDE DEF at
<1>4. at \in Seq(Branch) /\ at # <<>> /\ Len(frames) = Len(at)
  BY <1>1, <1>2, <1>3 DEF at
<1>5. Len(at) \in Nat /\ Len(at) # 0 /\ DOMAIN at = 1 .. Len(at) /\ at[1] \in Branch
  BY <1>4, SMT
<1>6. /\ frames # <<>> /\ 1 \in DOMAIN frames /\ frames[1] \in Frame
      /\ Head(frames) = frames[1] /\ DOMAIN frames = DOMAIN at
  BY <1>3, <1>4, <1>5, SMT
<1>7. Block(pc) = At(pc)[1].id
  <2>1. prog[pc].kind # "if" /\ prog[pc].within = at
    BY <1>1 DEF stmt, at
  <2> QED
    BY <1>4, <2>1 DEF Block, at
<1> QED
  BY <1>1, <1>2, <1>3, <1>5, <1>6, <1>7 DEF at

LEMMA ElseStep ==
  ASSUME Written, Shape, PlotElse
  PROVE  /\ After(stmt, pc) = [At(pc) EXCEPT ![1].branch = "else"]
         /\ At(pc)' = After(stmt, pc) /\ Len(At(pc)') = Len(At(pc))
         /\ DOMAIN At(pc)' = DOMAIN At(pc)
         /\ At(pc)[1].branch = "if"
         /\ At(pc)'[1].id = At(pc)[1].id /\ At(pc)'[1].branch = "else"
         /\ \A i \in DOMAIN At(pc) : i # 1 => At(pc)'[i] = At(pc)[i]
         /\ outputs' = Outside(frames[1])
         /\ frames' \in Seq(Frame) /\ Len(frames') = Len(frames)
         /\ DOMAIN frames' = DOMAIN frames /\ 1 \in DOMAIN frames
         /\ \A i \in DOMAIN frames : i # 1 => frames'[i] = frames[i]
         /\ frames'[1] = [frames[1] EXCEPT
              !.then = outputs,
              !.scope = (frames[1].args \cap Locals) \cup AssignedIn(At(pc)[1].id, "else"),
              !.bound = frames[1].args \cap Locals]
         /\ leaked' = (leaked \/ \E a \in Attrs :
                                    GetAttr(outputs', a) # GetAttr(frames[1].outer, a))
         /\ live' = frames[1].live \ frames[1].holds
         /\ UNCHANGED <<source, inputs, ignored>>
<1>1. Plot("else")
  BY DEF PlotElse
<1>2. /\ stmt \in Stmt /\ stmt.kind = "else" /\ At(pc) = stmt.within /\ pc' = pc + 1
  BY <1>1, PlotStep
<1>3. /\ frames \in Seq(Frame) /\ frames # <<>> /\ 1 \in DOMAIN frames /\ frames[1] \in Frame
      /\ Head(frames) = frames[1]
      /\ At(pc) \in Seq(Branch) /\ At(pc) # <<>> /\ At(pc)[1] \in Branch
      /\ Block(pc) = At(pc)[1].id /\ At(pc)[1].branch = "if"
      /\ At(pc)' = After(stmt, pc)
  BY <1>1, FramesOpen
<1>4. After(stmt, pc) = [At(pc) EXCEPT ![1].branch = "else"]
  BY <1>2, SMT DEF After
<1>5. /\ Len(At(pc)') = Len(At(pc)) /\ DOMAIN At(pc)' = DOMAIN At(pc)
      /\ At(pc)'[1].id = At(pc)[1].id /\ At(pc)'[1].branch = "else"
      /\ \A i \in DOMAIN At(pc) : i # 1 => At(pc)'[i] = At(pc)[i]
  <2> DEFINE at == At(pc)
             new == [at[1] EXCEPT !.branch = "else"]
             after == [at EXCEPT ![1] = new]
  <2>1. new \in Branch /\ new.id = at[1].id /\ new.branch = "else"
    BY <1>3 DEF Branch
  <2>2. At(pc)' = after
    BY <1>3, <1>4
  <2>3. at \in Seq(Branch) /\ at # <<>>
    BY <1>3
  <2> HIDE DEF at, new
  <2>4. Len(after) = Len(at) /\ DOMAIN after = DOMAIN at /\ after[1] = new
        /\ \A i \in DOMAIN at : i # 1 => after[i] = at[i]
    BY <2>1, <2>3, InnermostChanged
  <2> QED
    BY <2>1, <2>2, <2>4 DEF at
<1> DEFINE new == [frames[1] EXCEPT
              !.then = outputs,
              !.scope = (frames[1].args \cap Locals) \cup AssignedIn(At(pc)[1].id, "else"),
              !.bound = frames[1].args \cap Locals]
<1>6. frames' = [frames EXCEPT ![1] = new]
  <2>1. frames' = [frames EXCEPT
       ![1].then = outputs,
       ![1].scope = (frames[1].args \cap Locals) \cup AssignedIn(Block(pc), "else"),
       ![1].bound = frames[1].args \cap Locals]
    BY <1>3 DEF PlotElse
  <2> QED
    BY <1>3, <2>1 DEF Frame
<1>7. new \in Frame
  <2>1. outputs \in Outputs
    BY DEF Shape, Sane
  <2>2. (frames[1].args \cap Locals) \cup AssignedIn(At(pc)[1].id, "else") \in SUBSET Locals
    BY DEF AssignedIn
  <2> QED
    BY <1>3, <2>1, <2>2 DEF Frame
<1> HIDE DEF new
<1>8. /\ frames' \in Seq(Frame) /\ Len(frames') = Len(frames) /\ DOMAIN frames' = DOMAIN frames
      /\ \A i \in DOMAIN frames : i # 1 => frames'[i] = frames[i]
      /\ frames'[1] = new
  BY <1>3, <1>6, <1>7, InnermostChanged
<1>9. /\ outputs' = Outside(frames[1])
      /\ leaked' = (leaked \/ \E a \in Attrs :
                                 GetAttr(outputs', a) # GetAttr(frames[1].outer, a))
      /\ live' = frames[1].live \ frames[1].holds
      /\ UNCHANGED <<source, inputs, ignored>>
  BY <1>3 DEF PlotElse
<1> QED
  BY <1>3, <1>4, <1>5, <1>8, <1>9 DEF new

LEMMA TargetsOnce ==
  ASSUME NEW f \in Frame, Once(f.own), Once(f.nested)
  PROVE  /\ Targets(f) \in Seq(Vars) /\ Once(Targets(f))
         /\ Range(Targets(f)) = Range(f.own) \cup Range(f.nested)
<1>1. f.own \in Seq(Vars) /\ f.nested \in Seq(Vars)
  BY DEF Frame
<1> QED
  BY <1>1, MergedOnce DEF Targets

LEMMA EndIfStep ==
  ASSUME Written, Shape, PlotEndIf
  PROVE  /\ After(stmt, pc) = Tail(At(pc))
         /\ At(pc)' = After(stmt, pc) /\ Len(At(pc)') = Len(At(pc)) - 1
         /\ At(pc)[1].branch = "else"
         /\ \A i \in DOMAIN At(pc)' : i + 1 \in DOMAIN At(pc) /\ At(pc)'[i] = At(pc)[i + 1]
         /\ 1 \in DOMAIN frames /\ frames[1] \in Frame /\ SaneFrame(frames[1], inputs)
         /\ Targets(frames[1]) \in Seq(Vars) /\ Once(Targets(frames[1]))
         /\ Range(Targets(frames[1])) = Range(frames[1].own) \cup Range(frames[1].nested)
         /\ Range(Targets(frames[1])) \in SUBSET Vars
         /\ outputs' = SetAll(Outside(frames[1]), Targets(frames[1]), Merged(frames[1]))
         /\ inputs' = inputs \cup (Range(Targets(frames[1])) \ Recorded(frames[1].then))
                             \cup (Range(Targets(frames[1])) \ Recorded(outputs))
         /\ frames' \in Seq(Frame) /\ Len(frames') = Len(frames) - 1
         /\ \A i \in DOMAIN frames' : i + 1 \in DOMAIN frames
         /\ \A i \in DOMAIN frames : i # 1 => i - 1 \in DOMAIN frames'
         /\ \A i \in DOMAIN frames' : i # 1 => frames'[i] = frames[i + 1]
         /\ 1 \in DOMAIN frames' =>
              /\ 2 \in DOMAIN frames /\ frames[2] \in Frame
              /\ frames'[1] = [frames[2] EXCEPT
                   !.nested = @ \o Without(Targets(frames[1]), Range(@)),
                   !.bound = @ \cup (Range(Targets(frames[1])) \cap Locals)]
         /\ live' = frames[1].live
         /\ UNCHANGED <<source, ignored, leaked>>
<1>1. Plot("endif")
  BY DEF PlotEndIf
<1>2. /\ stmt \in Stmt /\ stmt.kind = "endif" /\ At(pc) = stmt.within
  BY <1>1, PlotStep
<1>3. /\ frames \in Seq(Frame) /\ frames # <<>> /\ 1 \in DOMAIN frames /\ frames[1] \in Frame
      /\ Head(frames) = frames[1]
      /\ At(pc) \in Seq(Branch) /\ At(pc) # <<>>
      /\ At(pc)[1].branch = "else" /\ At(pc)' = After(stmt, pc)
  BY <1>1, FramesOpen
<1>4. After(stmt, pc) = Tail(At(pc))
  BY <1>2, SMT DEF After
<1>5. /\ Len(At(pc)') = Len(At(pc)) - 1
      /\ \A i \in DOMAIN At(pc)' : i + 1 \in DOMAIN At(pc) /\ At(pc)'[i] = At(pc)[i + 1]
  <2> DEFINE at == At(pc)
  <2>1. at \in Seq(Branch) /\ at # <<>> /\ At(pc)' = Tail(at)
    BY <1>3, <1>4
  <2> HIDE DEF at
  <2>2. /\ Len(Tail(at)) = Len(at) - 1
        /\ \A i \in DOMAIN Tail(at) : i + 1 \in DOMAIN at /\ Tail(at)[i] = at[i + 1]
    BY <2>1, SMT
  <2> QED
    BY <2>1, <2>2 DEF at
<1>6. SaneFrame(frames[1], inputs)
  BY <1>3 DEF Shape
<1> DEFINE attrs == Targets(frames[1])
<1>7. /\ attrs \in Seq(Vars) /\ Once(attrs)
      /\ Range(attrs) = Range(frames[1].own) \cup Range(frames[1].nested)
  BY <1>3, <1>6, TargetsOnce DEF SaneFrame
<1>8. Range(attrs) \in SUBSET Vars
  <2> HIDE DEF attrs
  <2> QED
    BY <1>7, SMT DEF Range
<1>9. /\ outputs' = SetAll(Outside(frames[1]), attrs, Merged(frames[1]))
      /\ inputs' = inputs \cup (Range(attrs) \ Recorded(frames[1].then))
                          \cup (Range(attrs) \ Recorded(outputs))
      /\ frames' = IF Len(frames) = 1 THEN <<>>
                   ELSE [Tail(frames) EXCEPT
                           ![1].nested = @ \o Without(attrs, Range(@)),
                           ![1].bound = @ \cup (Range(attrs) \cap Locals)]
      /\ live' = frames[1].live /\ UNCHANGED <<source, ignored, leaked>>
  BY <1>3 DEF PlotEndIf, Retrieved, flaws
<1> HIDE DEF attrs
<1> DEFINE new == [frames[2] EXCEPT
                     !.nested = @ \o Without(attrs, Range(@)),
                     !.bound = @ \cup (Range(attrs) \cap Locals)]
           rest == Tail(frames)
<1>10. /\ Len(frames) \in Nat \ {0} /\ DOMAIN frames = 1 .. Len(frames)
       /\ rest \in Seq(Frame) /\ Len(rest) = Len(frames) - 1 /\ DOMAIN rest = 1 .. Len(frames) - 1
       /\ \A i \in DOMAIN rest : i + 1 \in DOMAIN frames /\ rest[i] = frames[i + 1]
       /\ \A i \in DOMAIN frames : i # 1 => i - 1 \in DOMAIN rest
  <2>1. Len(frames) \in Nat \ {0} /\ DOMAIN frames = 1 .. Len(frames)
    BY <1>3, SMT
  <2>2. rest \in Seq(Frame) /\ Len(rest) = Len(frames) - 1
    BY <1>3
  <2>3. DOMAIN rest = 1 .. Len(frames) - 1
    BY <2>1, <2>2
  <2>4. \A i \in DOMAIN rest : i + 1 \in DOMAIN frames /\ rest[i] = frames[i + 1]
    BY <1>3, <2>1, <2>3, SMT
  <2>5. \A i \in DOMAIN frames : i # 1 => i - 1 \in DOMAIN rest
    BY <2>1, <2>3, SMT
  <2> QED
    BY <2>1, <2>2, <2>3, <2>4, <2>5
<1>11. /\ frames' \in Seq(Frame) /\ Len(frames') = Len(frames) - 1 /\ DOMAIN frames' = DOMAIN rest
       /\ \A i \in DOMAIN rest : i # 1 => frames'[i] = rest[i]
       /\ 1 \in DOMAIN rest => frames[2] \in Frame /\ 2 \in DOMAIN frames /\ frames'[1] = new
  <2> HIDE DEF rest
  <2>1. CASE Len(frames) = 1
    <3>1. frames' = <<>> /\ DOMAIN rest = {}
      BY <1>9, <1>10, <2>1, SMT
    <3> QED
      BY <2>1, <3>1
  <2>2. CASE Len(frames) # 1
    <3>1. 1 \in DOMAIN rest /\ 2 \in DOMAIN frames /\ rest[1] = frames[2] /\ rest # <<>>
      <4>1. 1 \in DOMAIN rest /\ 1 + 1 = 2
        BY <1>10, <2>2, SMT
      <4> QED
        BY <1>10, <4>1
    <3>2. frames[2] \in Frame
      BY <1>3, <3>1
    <3>3. frames' = [rest EXCEPT ![1] = new]
      <4>1. frames' = [rest EXCEPT
                         ![1].nested = @ \o Without(attrs, Range(@)),
                         ![1].bound = @ \cup (Range(attrs) \cap Locals)]
        BY <1>9, <2>2 DEF rest
      <4> QED
        BY <3>1, <3>2, <4>1 DEF Frame
    <3>4. new \in Frame
      <4>1. frames[2].nested \in Seq(Vars)
        BY <3>2 DEF Frame
      <4>2. Without(attrs, Range(frames[2].nested)) \in Seq(Vars)
        BY <1>7, WithoutKeeps
      <4>3. frames[2].nested \o Without(attrs, Range(frames[2].nested)) \in Seq(Vars)
        BY <4>1, <4>2, ConcatOnce
      <4>4. frames[2].bound \cup (Range(attrs) \cap Locals) \in SUBSET Locals
        BY <3>2 DEF Frame
      <4> QED
        BY <3>2, <4>3, <4>4 DEF Frame
    <3> HIDE DEF new
    <3>5. rest \in Seq(Frame) /\ rest # <<>>
      BY <1>10, <3>1
    <3>6. /\ frames' \in Seq(Frame) /\ Len(frames') = Len(rest) /\ DOMAIN frames' = DOMAIN rest
          /\ frames'[1] = new
          /\ \A i \in DOMAIN rest : i # 1 => frames'[i] = rest[i]
      BY <3>3, <3>4, <3>5, InnermostChanged
    <3> QED
      BY <1>10, <3>1, <3>2, <3>6
  <2> QED
    BY <2>1, <2>2
<1>12. /\ \A i \in DOMAIN frames' : i + 1 \in DOMAIN frames
       /\ \A i \in DOMAIN frames' : i # 1 => frames'[i] = frames[i + 1]
       /\ \A i \in DOMAIN frames : i # 1 => i - 1 \in DOMAIN frames'
  BY <1>10, <1>11
<1>13. 1 \in DOMAIN frames' => 2 \in DOMAIN frames /\ frames[2] \in Frame /\ frames'[1] = new
  BY <1>11
<1> QED
  BY <1>3, <1>4, <1>5, <1>6, <1>7, <1>8, <1>9, <1>11, <1>12, <1>13 DEF attrs

-----------------------------------------------------------------------------
(* The shape of the state.                                                 *)
LEMMA InputsGrow ==
  ASSUME Shape, NEW read \in SUBSET Vars, NEW outs, Sane(outs, inputs)
  PROVE  /\ inputs \cup (read \ Recorded(outs)) \in SUBSET Attrs
         /\ read \subseteq Recorded(outs) \cup (inputs \cup (read \ Recorded(outs)))
<1>1. Locals \subseteq Recorded(outs)
  BY SaneParts
<1> QED
  BY <1>1 DEF Shape, Vars

LEMMA ShapeAssign ==
  ASSUME Written, Shape, PlotAssign
  PROVE  Shape'
<1> DEFINE a == stmt.attr
           node == NodeOf(stmt.expr)
           more == inputs \cup (ReadBy(stmt.expr) \ Recorded(outputs))
<1>1. a \in Vars /\ stmt.expr \in Expr /\ ReadBy(stmt.expr) \in SUBSET Vars
  BY AssignStep, ExprReads
<1>2. Sane(outputs, inputs) /\ inputs \subseteq more
  BY DEF Shape
<1>3. more \in SUBSET Attrs /\ ReadBy(stmt.expr) \subseteq Recorded(outputs) \cup more
  BY <1>1, <1>2, InputsGrow
<1>4. inputs' = more /\ outputs' = SetAttr(outputs, a, node)
  BY AssignStep
<1> HIDE DEF more
<1>5. Sane(outputs, more)
  BY <1>2, CleanMore
<1>6. node \in Node /\ Clean(node, more)
  BY <1>1, <1>3, <1>5, NodeOfClean
<1>7. Sane(outputs', inputs')
  BY <1>1, <1>4, <1>5, <1>6, SetAttrSane
<1>8. ASSUME NEW i \in DOMAIN frames' PROVE SaneFrame(frames'[i], inputs')
  <2>1. i \in DOMAIN frames /\ frames \in Seq(Frame)
    BY AssignStep DEF Shape
  <2>2. SaneFrame(frames[i], inputs) /\ frames[i] \in Frame
    BY <2>1 DEF Shape
  <2>3. SaneFrame(frames[i], more)
    BY <1>2, <2>2, CleanMore
  <2>4. CASE i # 1
    BY <1>4, <2>1, <2>3, <2>4, AssignStep
  <2>5. CASE i = 1
    <3>1. frames'[1] = [frames[1] EXCEPT !.own = AddTo(@, a), !.bound = @ \cup ({a} \cap Locals)]
      BY <2>1, <2>5, AssignStep
    <3>2. frames[1] \in Frame /\ Once(frames[1].own) /\ frames'[1] \in Frame
      BY <2>1, <2>2, <2>5, AssignStep DEF SaneFrame
    <3>3. frames[1].own \in Seq(Vars)
      BY <3>2 DEF Frame
    <3>4. Once(AddTo(frames[1].own, a))
      BY <1>1, <3>2, <3>3, AddToAdds
    <3> QED
      BY <1>4, <2>3, <2>5, <3>1, <3>2, <3>4 DEF SaneFrame, Frame
  <2> QED
    BY <2>4, <2>5
<1>9. source' \in [Snapshots -> [Vars -> Vals]]
  <2>1. \A s \in Snapshots : source[s] \in [Vars -> Vals]
    BY DEF Shape
  <2>2. \A s \in Snapshots : ValueOf(stmt.expr, source[s]) \in Vals
    BY <1>1, <2>1, ValueOfTyped
  <2>3. \A s \in Snapshots :
          [source[s] EXCEPT ![a] = ValueOf(stmt.expr, source[s])] \in [Vars -> Vals]
    BY <1>1, <2>1, <2>2
  <2> QED
    BY <2>1, <2>3, AssignStep
<1>10. ignored' \in BOOLEAN /\ leaked' \in BOOLEAN /\ live' \in SUBSET Snapshots
  BY AssignStep DEF Shape
<1>11. /\ frames' \in Seq(Frame) /\ Len(frames') = Len(After(stmt, pc)) /\ Plot("assign")
       /\ inputs' \in SUBSET Attrs
  BY <1>3, <1>4, AssignStep DEF Shape, PlotAssign
<1> QED
  BY <1>7, <1>8, <1>9, <1>10, <1>11, PlotKeepsShape

LEMMA ShapeIf ==
  ASSUME Written, Shape, PlotIf
  PROVE  Shape'
<1> DEFINE more == inputs \cup ({stmt.attr} \ Recorded(outputs))
<1>1. {stmt.attr} \in SUBSET Vars
  BY IfStep
<1>2. Sane(outputs, inputs) /\ inputs \subseteq more
  BY DEF Shape
<1>3. more \in SUBSET Attrs /\ {stmt.attr} \subseteq Recorded(outputs) \cup more
  BY <1>1, <1>2, InputsGrow
<1>4. inputs' = more /\ outputs' = outputs
  BY IfStep
<1> HIDE DEF more
<1>5. Sane(outputs, more)
  BY <1>2, CleanMore
<1>6. CleanCond(Holds(stmt.attr, stmt.val), more)
  BY <1>1, <1>3, <1>5, HoldsClean
<1>7. ASSUME NEW i \in DOMAIN frames' PROVE SaneFrame(frames'[i], inputs')
  <2>1. CASE i # 1
    <3>1. i - 1 \in DOMAIN frames /\ frames'[i] = frames[i - 1]
      BY <2>1, IfStep
    <3>2. SaneFrame(frames[i - 1], inputs)
      BY <3>1 DEF Shape
    <3> QED
      BY <1>2, <1>4, <3>1, <3>2, CleanMore
  <2>2. CASE i = 1
    <3> DEFINE f == frames'[1]
    <3>1. /\ f.outer = outputs /\ f.then = outputs /\ f.own = <<>> /\ f.nested = <<>>
          /\ f.cond = Holds(stmt.attr, stmt.val) /\ f.holds \subseteq f.live
      BY IfStep
    <3>2. Once(<<>>)
      BY DEF Once
    <3> HIDE DEF f
    <3>3. SaneFrame(f, more)
      BY <1>5, <1>6, <3>1, <3>2 DEF SaneFrame
    <3> QED
      BY <1>4, <2>2, <3>3 DEF f
  <2> QED
    BY <2>1, <2>2
<1>8. /\ source' \in [Snapshots -> [Vars -> Vals]]
      /\ ignored' \in BOOLEAN /\ leaked' \in BOOLEAN /\ live' \in SUBSET Snapshots
  BY IfStep DEF Shape
<1>9. /\ frames' \in Seq(Frame) /\ Len(frames') = Len(After(stmt, pc)) /\ Plot("if")
      /\ inputs' \in SUBSET Attrs /\ Sane(outputs', inputs')
  BY <1>3, <1>4, <1>5, IfStep DEF Shape, PlotIf
<1> QED
  BY <1>7, <1>8, <1>9, PlotKeepsShape

LEMMA ShapeElse ==
  ASSUME Written, Shape, PlotElse
  PROVE  Shape'
<1>1. /\ Sane(outputs, inputs) /\ 1 \in DOMAIN frames /\ inputs' = inputs
      /\ frames \in Seq(Frame) /\ DOMAIN frames' = DOMAIN frames
  BY ElseStep DEF Shape
<1>2. SaneFrame(frames[1], inputs) /\ frames[1] \in Frame
  BY <1>1 DEF Shape
<1>3. Sane(outputs', inputs')
  <2>1. Sane(Outside(frames[1]), inputs)
    BY <1>1, <1>2, OutsideSane DEF SaneFrame
  <2> QED
    BY <1>1, <2>1, ElseStep
<1>4. ASSUME NEW i \in DOMAIN frames' PROVE SaneFrame(frames'[i], inputs')
  <2>1. CASE i # 1
    BY <1>1, <2>1, ElseStep DEF Shape
  <2>2. CASE i = 1
    <3>1. frames'[1] = [frames[1] EXCEPT
              !.then = outputs,
              !.scope = (frames[1].args \cap Locals) \cup AssignedIn(At(pc)[1].id, "else"),
              !.bound = frames[1].args \cap Locals]
      BY ElseStep
    <3> QED
      BY <1>1, <1>2, <2>2, <3>1 DEF SaneFrame, Frame
  <2> QED
    BY <2>1, <2>2
<1>5. source' \in [Snapshots -> [Vars -> Vals]] /\ ignored' \in BOOLEAN /\ leaked' \in BOOLEAN
  BY ElseStep DEF Shape
<1>6. live' \in SUBSET Snapshots
  BY <1>2, ElseStep DEF Frame
<1>7. /\ frames' \in Seq(Frame) /\ Len(frames') = Len(After(stmt, pc)) /\ Plot("else")
      /\ inputs' \in SUBSET Attrs
  BY <1>1, ElseStep DEF Shape, PlotElse
<1> QED
  BY <1>3, <1>4, <1>5, <1>6, <1>7, PlotKeepsShape

LEMMA ShapeEndIf ==
  ASSUME Written, Shape, PlotEndIf
  PROVE  Shape'
<1> DEFINE f == frames[1]
           attrs == Targets(f)
           more == inputs \cup (Range(attrs) \ Recorded(f.then))
                          \cup (Range(attrs) \ Recorded(outputs))
<1>1. /\ f \in Frame /\ SaneFrame(f, inputs)
      /\ attrs \in Seq(Vars) /\ Once(attrs) /\ Range(attrs) \in SUBSET Vars
  BY EndIfStep
<1>2. /\ inputs' = more /\ outputs' = SetAll(Outside(f), attrs, Merged(f))
  BY EndIfStep
<1>3. /\ Sane(outputs, inputs) /\ Sane(f.outer, inputs) /\ Sane(f.then, inputs)
      /\ CleanCond(f.cond, inputs) /\ frames \in Seq(Frame)
  BY <1>1 DEF Shape, SaneFrame
<1> HIDE DEF f, attrs
<1>4. inputs \subseteq more
  OBVIOUS
<1>5. more \in SUBSET Attrs
  BY <1>1, <1>3, InputsGrow
<1>6. Range(attrs) \subseteq Recorded(f.then) \cup more /\ Range(attrs) \subseteq Recorded(outputs) \cup more
  OBVIOUS
<1> HIDE DEF more
<1>7. Sane(outputs, more) /\ Sane(f.outer, more) /\ Sane(f.then, more) /\ CleanCond(f.cond, more)
  BY <1>3, <1>4, CleanMore
<1>8. \A a \in Range(attrs) : Merged(f)[a] \in Node /\ Clean(Merged(f)[a], more)
  <2> SUFFICES ASSUME NEW a \in Range(attrs)
               PROVE  Merged(f)[a] \in Node /\ Clean(Merged(f)[a], more)
    OBVIOUS
  <2>1. Merged(f)[a] = Switch(f.cond, GetAttr(f.then, a), GetAttr(outputs, a))
    BY DEF Merged, attrs
  <2>2. a \in Vars
    BY <1>1
  <2>3. /\ GetAttr(f.then, a) \in Node /\ Clean(GetAttr(f.then, a), more)
        /\ GetAttr(outputs, a) \in Node /\ Clean(GetAttr(outputs, a), more)
    BY <1>6, <1>7, <2>2, GetAttrClean
  <2> QED
    BY <1>7, <2>1, <2>3, SwitchClean
<1>9. Sane(Outside(f), more)
  BY <1>7, OutsideSane
<1>10. Sane(outputs', inputs')
  BY <1>1, <1>2, <1>8, <1>9, SetAllSane
<1>11. ASSUME NEW i \in DOMAIN frames' PROVE SaneFrame(frames'[i], inputs')
  <2>1. i + 1 \in DOMAIN frames
    BY EndIfStep
  <2>2. SaneFrame(frames[i + 1], more)
    BY <1>4, <2>1, CleanMore DEF Shape
  <2>3. CASE i # 1
    BY <1>2, <2>2, <2>3, EndIfStep
  <2>4. CASE i = 1
    <3>1. /\ frames[2] \in Frame
          /\ frames'[1] = [frames[2] EXCEPT
               !.nested = @ \o Without(attrs, Range(@)),
               !.bound = @ \cup (Range(attrs) \cap Locals)]
          /\ frames'[1] \in Frame
      BY <2>4, EndIfStep DEF attrs, f
    <3>2. SaneFrame(frames[2], more)
      BY <2>2, <2>4
    <3>3. frames[2].nested \in Seq(Vars) /\ Once(frames[2].nested)
      BY <3>1, <3>2 DEF Frame, SaneFrame
    <3>4. Once(frames[2].nested \o Without(attrs, Range(frames[2].nested)))
      BY <1>1, <3>3, MergedOnce
    <3> QED
      BY <1>2, <2>4, <3>1, <3>2, <3>4 DEF SaneFrame, Frame
  <2> QED
    BY <2>3, <2>4
<1>12. source' \in [Snapshots -> [Vars -> Vals]] /\ ignored' \in BOOLEAN /\ leaked' \in BOOLEAN
  BY EndIfStep DEF Shape
<1>13. live' \in SUBSET Snapshots
  BY <1>1, EndIfStep DEF Frame, f
<1>14. /\ frames' \in Seq(Frame) /\ Len(frames') = Len(After(stmt, pc)) /\ Plot("endif")
       /\ inputs' \in SUBSET Attrs
  BY <1>2, <1>5, EndIfStep DEF Shape, PlotEndIf
<1> QED
  BY <1>10, <1>11, <1>12, <1>13, <1>14, PlotKeepsShape

(* What one output does.                                                   *)
LEMMA MutateStep ==
  ASSUME Shape, Mutate
  PROVE  /\ phase = "run" /\ ran \in Nat /\ ran' = ran + 1 /\ ran + 1 \in 1 .. Len(outputs.order)
         /\ outputs.order \in Seq(Attrs) /\ outputs.order[ran + 1] \in Attrs
         /\ outputs.order[ran + 1] \in Recorded(outputs)
         /\ outputs.defs[outputs.order[ran + 1]] \in Node
         /\ store' = [s \in Snapshots |->
              [store[s] EXCEPT ![outputs.order[ran + 1]] =
                                 outputs.defs[outputs.order[ran + 1]].value[store[s]]]]
         /\ UNCHANGED <<phase, words, prog, open, pc, source, live, outputs, inputs, frames,
                        ignored, leaked>>
<1>1. Sane(outputs, inputs) /\ ran \in 0 .. Len(outputs.order)
  BY DEF Shape
<1>2. /\ outputs.order \in Seq(Attrs) /\ Range(outputs.order) = Recorded(outputs) \ Locals
      /\ \A a \in Recorded(outputs) : outputs.defs[a] \in Node
  BY <1>1, SaneParts
<1>3. ran < Len(outputs.order)
  BY DEF Mutate
<1>4. ran \in Nat /\ ran + 1 \in 1 .. Len(outputs.order) /\ ran + 1 \in DOMAIN outputs.order
  BY <1>1, <1>2, <1>3, SMT
<1>5. outputs.order[ran + 1] \in Range(outputs.order)
  BY <1>4 DEF Range
<1>6. outputs.order[ran + 1] \in Attrs
  BY <1>2, <1>4
<1> QED
  BY <1>2, <1>4, <1>5, <1>6 DEF Mutate, python, recorded, flaws

LEMMA ShapeSame ==
  ASSUME Shape, UNCHANGED <<words, source, live, outputs, inputs, frames, ignored, leaked>>,
         Len(At(pc)') = Len(At(pc)),
         store' \in [Snapshots -> Snapshots], ran' \in 0 .. Len(outputs.order),
         phase' # "run" => ran' = 0 /\ store' = Identity
  PROVE  Shape'
<1>1. Frame' = Frame
  BY DEF Frame
<1>2. Sane(outputs, inputs)'
  BY DEF Shape
<1>3. \A i \in DOMAIN frames : SaneFrame(frames[i], inputs)'
  BY DEF Shape
<1> QED
  BY <1>1, <1>2, <1>3 DEF Shape

LEMMA ShapeStep ==
  ASSUME Written, Written', Shape, [Next]_vars
  PROVE  Shape'
<1>1. /\ store \in [Snapshots -> Snapshots] /\ ran \in 0 .. Len(outputs.order)
      /\ phase # "run" => ran = 0 /\ store = Identity
  BY DEF Shape
<1>2. ASSUME NEW s, Write(s) PROVE Shape'
  <2>1. /\ phase = "write" /\ UNCHANGED <<phase, pc, words, source, live, outputs, inputs, frames>>
        /\ UNCHANGED <<ignored, leaked, store, ran>>
    BY <1>2 DEF Write, python, recorded, engine, flaws
  <2>2. pc = 1 /\ At(1) = <<>> /\ At(1)' = <<>>
    BY <2>1 DEF Written
  <2>3. At(pc)' = <<>> /\ At(pc) = <<>>
    BY <2>1, <2>2 DEF At
  <2> QED
    BY <1>1, <2>1, <2>3, ShapeSame
<1>3. CASE Compile \/ PlotRaises \/ Graph \/ UNCHANGED vars
  <2>1. /\ UNCHANGED <<pc, prog, open, words, source, live, outputs, inputs, frames>>
        /\ UNCHANGED <<ignored, leaked, store, ran>>
        /\ phase # phase' => phase \in {"write", "plot"}
    BY <1>3 DEF Compile, PlotRaises, Graph, vars, python, recorded, engine, flaws
  <2>2. At(pc)' = At(pc)
    BY <2>1 DEF At
  <2> QED
    BY <1>1, <2>1, <2>2, ShapeSame
<1>4. CASE Mutate
  <2>1. At(pc)' = At(pc)
    BY <1>4, MutateStep DEF At
  <2>2. ran' \in 0 .. Len(outputs.order)
    BY <1>4, MutateStep, SMT
  <2>3. store' \in [Snapshots -> Snapshots]
    <3> DEFINE a == outputs.order[ran + 1]
    <3>1. a \in Attrs /\ outputs.defs[a] \in Node
      BY <1>4, MutateStep
    <3>2. \A s \in Snapshots : outputs.defs[a].value[store[s]] \in Vals /\ store[s] \in Snapshots
      BY <1>1, <3>1 DEF Node
    <3> HIDE DEF a
    <3>3. \A s \in Snapshots :
            [store[s] EXCEPT ![a] = outputs.defs[a].value[store[s]]] \in Snapshots
      BY <3>1, <3>2 DEF Snapshots
    <3> QED
      BY <1>4, <3>3, MutateStep DEF a
  <2> QED
    BY <1>4, <2>1, <2>2, <2>3, MutateStep, ShapeSame
<1>5. \/ \E s : Write(s)
      \/ PlotAssign \/ PlotIf \/ PlotElse \/ PlotEndIf
      \/ Compile \/ PlotRaises \/ Graph \/ UNCHANGED vars \/ Mutate
  BY DEF Next, WriteAssign, WriteIf, WriteElse, WriteEndIf
<1> QED
  BY <1>2, <1>3, <1>4, <1>5, ShapeAssign, ShapeIf, ShapeElse, ShapeEndIf

LEMMA InitShape ==
  ASSUME Init
  PROVE  Written /\ Shape
<1>1. /\ phase = "write" /\ words \in Vocabularies /\ prog = <<>> /\ open = <<>> /\ pc = 1
      /\ source = [s \in Snapshots |-> [a \in Vars |-> IF a \in Attrs THEN s[a] ELSE 0]]
      /\ live = Snapshots
      /\ outputs = [defs |-> [v \in Locals |-> Const(0)], order |-> <<>>]
      /\ inputs = {} /\ frames = <<>> /\ store = [s \in Snapshots |-> s] /\ ran = 0
      /\ ignored = FALSE /\ leaked = FALSE
  BY DEF Init
<1>2. At(1) = <<>> /\ At(pc) = <<>>
  BY <1>1, SMT DEF At
<1>3. Written
  <2>1. Len(prog) = 0 /\ 1 .. Len(prog) = {} /\ 1 .. Len(prog) + 1 = {1}
    BY <1>1, SMT
  <2>2. Nested(1)
    BY <1>2, BoundsAssumption, SMT DEF Nested
  <2>3. prog \in Seq(Stmt) /\ open \in Seq(Branch) /\ pc \in 1 .. Len(prog) + 1
    BY <1>1, <2>1
  <2> QED
    BY <1>1, <1>2, <2>1, <2>2, <2>3 DEF Written
<1>4. Sane(outputs, inputs)
  <2> DEFINE defs == [v \in Locals |-> Const(0)]
             order == <<>>
  <2>1. \A v \in Locals : defs[v] \in Node /\ Clean(defs[v], inputs)
    BY ConstClean, ZeroIsAValue
  <2>2. defs \in [Locals -> Node]
    BY <2>1
  <2>3. order \in Seq(Vars) /\ Once(order) /\ Range(order) = {}
    BY SMT DEF Once, Range
  <2>4. Locals \in SUBSET Vars
    BY DEF Vars
  <2> HIDE DEF defs, order
  <2>5. Sane([defs |-> defs, order |-> order], inputs)
    BY <2>1, <2>2, <2>3, <2>4, SaneRecord
  <2> QED
    BY <1>1, <2>5 DEF defs, order
<1>5. source \in [Snapshots -> [Vars -> Vals]]
  <2>1. \A s \in Snapshots, a \in Attrs : s[a] \in Vals
    BY DEF Snapshots
  <2> QED
    BY <1>1, <2>1, ZeroIsAValue
<1>6. store \in [Snapshots -> Snapshots] /\ store = Identity
  BY <1>1 DEF Identity
<1>7. ran \in 0 .. Len(outputs.order) /\ Len(frames) = Len(At(pc))
  BY <1>1, <1>2, SMT
<1>8. frames \in Seq(Frame) /\ DOMAIN frames = {}
  BY <1>1
<1> QED
  BY <1>1, <1>3, <1>4, <1>5, <1>6, <1>7, <1>8 DEF Shape

-----------------------------------------------------------------------------
(* What the code around frame i - 1 has recorded, and where it is run.     *)
OutsIn(i) == IF i = 1 THEN outputs ELSE frames[i - 1].outer
LiveIn(i) == IF i = 1 THEN live ELSE frames[i - 1].live

SetBy(f) == Range(f.own) \cup Range(f.nested)
Touched(i) == UNION {SetBy(frames[k]) : k \in 1 .. i}

(* A conditional that is being traced has changed nothing but what its     *)
(* branches have set.                                                      *)
Untouched ==
  \A i \in DOMAIN frames : \A a \in Vars \ SetBy(frames[i]) :
    GetAttr(OutsIn(i), a) = GetAttr(frames[i].outer, a)

LEMMA SetAllGets ==
  ASSUME NEW outs, NEW attrs, NEW node, NEW a
  PROVE  GetAttr(SetAll(outs, attrs, node), a) =
           IF a \in Range(attrs) THEN node[a] ELSE GetAttr(outs, a)
<1>1. /\ Recorded(SetAll(outs, attrs, node)) = Recorded(outs) \cup Range(attrs)
      /\ a \in Recorded(outs) \cup Range(attrs) =>
           SetAll(outs, attrs, node).defs[a] = IF a \in Range(attrs) THEN node[a] ELSE outs.defs[a]
  BY DEF SetAll, Recorded
<1> QED
  BY <1>1 DEF GetAttr

LEMMA SetAttrGets ==
  ASSUME NEW outs, NEW a, NEW node, NEW b
  PROVE  GetAttr(SetAttr(outs, a, node), b) =
           IF b = a /\ node.plain # a THEN node ELSE GetAttr(outs, b)
<1>1. CASE node.plain = a
  BY <1>1 DEF SetAttr
<1>2. CASE node.plain # a
  <2>1. SetAttr(outs, a, node) = SetAll(outs, <<a>>, [c \in {a} |-> node])
    BY <1>2 DEF SetAttr
  <2>2. Range(<<a>>) = {a}
    BY SMT DEF Range
  <2> QED
    BY <1>2, <2>1, <2>2, SetAllGets
<1> QED
  BY <1>1, <1>2

LEMMA OutsideGets ==
  ASSUME NEW f, NEW a
  PROVE  GetAttr(Outside(f), a) =
           IF a \in Locals \cup {b \in Attrs : words.base[b] \in f.args}
             THEN GetAttr(f.outer, a) ELSE GetAttr(outputs, a)
<1> DEFINE kept == Locals \cup {b \in Attrs : words.base[b] \in f.args}
           seen == (Recorded(f.outer) \cap kept) \cup (Recorded(outputs) \ kept)
<1>1. Outside(f).defs = [b \in seen |-> IF b \in kept THEN f.outer.defs[b] ELSE outputs.defs[b]]
  BY DEF Outside
<1>2. /\ Recorded(Outside(f)) = seen
      /\ a \in seen => Outside(f).defs[a] = IF a \in kept THEN f.outer.defs[a] ELSE outputs.defs[a]
  BY <1>1 DEF Recorded
<1> HIDE DEF kept
<1> QED
  BY <1>2 DEF GetAttr, kept

LEMMA FramesAt ==
  ASSUME Written, Shape
  PROVE  /\ frames \in Seq(Frame) /\ Len(frames) \in Nat /\ DOMAIN frames = 1 .. Len(frames)
         /\ At(pc) \in Seq(Branch)
         /\ Len(frames) = Len(At(pc)) /\ DOMAIN frames = DOMAIN At(pc)
<1>1. At(pc) \in Seq(Branch)
  <2>1. pc \in 1 .. Len(prog) + 1 /\ prog \in Seq(Stmt) /\ open \in Seq(Branch)
    BY DEF Written
  <2>2. pc <= Len(prog) => pc \in 1 .. Len(prog) /\ prog[pc] \in Stmt
    BY <2>1, SMT
  <2> QED
    BY <2>1, <2>2 DEF At, Stmt
<1>2. frames \in Seq(Frame) /\ Len(frames) = Len(At(pc))
  BY DEF Shape
<1> DEFINE at == At(pc)
<1>3. at \in Seq(Branch) /\ Len(frames) = Len(at)
  BY <1>1, <1>2
<1> HIDE DEF at
<1> QED
  BY <1>1, <1>2, <1>3, SMT DEF at

(* What the branches have set by the next statement.                       *)
LEMMA AssignSets ==
  ASSUME Written, Shape, PlotAssign
  PROVE  \A i \in DOMAIN frames :
           /\ frames'[i].outer = frames[i].outer /\ frames'[i].then = frames[i].then
           /\ frames'[i].cond = frames[i].cond /\ frames'[i].args = frames[i].args
           /\ frames'[i].holds = frames[i].holds /\ frames'[i].live = frames[i].live
           /\ frames'[i].scope = frames[i].scope
           /\ SetBy(frames'[i]) = IF i = 1 THEN SetBy(frames[1]) \cup {stmt.attr}
                                           ELSE SetBy(frames[i])
<1> SUFFICES ASSUME NEW i \in DOMAIN frames
             PROVE  /\ frames'[i].outer = frames[i].outer /\ frames'[i].then = frames[i].then
                    /\ frames'[i].cond = frames[i].cond /\ frames'[i].args = frames[i].args
                    /\ frames'[i].holds = frames[i].holds /\ frames'[i].live = frames[i].live
                    /\ frames'[i].scope = frames[i].scope
                    /\ SetBy(frames'[i]) = IF i = 1 THEN SetBy(frames[1]) \cup {stmt.attr}
                                                    ELSE SetBy(frames[i])
  OBVIOUS
<1>1. CASE i # 1
  BY <1>1, AssignStep
<1>2. CASE i = 1
  <2>1. /\ frames'[1] = [frames[1] EXCEPT !.own = AddTo(@, stmt.attr),
                                          !.bound = @ \cup ({stmt.attr} \cap Locals)]
        /\ stmt.attr \in Vars
    BY <1>2, AssignStep
  <2>2. frames[1] \in Frame
    BY <1>2 DEF Shape
  <2>3. frames[1].own \in Seq(Vars)
    BY <2>2 DEF Frame
  <2>4. Range(AddTo(frames[1].own, stmt.attr)) = Range(frames[1].own) \cup {stmt.attr}
    BY <2>1, <2>3, AddToAdds
  <2>5. frames'[1].own = AddTo(frames[1].own, stmt.attr) /\ frames'[1].nested = frames[1].nested
    BY <2>1, <2>2 DEF Frame
  <2>6. SetBy(frames'[1]) = SetBy(frames[1]) \cup {stmt.attr}
    BY <2>4, <2>5 DEF SetBy
  <2> QED
    BY <1>2, <2>1, <2>2, <2>6 DEF Frame
<1> QED
  BY <1>1, <1>2

LEMMA ElseSets ==
  ASSUME Written, Shape, PlotElse
  PROVE  \A i \in DOMAIN frames :
           /\ frames'[i].outer = frames[i].outer
           /\ frames'[i].cond = frames[i].cond /\ frames'[i].args = frames[i].args
           /\ frames'[i].holds = frames[i].holds /\ frames'[i].live = frames[i].live
           /\ frames'[i].then = IF i = 1 THEN outputs ELSE frames[i].then
           /\ SetBy(frames'[i]) = SetBy(frames[i])
<1> SUFFICES ASSUME NEW i \in DOMAIN frames
             PROVE  /\ frames'[i].outer = frames[i].outer
                    /\ frames'[i].cond = frames[i].cond /\ frames'[i].args = frames[i].args
                    /\ frames'[i].holds = frames[i].holds /\ frames'[i].live = frames[i].live
                    /\ frames'[i].then = IF i = 1 THEN outputs ELSE frames[i].then
                    /\ SetBy(frames'[i]) = SetBy(frames[i])
  OBVIOUS
<1>1. CASE i # 1
  BY <1>1, ElseStep
<1>2. CASE i = 1
  <2>1. frames'[1] = [frames[1] EXCEPT
              !.then = outputs,
              !.scope = (frames[1].args \cap Locals) \cup AssignedIn(At(pc)[1].id, "else"),
              !.bound = frames[1].args \cap Locals]
    BY ElseStep
  <2>2. frames[1] \in Frame
    BY <1>2 DEF Shape
  <2>3. frames'[1].own = frames[1].own /\ frames'[1].nested = frames[1].nested
    BY <2>1, <2>2 DEF Frame
  <2> QED
    BY <1>2, <2>1, <2>2, <2>3 DEF Frame, SetBy
<1> QED
  BY <1>1, <1>2

LEMMA EndIfSets ==
  ASSUME Written, Shape, PlotEndIf
  PROVE  /\ SetBy(frames[1]) = Range(Targets(frames[1]))
         /\ \A i \in DOMAIN frames' :
              /\ frames'[i].outer = frames[i + 1].outer /\ frames'[i].then = frames[i + 1].then
              /\ frames'[i].cond = frames[i + 1].cond /\ frames'[i].args = frames[i + 1].args
              /\ frames'[i].holds = frames[i + 1].holds /\ frames'[i].live = frames[i + 1].live
              /\ frames'[i].scope = frames[i + 1].scope
              /\ At(pc)'[i] = At(pc)[i + 1]
              /\ SetBy(frames'[i]) = IF i = 1 THEN SetBy(frames[2]) \cup SetBy(frames[1])
                                              ELSE SetBy(frames[i + 1])
<1>1. SetBy(frames[1]) = Range(Targets(frames[1]))
  BY EndIfStep DEF SetBy
<1> SUFFICES ASSUME NEW i \in DOMAIN frames'
             PROVE  /\ frames'[i].outer = frames[i + 1].outer /\ frames'[i].then = frames[i + 1].then
                    /\ frames'[i].cond = frames[i + 1].cond /\ frames'[i].args = frames[i + 1].args
                    /\ frames'[i].holds = frames[i + 1].holds /\ frames'[i].live = frames[i + 1].live
                    /\ frames'[i].scope = frames[i + 1].scope
                    /\ At(pc)'[i] = At(pc)[i + 1]
                    /\ SetBy(frames'[i]) = IF i = 1 THEN SetBy(frames[2]) \cup SetBy(frames[1])
                                                    ELSE SetBy(frames[i + 1])
  BY <1>1
<1>2. At(pc)'[i] = At(pc)[i + 1]
  <2> DEFINE at == At(pc)
  <2>1. /\ At(pc)' = Tail(at) /\ frames' \in Seq(Frame) /\ Len(frames') = Len(frames) - 1
        /\ 1 \in DOMAIN frames
    BY EndIfStep
  <2>2. at \in Seq(Branch) /\ Len(frames) = Len(at) /\ DOMAIN frames = 1 .. Len(frames)
    BY FramesAt
  <2> HIDE DEF at
  <2>3. Len(at) \in Nat /\ Len(at) # 0 /\ at # <<>>
    BY <2>1, <2>2, SMT
  <2>4. DOMAIN Tail(at) = 1 .. Len(frames) - 1
    BY <2>2, <2>3, SMT
  <2>5. DOMAIN frames' = 1 .. Len(frames) - 1
    BY <2>1
  <2>6. i \in DOMAIN At(pc)'
    BY <2>1, <2>4, <2>5
  <2> QED
    BY <2>6, EndIfStep
<1>3. CASE i # 1
  BY <1>2, <1>3, EndIfStep
<1>4. CASE i = 1
  <2>1. /\ frames'[1] = [frames[2] EXCEPT
                 !.nested = @ \o Without(Targets(frames[1]), Range(@)),
                 !.bound = @ \cup (Range(Targets(frames[1])) \cap Locals)]
        /\ frames[2] \in Frame /\ 2 \in DOMAIN frames /\ i + 1 = 2
        /\ Targets(frames[1]) \in Seq(Vars) /\ Once(Targets(frames[1]))
    BY <1>4, EndIfStep
  <2>2. frames[2].nested \in Seq(Vars) /\ Once(frames[2].nested)
    BY <2>1 DEF Frame, Shape, SaneFrame
  <2>3. Range(frames[2].nested \o Without(Targets(frames[1]), Range(frames[2].nested)))
          = Range(frames[2].nested) \cup Range(Targets(frames[1]))
    BY <2>1, <2>2, MergedOnce
  <2>4. /\ frames'[1].own = frames[2].own
        /\ frames'[1].nested
             = frames[2].nested \o Without(Targets(frames[1]), Range(frames[2].nested))
    BY <2>1 DEF Frame
  <2>5. SetBy(frames'[1]) = SetBy(frames[2]) \cup SetBy(frames[1])
    BY <1>1, <2>3, <2>4 DEF SetBy
  <2> QED
    BY <1>2, <1>4, <2>1, <2>5 DEF Frame
<1> QED
  BY <1>3, <1>4

LEMMA IfSets ==
  ASSUME Written, Shape, PlotIf
  PROVE  /\ SetBy(frames'[1]) = {}
         /\ frames'[1].outer = outputs /\ frames'[1].live = live /\ frames'[1].holds = live'
         /\ frames'[1].cond = Holds(stmt.attr, stmt.val)
         /\ frames'[1].args = BaseInSyms(pc)
         /\ frames'[1].scope = (BaseInSyms(pc) \cap Locals) \cup AssignedIn(pc, "if")
         /\ frames'[1].bound = BaseInSyms(pc) \cap Locals
         /\ At(pc)'[1] = [id |-> pc, branch |-> "if"]
         /\ \A i \in DOMAIN frames : At(pc)'[i + 1] = At(pc)[i]
<1> DEFINE holds == {s \in live : source[s][stmt.attr] = stmt.val}
           at == At(pc)
           e == [id |-> pc, branch |-> "if"]
<1>1. /\ frames'[1] =
           [cond |-> Holds(stmt.attr, stmt.val),
            args |-> BaseInSyms(pc), outer |-> outputs, then |-> outputs,
            own |-> <<>>, nested |-> <<>>, holds |-> holds, live |-> live,
            scope |-> (BaseInSyms(pc) \cap Locals) \cup AssignedIn(pc, "if"),
            bound |-> BaseInSyms(pc) \cap Locals]
      /\ live' = holds
      /\ At(pc)' = <<e>> \o at
  BY IfStep
<1>2. at \in Seq(Branch) /\ DOMAIN frames = DOMAIN at
  BY FramesAt
<1> HIDE DEF holds, at, e
<1>3. (<<e>> \o at)[1] = e /\ \A i \in DOMAIN at : (<<e>> \o at)[i + 1] = at[i]
  BY <1>2, SMT
<1>4. At(pc)'[1] = e /\ \A i \in DOMAIN frames : At(pc)'[i + 1] = at[i]
  BY <1>1, <1>2, <1>3
<1>5. Range(<<>>) = {}
  BY SMT DEF Range
<1>6. SetBy(frames'[1]) = {}
  BY <1>1, <1>5 DEF SetBy
<1>7. /\ frames'[1].outer = outputs /\ frames'[1].live = live /\ frames'[1].holds = live'
      /\ frames'[1].cond = Holds(stmt.attr, stmt.val)
      /\ frames'[1].args = BaseInSyms(pc)
      /\ frames'[1].scope = (BaseInSyms(pc) \cap Locals) \cup AssignedIn(pc, "if")
      /\ frames'[1].bound = BaseInSyms(pc) \cap Locals
  BY <1>1
<1> QED
  BY <1>4, <1>6, <1>7, Zenon DEF at, e

(* The other steps leave what is recorded alone.                           *)
OtherStep ==
  \/ \E s : Write(s)
  \/ Compile \/ PlotRaises \/ Graph \/ UNCHANGED vars \/ Mutate

LEMMA Steps ==
  ASSUME [Next]_vars
  PROVE  PlotAssign \/ PlotIf \/ PlotElse \/ PlotEndIf \/ OtherStep
BY DEF Next, WriteAssign, WriteIf, WriteElse, WriteEndIf, OtherStep

LEMMA NothingRecorded ==
  ASSUME Written, Written', OtherStep
  PROVE  UNCHANGED <<source, live, outputs, inputs, frames, ignored, leaked, pc, words, At(pc)>>
<1>1. UNCHANGED <<source, live, outputs, inputs, frames, ignored, leaked, pc, words>>
  BY DEF OtherStep, Write, Compile, PlotRaises, Graph, Mutate, vars,
         python, recorded, engine, flaws
<1>2. ASSUME NEW s, Write(s) PROVE At(pc)' = At(pc)
  <2>1. phase = "write" /\ phase' = "write"
    BY <1>2 DEF Write
  <2>2. pc = 1 /\ pc' = 1 /\ At(1) = <<>> /\ At(1)' = <<>>
    BY <2>1 DEF Written
  <2> QED
    BY <2>2 DEF At
<1>3. CASE UNCHANGED <<prog, open>>
  BY <1>1, <1>3 DEF At
<1>4. (\E s : Write(s)) \/ UNCHANGED <<prog, open>>
  BY DEF OtherStep, Compile, PlotRaises, Graph, Mutate, vars
<1> QED
  BY <1>1, <1>2, <1>3, <1>4

LEMMA UntouchedStep ==
  ASSUME Written, Written', Shape, Untouched, [Next]_vars
  PROVE  Untouched'
<1>1. ASSUME UNCHANGED <<outputs, frames>> PROVE Untouched'
  BY <1>1 DEF Untouched, OutsIn
<1>2. CASE PlotAssign
  <2> SUFFICES ASSUME NEW i \in DOMAIN frames', NEW a \in Vars, a \notin SetBy(frames'[i])
               PROVE  GetAttr(OutsIn(i)', a) = GetAttr(frames'[i].outer, a)
    BY DEF Untouched
  <2>1. i \in DOMAIN frames /\ frames \in Seq(Frame)
    BY <1>2, AssignStep DEF Shape
  <2>2. a \notin SetBy(frames[i]) /\ frames'[i].outer = frames[i].outer
    BY <1>2, <2>1, AssignSets
  <2>3. GetAttr(OutsIn(i), a) = GetAttr(frames[i].outer, a)
    BY <2>1, <2>2 DEF Untouched
  <2>4. CASE i = 1
    <3>1. a # stmt.attr
      BY <1>2, <2>1, <2>4, AssignSets
    <3>2. GetAttr(outputs', a) = GetAttr(outputs, a)
      BY <1>2, <3>1, AssignStep, SetAttrGets
    <3> QED
      BY <2>2, <2>3, <2>4, <3>2 DEF OutsIn
  <2>5. CASE i # 1
    <3>1. i - 1 \in DOMAIN frames
      BY <2>1, <2>5, SMT
    <3>2. OutsIn(i)' = OutsIn(i)
      BY <1>2, <2>5, <3>1, AssignSets DEF OutsIn
    <3> QED
      BY <2>2, <2>3, <3>2
  <2> QED
    BY <2>4, <2>5
<1>3. CASE PlotIf
  <2> SUFFICES ASSUME NEW i \in DOMAIN frames', NEW a \in Vars, a \notin SetBy(frames'[i])
               PROVE  GetAttr(OutsIn(i)', a) = GetAttr(frames'[i].outer, a)
    BY DEF Untouched
  <2>1. CASE i = 1
    BY <1>3, <2>1, IfStep DEF OutsIn
  <2>2. CASE i # 1
    <3>1. i - 1 \in DOMAIN frames /\ frames'[i] = frames[i - 1]
      BY <1>3, <2>2, IfStep
    <3>2. OutsIn(i)' = OutsIn(i - 1)
      <4>1. i \in Nat /\ frames \in Seq(Frame)
        BY <1>3, IfStep DEF Shape
      <4>2. CASE i = 2
        BY <1>3, <4>2, IfStep DEF OutsIn
      <4>3. CASE i # 2
        <5>1. i - 1 # 1 /\ i - 1 \in DOMAIN frames'
          BY <1>3, <2>2, <4>1, <4>3, IfStep, SMT
        <5>2. frames'[i - 1] = frames[(i - 1) - 1]
          BY <1>3, <5>1, IfStep
        <5> QED
          BY <2>2, <5>1, <5>2 DEF OutsIn
      <4> QED
        BY <4>2, <4>3
    <3> QED
      BY <3>1, <3>2 DEF Untouched
  <2> QED
    BY <2>1, <2>2
<1>4. CASE PlotElse
  <2> SUFFICES ASSUME NEW i \in DOMAIN frames', NEW a \in Vars, a \notin SetBy(frames'[i])
               PROVE  GetAttr(OutsIn(i)', a) = GetAttr(frames'[i].outer, a)
    BY DEF Untouched
  <2>1. i \in DOMAIN frames /\ frames \in Seq(Frame)
    BY <1>4, ElseStep DEF Shape
  <2>2. a \notin SetBy(frames[i]) /\ frames'[i].outer = frames[i].outer
    BY <1>4, <2>1, ElseSets
  <2>3. GetAttr(OutsIn(i), a) = GetAttr(frames[i].outer, a)
    BY <2>1, <2>2 DEF Untouched
  <2>4. CASE i = 1
    <3>1. GetAttr(outputs, a) = GetAttr(frames[1].outer, a)
      BY <2>3, <2>4 DEF OutsIn
    <3>2. GetAttr(Outside(frames[1]), a) = GetAttr(frames[1].outer, a)
      BY <3>1, OutsideGets
    <3> QED
      BY <1>4, <2>2, <2>4, <3>2, ElseStep DEF OutsIn
  <2>5. CASE i # 1
    <3>1. i - 1 \in DOMAIN frames
      BY <2>1, <2>5, SMT
    <3>2. OutsIn(i)' = OutsIn(i)
      BY <1>4, <2>5, <3>1, ElseSets DEF OutsIn
    <3> QED
      BY <2>2, <2>3, <3>2
  <2> QED
    BY <2>4, <2>5
<1>5. CASE PlotEndIf
  <2> SUFFICES ASSUME NEW i \in DOMAIN frames', NEW a \in Vars, a \notin SetBy(frames'[i])
               PROVE  GetAttr(OutsIn(i)', a) = GetAttr(frames'[i].outer, a)
    BY DEF Untouched
  <2>1. i + 1 \in DOMAIN frames /\ frames \in Seq(Frame) /\ frames' \in Seq(Frame)
    BY <1>5, EndIfStep DEF Shape
  <2>2. i \in Nat \ {0} /\ i + 1 # 1 /\ (i + 1) - 1 = i
    BY <2>1, SMT
  <2>3. a \notin SetBy(frames[i + 1]) /\ frames'[i].outer = frames[i + 1].outer
    <3>1. i = 1 => i + 1 = 2
      OBVIOUS
    <3> QED
      BY <1>5, <2>2, <3>1, EndIfSets
  <2>4. GetAttr(frames[i].outer, a) = GetAttr(frames[i + 1].outer, a)
    BY <2>1, <2>2, <2>3 DEF Untouched, OutsIn
  <2>5. CASE i = 1
    <3>1. 1 \in DOMAIN frames /\ a \notin SetBy(frames[1]) /\ a \notin Range(Targets(frames[1]))
      BY <1>5, <2>5, EndIfSets, EndIfStep
    <3>2. GetAttr(outputs, a) = GetAttr(frames[1].outer, a)
      BY <3>1 DEF Untouched, OutsIn
    <3>3. GetAttr(outputs', a) = GetAttr(frames[1].outer, a)
      BY <1>5, <3>1, <3>2, OutsideGets, SetAllGets, EndIfStep
    <3> QED
      BY <2>3, <2>4, <2>5, <3>3 DEF OutsIn
  <2>6. CASE i # 1
    <3>1. i - 1 \in DOMAIN frames' /\ (i - 1) + 1 = i
      BY <2>1, <2>2, <2>6, SMT
    <3>2. OutsIn(i)' = frames[i].outer
      BY <1>5, <2>6, <3>1, EndIfSets DEF OutsIn
    <3> QED
      BY <2>3, <2>4, <3>2
  <2> QED
    BY <2>5, <2>6
<1> QED
  BY <1>1, <1>2, <1>3, <1>4, <1>5, Steps, NothingRecorded

(* Recording is sound where Python gets to the branch being traced.        *)
Agrees(outs, at, attrs) ==
  \A s \in at, a \in attrs : GetAttr(outs, a).value[s] = source[s][a]

(* And still does after a step.                                            *)
AgreesThen(outs, at, attrs) ==
  \A s \in at, a \in attrs : GetAttr(outs, a).value[s] = source'[s][a]

Lives ==
  /\ LiveIn(Len(frames) + 1) = Snapshots
  /\ \A i, k \in 1 .. Len(frames) + 1 : i <= k => LiveIn(i) \subseteq LiveIn(k)
  /\ \A i \in DOMAIN frames :
       LiveIn(i) = IF At(pc)[i].branch = "if" THEN frames[i].holds
                                              ELSE frames[i].live \ frames[i].holds

Sound(i) ==
  LET f == frames[i] IN
  /\ f.cond \cap f.live = f.holds
  /\ Agrees(f.outer, f.live, Vars \ Touched(i))
  /\ At(pc)[i].branch = "if"   => Agrees(f.outer, f.live \ f.holds, Vars)
  /\ At(pc)[i].branch = "else" => Agrees(f.then, f.holds, Vars)

SoundSoFar ==
  ~ignored /\ ~leaked =>
    /\ Agrees(outputs, live, Vars)
    /\ \A i \in DOMAIN frames : Sound(i)

LEMMA LivesStep ==
  ASSUME Written, Written', Shape, Lives, [Next]_vars
  PROVE  Lives'
<1>1. /\ frames \in Seq(Frame) /\ Len(frames) \in Nat /\ DOMAIN frames = 1 .. Len(frames)
      /\ DOMAIN frames = DOMAIN At(pc)
  BY FramesAt
<1>2. ASSUME OtherStep PROVE Lives'
  BY <1>2, NothingRecorded DEF Lives, LiveIn
<1>3. CASE PlotAssign
  <2>1. DOMAIN frames' = DOMAIN frames /\ Len(frames') = Len(frames) /\ At(pc)' = At(pc)
    BY <1>3, AssignStep
  <2>2. \A i \in 1 .. Len(frames) + 1 : LiveIn(i)' = LiveIn(i)
    <3> SUFFICES ASSUME NEW i \in 1 .. Len(frames) + 1 PROVE LiveIn(i)' = LiveIn(i)
      OBVIOUS
    <3>1. CASE i = 1
      BY <1>3, <3>1, AssignStep DEF LiveIn
    <3>2. CASE i # 1
      <4>1. i - 1 \in DOMAIN frames
        BY <1>1, <3>2, SMT
      <4> QED
        BY <1>3, <3>2, <4>1, AssignSets DEF LiveIn
    <3> QED
      BY <3>1, <3>2
  <2>3. DOMAIN frames \subseteq 1 .. Len(frames) + 1 /\ Len(frames) + 1 \in 1 .. Len(frames) + 1
    BY <1>1, SMT
  <2>4. LiveIn(Len(frames) + 1)' = Snapshots
    BY <2>1, <2>2, <2>3 DEF Lives, LiveIn
  <2>5. \A i \in DOMAIN frames' :
          LiveIn(i)' = IF At(pc)'[i].branch = "if" THEN frames'[i].holds
                                                   ELSE frames'[i].live \ frames'[i].holds
    BY <1>3, <2>1, <2>2, <2>3, AssignSets DEF Lives
  <2> QED
    BY <2>1, <2>2, <2>4, <2>5 DEF Lives
<1>4. CASE PlotIf
  <2>1. /\ DOMAIN frames' = 1 .. Len(frames) + 1 /\ Len(frames') = Len(frames) + 1
        /\ live' \subseteq live
    BY <1>4, IfStep
  <2>2. \A i \in 1 .. Len(frames') + 1 : i # 1 =>
          i - 1 \in 1 .. Len(frames) + 1 /\ LiveIn(i)' = LiveIn(i - 1)
    <3> SUFFICES ASSUME NEW i \in 1 .. Len(frames') + 1, i # 1
                 PROVE  i - 1 \in 1 .. Len(frames) + 1 /\ LiveIn(i)' = LiveIn(i - 1)
      OBVIOUS
    <3>1. i - 1 \in DOMAIN frames' /\ i - 1 \in 1 .. Len(frames) + 1
      BY <1>1, <2>1, SMT
    <3>2. CASE i = 2
      BY <1>4, <3>1, <3>2, IfStep DEF LiveIn
    <3>3. CASE i # 2
      <4>1. i - 1 # 1
        BY <1>1, <2>1, <3>3, SMT
      <4>2. frames'[i - 1] = frames[(i - 1) - 1]
        BY <1>4, <3>1, <4>1, IfStep
      <4> QED
        BY <3>1, <4>1, <4>2 DEF LiveIn
    <3> QED
      BY <3>2, <3>3
  <2>3. LiveIn(1)' \subseteq LiveIn(1)
    BY <2>1 DEF LiveIn
  <2>4. LiveIn(Len(frames) + 1)' = Snapshots
    <3>1. Len(frames') + 1 \in 1 .. Len(frames') + 1 /\ Len(frames') + 1 # 1
          /\ (Len(frames') + 1) - 1 = Len(frames) + 1
      BY <1>1, <2>1, SMT
    <3> QED
      BY <2>2, <3>1 DEF Lives, LiveIn
  <2>5. ASSUME NEW i \in 1 .. Len(frames') + 1, NEW k \in 1 .. Len(frames') + 1, i <= k
        PROVE  LiveIn(i)' \subseteq LiveIn(k)'
    <3>1. CASE i # 1
      <4>1. k # 1 /\ i - 1 <= k - 1
        BY <1>1, <2>1, <2>5, <3>1, SMT
      <4> QED
        BY <2>2, <3>1, <4>1 DEF Lives
    <3>2. CASE i = 1 /\ k # 1
      <4>1. 1 \in 1 .. Len(frames) + 1 /\ 1 <= k - 1
        BY <1>1, <2>1, <3>2, SMT
      <4>2. LiveIn(1) \subseteq LiveIn(k - 1)
        BY <2>2, <3>2, <4>1 DEF Lives
      <4> QED
        BY <2>2, <2>3, <3>2, <4>2
    <3>3. CASE i = 1 /\ k = 1
      BY <3>3
    <3> QED
      BY <3>1, <3>2, <3>3
  <2>6. ASSUME NEW i \in DOMAIN frames'
        PROVE  LiveIn(i)' = IF At(pc)'[i].branch = "if" THEN frames'[i].holds
                                                   ELSE frames'[i].live \ frames'[i].holds
    <3>1. CASE i = 1
      BY <1>4, <3>1, IfSets DEF LiveIn
    <3>2. CASE i # 1
      <4>1. i - 1 \in DOMAIN frames /\ frames'[i] = frames[i - 1]
        BY <1>4, <3>2, IfStep
      <4>2. (i - 1) + 1 = i /\ i \in 1 .. Len(frames') + 1
        BY <1>1, <2>1, SMT
      <4>3. At(pc)'[i] = At(pc)[i - 1]
        BY <1>4, <4>1, <4>2, IfSets
      <4> QED
        BY <2>2, <3>2, <4>1, <4>2, <4>3 DEF Lives
    <3> QED
      BY <3>1, <3>2
  <2> QED
    BY <2>4, <2>5, <2>6 DEF Lives
<1>5. CASE PlotElse
  <2>1. /\ DOMAIN frames' = DOMAIN frames /\ Len(frames') = Len(frames) /\ 1 \in DOMAIN frames
        /\ live' = frames[1].live \ frames[1].holds
    BY <1>5, ElseStep
  <2>2. \A i \in 1 .. Len(frames) + 1 : i # 1 => LiveIn(i)' = LiveIn(i)
    <3> SUFFICES ASSUME NEW i \in 1 .. Len(frames) + 1, i # 1 PROVE LiveIn(i)' = LiveIn(i)
      OBVIOUS
    <3>1. i - 1 \in DOMAIN frames
      BY <1>1, SMT
    <3> QED
      BY <1>5, <3>1, ElseSets DEF LiveIn
  <2>3. /\ DOMAIN frames \subseteq 1 .. Len(frames) + 1 /\ Len(frames) + 1 \in 1 .. Len(frames) + 1
        /\ Len(frames) + 1 # 1 /\ 2 \in 1 .. Len(frames) + 1
    BY <1>1, <2>1, SMT
  <2>4. LiveIn(Len(frames) + 1)' = Snapshots
    BY <2>1, <2>2, <2>3 DEF Lives, LiveIn
  <2>5. LiveIn(1)' \subseteq LiveIn(2) /\ LiveIn(2) = frames[1].live
    BY <2>1 DEF LiveIn
  <2>6. ASSUME NEW i \in 1 .. Len(frames) + 1, NEW k \in 1 .. Len(frames) + 1, i <= k
        PROVE  LiveIn(i)' \subseteq LiveIn(k)'
    <3>1. CASE i # 1
      <4>1. k # 1
        BY <2>6, <3>1, SMT
      <4> QED
        BY <2>2, <2>6, <3>1, <4>1 DEF Lives
    <3>2. CASE i = 1 /\ k # 1
      <4>1. 2 <= k
        BY <3>2, SMT
      <4>2. LiveIn(2) \subseteq LiveIn(k)
        BY <2>3, <4>1 DEF Lives
      <4> QED
        BY <2>2, <2>5, <3>2, <4>2
    <3>3. CASE i = 1 /\ k = 1
      BY <3>3
    <3> QED
      BY <3>1, <3>2, <3>3
  <2>7. ASSUME NEW i \in DOMAIN frames'
        PROVE  LiveIn(i)' = IF At(pc)'[i].branch = "if" THEN frames'[i].holds
                                                   ELSE frames'[i].live \ frames'[i].holds
    <3>1. i \in DOMAIN frames
      BY <2>1
    <3>2. CASE i = 1
      BY <1>5, <2>1, <3>2, ElseStep, ElseSets DEF LiveIn
    <3>3. CASE i # 1
      <4>1. At(pc)'[i] = At(pc)[i] /\ frames'[i] = frames[i]
        BY <1>1, <1>5, <3>1, <3>3, ElseStep
      <4> QED
        BY <2>2, <2>3, <3>1, <3>3, <4>1 DEF Lives
    <3> QED
      BY <3>2, <3>3
  <2> QED
    BY <2>1, <2>4, <2>6, <2>7 DEF Lives
<1>6. CASE PlotEndIf
  <2>1. /\ Len(frames') = Len(frames) - 1 /\ 1 \in DOMAIN frames /\ frames' \in Seq(Frame)
        /\ live' = frames[1].live
    BY <1>6, EndIfStep
  <2>2. \A i \in 1 .. Len(frames') + 1 : i + 1 \in 1 .. Len(frames) + 1 /\ LiveIn(i)' = LiveIn(i + 1)
    <3> SUFFICES ASSUME NEW i \in 1 .. Len(frames') + 1
                 PROVE  i + 1 \in 1 .. Len(frames) + 1 /\ LiveIn(i)' = LiveIn(i + 1)
      OBVIOUS
    <3>1. i + 1 \in 1 .. Len(frames) + 1 /\ i + 1 # 1 /\ (i + 1) - 1 = i
      BY <1>1, <2>1, SMT
    <3>2. CASE i = 1
      BY <2>1, <3>1, <3>2 DEF LiveIn
    <3>3. CASE i # 1
      <4>1. i - 1 \in DOMAIN frames' /\ (i - 1) + 1 = i
        BY <1>1, <2>1, <3>3, SMT
      <4>2. frames'[i - 1].live = frames[i].live
        BY <1>6, <4>1, EndIfSets
      <4> QED
        BY <3>1, <3>3, <4>2 DEF LiveIn
    <3> QED
      BY <3>2, <3>3
  <2>3. LiveIn(Len(frames) + 1)' = Snapshots
    <3>1. /\ Len(frames') + 1 \in 1 .. Len(frames') + 1
          /\ (Len(frames') + 1) + 1 = Len(frames) + 1
      BY <1>1, <2>1, SMT
    <3> QED
      BY <2>2, <3>1 DEF Lives, LiveIn
  <2>4. ASSUME NEW i \in 1 .. Len(frames') + 1, NEW k \in 1 .. Len(frames') + 1, i <= k
        PROVE  LiveIn(i)' \subseteq LiveIn(k)'
    <3>1. i + 1 <= k + 1
      BY <2>4, SMT
    <3> QED
      BY <2>2, <3>1 DEF Lives
  <2>5. ASSUME NEW i \in DOMAIN frames'
        PROVE  LiveIn(i)' = IF At(pc)'[i].branch = "if" THEN frames'[i].holds
                                                   ELSE frames'[i].live \ frames'[i].holds
    <3>1. i + 1 \in DOMAIN frames
      BY <1>6, EndIfStep
    <3>2. i \in 1 .. Len(frames') + 1
      BY <1>1, <2>1, SMT
    <3>3. At(pc)'[i] = At(pc)[i + 1]
      BY <1>6, EndIfSets
    <3>4. frames'[i].holds = frames[i + 1].holds /\ frames'[i].live = frames[i + 1].live
      BY <1>6, EndIfSets
    <3> QED
      BY <2>2, <3>1, <3>2, <3>3, <3>4 DEF Lives
  <2> QED
    BY <2>3, <2>4, <2>5 DEF Lives
<1> QED
  BY <1>2, <1>3, <1>4, <1>5, <1>6, Steps

LEMMA SwitchGets ==
  ASSUME NEW cond, NEW true, NEW false, NEW s \in Snapshots
  PROVE  Switch(cond, true, false).value[s] = IF s \in cond THEN true.value[s] ELSE false.value[s]
BY DEF Switch

(* A node that is made of sound ones is sound.                             *)
LEMMA NodeSound ==
  ASSUME Agrees(outputs, live, Vars), NEW s \in live, s \in Snapshots, NEW expr \in Expr
  PROVE  NodeOf(expr).value[s] = ValueOf(expr, source[s])
<1>1. \A a \in Vars : GetAttr(outputs, a).value[s] = source[s][a]
  BY DEF Agrees
<1>2. CASE expr.op = "const"
  <2>1. NodeOf(expr) = Const(expr.val) /\ ValueOf(expr, source[s]) = expr.val
    BY <1>2, SMT DEF NodeOf, ValueOf
  <2>2. Const(expr.val).value[s] = expr.val
    BY DEF Const
  <2> QED
    BY <2>1, <2>2
<1>3. CASE expr.op = "var" /\ expr.from \in Vars
  <2>1. NodeOf(expr) = GetAttr(outputs, expr.from) /\ ValueOf(expr, source[s]) = source[s][expr.from]
    BY <1>3, SMT DEF NodeOf, ValueOf
  <2> QED
    BY <1>1, <1>3, <2>1
<1>4. CASE expr.op = "add" /\ expr.from \in Vars
  <2>1. /\ NodeOf(expr) = Add(GetAttr(outputs, expr.from), expr.val)
        /\ ValueOf(expr, source[s]) = (source[s][expr.from] + expr.val) % ValMod
    BY <1>4, SMT DEF NodeOf, ValueOf
  <2>2. Add(GetAttr(outputs, expr.from), expr.val).value[s]
          = (GetAttr(outputs, expr.from).value[s] + expr.val) % ValMod
    BY DEF Add
  <2> QED
    BY <1>1, <1>4, <2>1, <2>2
<1>5. CASE expr.op = "ternary" /\ expr.test \in Vars /\ expr.from \in Vars /\ expr.other \in Vars
  <2>1. /\ NodeOf(expr) = Switch(Holds(expr.test, expr.val),
                                 GetAttr(outputs, expr.from), GetAttr(outputs, expr.other))
        /\ ValueOf(expr, source[s]) = IF source[s][expr.test] = expr.val
                                        THEN source[s][expr.from] ELSE source[s][expr.other]
    BY <1>5, SMT DEF NodeOf, ValueOf
  <2>2. s \in Holds(expr.test, expr.val) <=> source[s][expr.test] = expr.val
    BY <1>1, <1>5 DEF Holds
  <2>3. Switch(Holds(expr.test, expr.val),
               GetAttr(outputs, expr.from), GetAttr(outputs, expr.other)).value[s]
          = IF s \in Holds(expr.test, expr.val)
              THEN GetAttr(outputs, expr.from).value[s] ELSE GetAttr(outputs, expr.other).value[s]
    BY SwitchGets
  <2> QED
    BY <1>1, <1>5, <2>1, <2>2, <2>3
<1> QED
  BY <1>2, <1>3, <1>4, <1>5, ExprReads

(* A conditional that a step only moves to another place stays sound.      *)
LEMMA SoundMoved ==
  ASSUME NEW i, NEW j, Sound(i), source' = source, Touched(i) \subseteq Touched(j)',
         At(pc)'[j].branch = At(pc)[i].branch,
         /\ frames'[j].cond = frames[i].cond /\ frames'[j].live = frames[i].live
         /\ frames'[j].holds = frames[i].holds
         /\ frames'[j].outer = frames[i].outer /\ frames'[j].then = frames[i].then
  PROVE  Sound(j)'
<1>1. AgreesThen(frames[i].outer, frames[i].live, Vars \ Touched(j)')
  BY DEF Sound, Agrees, AgreesThen
<1>2. \A outs, at : Agrees(outs, at, Vars) <=> AgreesThen(outs, at, Vars)
  BY DEF Agrees, AgreesThen
<1> QED
  BY <1>1, <1>2 DEF Sound, Agrees, AgreesThen

LEMMA SoundStep ==
  ASSUME Written, Written', Shape, Shape', Untouched, Lives, SoundSoFar, [Next]_vars
  PROVE  SoundSoFar'
<1>1. /\ frames \in Seq(Frame) /\ Len(frames) \in Nat /\ DOMAIN frames = 1 .. Len(frames)
      /\ live \subseteq Snapshots /\ source \in [Snapshots -> [Vars -> Vals]]
      /\ Sane(outputs, inputs)
  BY FramesAt DEF Shape
(* Where the code being traced runs is within the branches around it.      *)
<1>2. \A i \in DOMAIN frames :
        live \subseteq IF At(pc)[i].branch = "if" THEN frames[i].holds
                                                  ELSE frames[i].live \ frames[i].holds
  <2> SUFFICES ASSUME NEW i \in DOMAIN frames PROVE live \subseteq LiveIn(i)
    BY DEF Lives
  <2>1. 1 \in 1 .. Len(frames) + 1 /\ i \in 1 .. Len(frames) + 1 /\ 1 <= i
    BY <1>1, SMT
  <2> QED
    BY <2>1 DEF Lives, LiveIn
<1>3. ASSUME OtherStep PROVE SoundSoFar'
  BY <1>3, NothingRecorded DEF SoundSoFar, Sound, Agrees, Touched
<1>4. ASSUME PlotAssign, ~ignored', ~leaked'
      PROVE  Agrees(outputs, live, Vars)' /\ \A i \in DOMAIN frames' : Sound(i)'
  <2> DEFINE a == stmt.attr
             expr == stmt.expr
             node == NodeOf(expr)
  <2>1. /\ a \in Vars /\ expr \in Expr /\ live' = live
        /\ ~ignored /\ ~leaked /\ ~(node.plain = a /\ a \in Recorded(outputs))
        /\ outputs' = SetAttr(outputs, a, node)
        /\ At(pc)' = At(pc) /\ DOMAIN frames' = DOMAIN frames
    <3>1. /\ a \in Vars /\ expr \in Expr /\ live' = live
          /\ outputs' = SetAttr(outputs, a, node)
          /\ At(pc)' = At(pc) /\ DOMAIN frames' = DOMAIN frames
      BY <1>4, AssignStep
    <3>2. /\ ignored' = (ignored \/ (node.plain = a /\ a \in Recorded(outputs)))
          /\ leaked' = leaked
      BY <1>4, AssignStep
    <3>3. ~ignored /\ ~leaked /\ ~(node.plain = a /\ a \in Recorded(outputs))
      BY <1>4, <3>2, Zenon
    <3> QED
      BY <3>1, <3>3
  <2>2. Agrees(outputs, live, Vars) /\ \A i \in DOMAIN frames : Sound(i)
    BY <2>1 DEF SoundSoFar
  <2>3. \A s \in live : node.value[s] = ValueOf(expr, source[s])
    BY <1>1, <2>1, <2>2, NodeSound
  <2>4. \A s \in Snapshots, b \in Vars :
          source'[s][b] = IF b = a /\ s \in live THEN ValueOf(expr, source[s]) ELSE source[s][b]
    <3>1. source' = [s \in Snapshots |->
                         IF s \in live
                           THEN [source[s] EXCEPT ![a] = ValueOf(expr, source[s])]
                           ELSE source[s]]
      BY <1>4, AssignStep
    <3> HIDE DEF a, expr
    <3> QED
      BY <1>1, <3>1
  <2>5. \A b \in Vars :
          GetAttr(outputs', b) = IF b = a /\ node.plain # a THEN node ELSE GetAttr(outputs, b)
    BY <2>1, SetAttrGets
(* What is ignored is what the variable holds anyway.                      *)
  <2>6. node.plain = a => GetAttr(outputs, a) = node
    <3> SUFFICES ASSUME node.plain = a PROVE GetAttr(outputs, a) = node
      OBVIOUS
    <3>1. GetAttr(outputs, a) = Retrieve(a)
      BY <2>1 DEF GetAttr
    <3>2. Clean(node, inputs')
      <4>1. inputs' = inputs \cup (ReadBy(expr) \ Recorded(outputs))
        BY <1>4, AssignStep
      <4>2. Sane(outputs, inputs')
        BY <1>1, <4>1, CleanMore
      <4>3. ReadBy(expr) \subseteq Recorded(outputs) \cup inputs'
        BY <4>1
      <4> QED
        BY <2>1, <4>2, <4>3, NodeOfClean
    <3>3. a # NoAttr
      BY <2>1, NoAttrAssumption
    <3> HIDE DEF node, a
    <3>4. node = Retrieve(node.plain)
      BY <3>2, <3>3 DEF Clean
    <3> QED
      BY <3>1, <3>4
  <2> HIDE DEF node, a, expr
  <2>7. Agrees(outputs, live, Vars)'
    <3> SUFFICES ASSUME NEW s \in live, NEW b \in Vars
                 PROVE  GetAttr(outputs', b).value[s] = source'[s][b]
      BY <2>1 DEF Agrees
    <3>1. s \in Snapshots /\ GetAttr(outputs, b).value[s] = source[s][b]
      BY <1>1, <2>2 DEF Agrees
    <3>2. CASE b = a
      <4>1. GetAttr(outputs', b) = node
        BY <2>5, <2>6, <3>2
      <4> QED
        BY <2>3, <2>4, <3>1, <3>2, <4>1
    <3>3. CASE b # a
      BY <2>4, <2>5, <3>1, <3>3
    <3> QED
      BY <3>2, <3>3
  <2>8. ASSUME NEW i \in DOMAIN frames' PROVE Sound(i)'
    <3>1. /\ i \in DOMAIN frames /\ Sound(i)
          /\ frames'[i].outer = frames[i].outer /\ frames'[i].then = frames[i].then
          /\ frames'[i].cond = frames[i].cond
          /\ frames'[i].holds = frames[i].holds /\ frames'[i].live = frames[i].live
      BY <1>4, <2>1, <2>2, AssignSets
    <3>2. frames[i].live \subseteq Snapshots /\ frames[i].holds \subseteq Snapshots
      <4>1. frames[i] \in Frame
        BY <1>1, <3>1
      <4> QED
        BY <4>1 DEF Frame
    <3>3. Touched(i) \cup {a} \subseteq Touched(i)'
      <4>1. \A k \in 1 .. i : k \in DOMAIN frames /\ 1 \in 1 .. i /\ 1 \in DOMAIN frames
        BY <1>1, <3>1, SMT
      <4>2. \A k \in 1 .. i : SetBy(frames[k]) \subseteq SetBy(frames'[k])
        BY <1>4, <4>1, AssignSets
      <4>3. 1 \in 1 .. i /\ a \in SetBy(frames'[1])
        <5>1. 1 \in 1 .. i /\ 1 \in DOMAIN frames
          BY <1>1, <3>1, SMT
        <5> QED
          BY <1>4, <5>1, AssignSets DEF a
      <4> QED
        BY <4>2, <4>3 DEF Touched
    <3>4. AgreesThen(frames[i].outer, frames[i].live, Vars \ Touched(i)')
      <4> SUFFICES ASSUME NEW s \in frames[i].live, NEW b \in Vars \ Touched(i)'
                   PROVE  GetAttr(frames[i].outer, b).value[s] = source'[s][b]
        BY DEF AgreesThen
      <4>1. b # a /\ b \notin Touched(i)
        BY <3>3
      <4> QED
        BY <2>4, <3>1, <3>2, <4>1 DEF Sound, Agrees
(* The branch that is not being traced keeps what it made of them.         *)
    <3>5. ASSUME NEW outs, NEW at \in SUBSET Snapshots, at \cap live = {}, Agrees(outs, at, Vars)
          PROVE  AgreesThen(outs, at, Vars)
      <4> SUFFICES ASSUME NEW s \in at, NEW b \in Vars
                   PROVE  GetAttr(outs, b).value[s] = source'[s][b]
        BY DEF AgreesThen
      <4>1. source'[s][b] = source[s][b]
        BY <2>4, <3>5
      <4> QED
        BY <3>5, <4>1 DEF Agrees
    <3>6. At(pc)[i].branch = "if" => AgreesThen(frames[i].outer, frames[i].live \ frames[i].holds, Vars)
      <4> SUFFICES ASSUME At(pc)[i].branch = "if"
                   PROVE  AgreesThen(frames[i].outer, frames[i].live \ frames[i].holds, Vars)
        OBVIOUS
      <4>1. (frames[i].live \ frames[i].holds) \cap live = {}
        BY <1>2, <3>1
      <4>2. Agrees(frames[i].outer, frames[i].live \ frames[i].holds, Vars)
        BY <3>1 DEF Sound
      <4> QED
        BY <3>2, <3>5, <4>1, <4>2
    <3>7. At(pc)[i].branch = "else" => AgreesThen(frames[i].then, frames[i].holds, Vars)
      <4> SUFFICES ASSUME At(pc)[i].branch = "else"
                   PROVE  AgreesThen(frames[i].then, frames[i].holds, Vars)
        OBVIOUS
      <4>1. frames[i].holds \cap live = {}
        BY <1>2, <3>1
      <4>2. Agrees(frames[i].then, frames[i].holds, Vars)
        BY <3>1 DEF Sound
      <4> QED
        BY <3>2, <3>5, <4>1, <4>2
    <3> QED
      BY <2>1, <3>1, <3>4, <3>6, <3>7 DEF Sound, Agrees, AgreesThen
  <2> QED
    BY <2>7, <2>8
<1>5. ASSUME PlotIf, ~ignored', ~leaked'
      PROVE  Agrees(outputs, live, Vars)' /\ \A i \in DOMAIN frames' : Sound(i)'
  <2>1. /\ ~ignored /\ ~leaked /\ UNCHANGED <<source, outputs>>
        /\ live' = {s \in live : source[s][stmt.attr] = stmt.val} /\ stmt.attr \in Vars
    BY <1>5, IfStep
  <2>2. Agrees(outputs, live, Vars) /\ \A i \in DOMAIN frames : Sound(i)
    BY <2>1 DEF SoundSoFar
  <2>3. Agrees(outputs, live, Vars)'
    BY <2>1, <2>2 DEF Agrees
  <2>4. Sound(1)'
    <3>1. /\ frames'[1].outer = outputs /\ frames'[1].live = live /\ frames'[1].holds = live'
          /\ frames'[1].cond = Holds(stmt.attr, stmt.val) /\ At(pc)'[1].branch = "if"
      BY <1>5, IfSets
    <3>2. Holds(stmt.attr, stmt.val) \cap live = live'
      BY <1>1, <2>1, <2>2 DEF Holds, Agrees
    <3>3. \A at \in SUBSET live, attrs \in SUBSET Vars : AgreesThen(outputs, at, attrs)
      BY <2>1, <2>2 DEF Agrees, AgreesThen
    <3>4. live \ live' \in SUBSET live /\ live \in SUBSET live
          /\ Vars \ Touched(1)' \in SUBSET Vars /\ Vars \in SUBSET Vars
      OBVIOUS
    <3>5. /\ AgreesThen(outputs, live, Vars \ Touched(1)')
          /\ AgreesThen(outputs, live \ live', Vars)
      BY <3>3, <3>4
    <3> QED
      BY <3>1, <3>2, <3>5 DEF Sound, Agrees, AgreesThen
  <2>5. ASSUME NEW i \in DOMAIN frames', i # 1 PROVE Sound(i)'
    <3>1. i - 1 \in DOMAIN frames /\ frames'[i] = frames[i - 1] /\ i \in Nat
      BY <1>5, <2>5, IfStep
    <3>2. (i - 1) + 1 = i
      BY <3>1, SMT
    <3>3. At(pc)'[i] = At(pc)[i - 1]
      BY <1>5, <3>1, <3>2, IfSets
    <3>4. Touched(i - 1) \subseteq Touched(i)'
      <4> SUFFICES ASSUME NEW k \in 1 .. i - 1
                   PROVE  k + 1 \in 1 .. i /\ SetBy(frames'[k + 1]) = SetBy(frames[k])
        BY DEF Touched
      <4>1. k \in DOMAIN frames /\ k + 1 \in 1 .. i
        BY <1>1, <3>1, SMT
      <4> QED
        BY <1>5, <4>1, IfStep
    <3>5. Sound(i - 1)
      BY <2>2, <3>1
    <3> QED
      BY <2>1, <3>1, <3>3, <3>4, <3>5, SoundMoved
  <2> QED
    BY <2>3, <2>4, <2>5
<1>6. ASSUME PlotElse, ~ignored', ~leaked'
      PROVE  Agrees(outputs, live, Vars)' /\ \A i \in DOMAIN frames' : Sound(i)'
  <2>1. /\ ~ignored /\ ~leaked /\ source' = source
        /\ \A a \in Attrs : GetAttr(outputs', a) = GetAttr(frames[1].outer, a)
        /\ outputs' = Outside(frames[1]) /\ live' = frames[1].live \ frames[1].holds
        /\ 1 \in DOMAIN frames /\ DOMAIN frames' = DOMAIN frames
        /\ At(pc)[1].branch = "if" /\ At(pc)'[1].branch = "else"
    <3>1. /\ source' = source
          /\ outputs' = Outside(frames[1]) /\ live' = frames[1].live \ frames[1].holds
          /\ 1 \in DOMAIN frames /\ DOMAIN frames' = DOMAIN frames
          /\ At(pc)[1].branch = "if" /\ At(pc)'[1].branch = "else"
      BY <1>6, ElseStep
    <3>2. /\ leaked' = (leaked \/ \E a \in Attrs :
                                      GetAttr(outputs', a) # GetAttr(frames[1].outer, a))
          /\ ignored' = ignored
      BY <1>6, ElseStep
    <3>3. /\ ~ignored /\ ~leaked
          /\ \A a \in Attrs : GetAttr(outputs', a) = GetAttr(frames[1].outer, a)
      BY <1>6, <3>2, Zenon
    <3> QED
      BY <3>1, <3>3
  <2>2. Agrees(outputs, live, Vars) /\ \A i \in DOMAIN frames : Sound(i)
    BY <2>1 DEF SoundSoFar
  <2>3. \A a \in Vars : GetAttr(outputs', a) = GetAttr(frames[1].outer, a)
    BY <2>1, OutsideGets DEF Vars
  <2>4. Agrees(outputs, live, Vars)'
    BY <2>1, <2>2, <2>3 DEF Sound, Agrees
  <2>5. \A i \in DOMAIN frames : Touched(i)' = Touched(i)
    <3> SUFFICES ASSUME NEW i \in DOMAIN frames, NEW k \in 1 .. i
                 PROVE  SetBy(frames'[k]) = SetBy(frames[k])
      BY DEF Touched
    <3>1. k \in DOMAIN frames
      BY <1>1, SMT
    <3> QED
      BY <1>6, <3>1, ElseSets
  <2>6. Sound(1)'
    <3>1. /\ frames'[1].outer = frames[1].outer /\ frames'[1].then = outputs
          /\ frames'[1].cond = frames[1].cond
          /\ frames'[1].holds = frames[1].holds /\ frames'[1].live = frames[1].live
      BY <1>6, <2>1, ElseSets
    <3>2. live = frames[1].holds
      BY <2>1 DEF Lives, LiveIn
    <3>3. Agrees(outputs, frames[1].holds, Vars)
      BY <2>2, <3>2
    <3>4. AgreesThen(frames'[1].then, frames[1].holds, Vars)
      BY <2>1, <3>1, <3>3 DEF Agrees, AgreesThen
    <3>5. Sound(1)
      BY <2>1, <2>2
    <3>6. AgreesThen(frames[1].outer, frames[1].live, Vars \ Touched(1)')
      BY <2>1, <2>5, <3>5 DEF Sound, Agrees, AgreesThen
    <3> QED
      BY <2>1, <3>1, <3>4, <3>5, <3>6 DEF Sound, Agrees, AgreesThen
  <2>7. ASSUME NEW i \in DOMAIN frames', i # 1 PROVE Sound(i)'
    <3>1. /\ i \in DOMAIN frames /\ frames'[i] = frames[i] /\ Touched(i)' = Touched(i) /\ Sound(i)
      BY <1>6, <2>1, <2>2, <2>5, <2>7, ElseStep
    <3>2. At(pc)'[i] = At(pc)[i]
      BY <1>6, <2>7, <3>1, FramesAt, ElseStep
    <3> QED
      BY <2>1, <3>1, <3>2, SoundMoved
  <2> QED
    BY <2>4, <2>6, <2>7
<1>7. ASSUME PlotEndIf, ~ignored', ~leaked'
      PROVE  Agrees(outputs, live, Vars)' /\ \A i \in DOMAIN frames' : Sound(i)'
  <2> DEFINE f == frames[1]
  <2>1. /\ ~ignored /\ ~leaked /\ source' = source /\ live' = f.live
        /\ outputs' = SetAll(Outside(f), Targets(f), Merged(f))
        /\ 1 \in DOMAIN frames /\ At(pc)[1].branch = "else"
    BY <1>7, EndIfStep
  <2>2. Agrees(outputs, live, Vars) /\ \A i \in DOMAIN frames : Sound(i)
    BY <2>1 DEF SoundSoFar
  <2>3. Sound(1)
    BY <2>1, <2>2
  <2>4. live = f.live \ f.holds
    BY <2>1 DEF Lives, LiveIn
  <2>5. Agrees(outputs, live, Vars)'
    <3> SUFFICES ASSUME NEW s \in f.live, NEW a \in Vars
                 PROVE  GetAttr(outputs', a).value[s] = source[s][a]
      BY <2>1 DEF Agrees
    <3>1. s \in Snapshots
      <4>1. f \in Frame
        BY <1>1, <2>1
      <4> QED
        BY <4>1 DEF Frame
    <3>2. GetAttr(outputs', a) = IF a \in Range(Targets(f)) THEN Merged(f)[a] ELSE GetAttr(Outside(f), a)
      BY <2>1, SetAllGets
    <3>3. CASE a \in Range(Targets(f))
      <4>1. GetAttr(outputs', a) = Switch(f.cond, GetAttr(f.then, a), GetAttr(outputs, a))
        BY <3>2, <3>3 DEF Merged
      <4>2. GetAttr(outputs', a).value[s] =
              IF s \in f.cond THEN GetAttr(f.then, a).value[s] ELSE GetAttr(outputs, a).value[s]
        BY <3>1, <4>1, SwitchGets
      <4>3. s \in f.cond <=> s \in f.holds
        BY <2>3 DEF Sound
      <4>4. s \in f.holds => GetAttr(f.then, a).value[s] = source[s][a]
        BY <2>1, <2>3 DEF Sound, Agrees
      <4>5. s \notin f.holds => GetAttr(outputs, a).value[s] = source[s][a]
        BY <2>2, <2>4 DEF Agrees
      <4> QED
        BY <4>2, <4>3, <4>4, <4>5
    <3>4. CASE a \notin Range(Targets(f))
      <4>1. a \notin SetBy(f)
        BY <1>7, <3>4, EndIfSets
      <4>2. GetAttr(outputs, a) = GetAttr(f.outer, a)
        BY <2>1, <4>1 DEF Untouched, OutsIn
      <4>3. GetAttr(outputs', a) = GetAttr(f.outer, a)
        BY <3>2, <3>4, <4>2, OutsideGets
      <4>4. a \notin Touched(1)
        <5>1. 1 .. 1 = {1}
          BY SMT
        <5> QED
          BY <4>1, <5>1 DEF Touched
      <4> QED
        BY <2>3, <4>3, <4>4 DEF Sound, Agrees
    <3> QED
      BY <3>3, <3>4
  <2>6. ASSUME NEW i \in DOMAIN frames' PROVE Sound(i)'
    <3>1. i + 1 \in DOMAIN frames /\ i \in Nat \ {0} /\ Sound(i + 1)
      BY <1>7, <2>2, EndIfStep
    <3>2. At(pc)'[i] = At(pc)[i + 1]
      BY <1>7, EndIfSets
    <3>3. /\ DOMAIN frames' = 1 .. Len(frames') /\ Len(frames') \in Nat /\ i <= Len(frames')
      <4>1. frames' \in Seq(Frame)
        BY <1>7, EndIfStep
      <4>2. DOMAIN frames' = 1 .. Len(frames') /\ Len(frames') \in Nat
        BY <4>1
      <4> QED
        BY <2>6, <4>2, SMT
    <3>4. Touched(i + 1) \subseteq Touched(i)'
      <4> SUFFICES ASSUME NEW k \in 1 .. i + 1
                   PROVE  \E m \in 1 .. i : SetBy(frames[k]) \subseteq SetBy(frames'[m])
        BY DEF Touched
      <4>1. CASE k = 1 \/ k = 2
        <5>1. 1 \in 1 .. i /\ 1 \in DOMAIN frames'
          BY <3>1, <3>3, SMT
        <5>2. SetBy(frames'[1]) = SetBy(frames[2]) \cup SetBy(frames[1])
          BY <1>7, <5>1, EndIfSets
        <5> QED
          BY <4>1, <5>1, <5>2
      <4>2. CASE k # 1 /\ k # 2
        <5>1. k - 1 \in 1 .. i /\ (k - 1) + 1 = k /\ k - 1 # 1 /\ k - 1 \in DOMAIN frames'
          BY <3>1, <3>3, <4>2, SMT
        <5>2. SetBy(frames'[k - 1]) = SetBy(frames[k])
          BY <1>7, <5>1, EndIfSets
        <5> QED
          BY <5>1, <5>2
      <4> QED
        BY <4>1, <4>2
    <3>5. /\ frames'[i].outer = frames[i + 1].outer /\ frames'[i].then = frames[i + 1].then
          /\ frames'[i].cond = frames[i + 1].cond
          /\ frames'[i].holds = frames[i + 1].holds /\ frames'[i].live = frames[i + 1].live
      BY <1>7, EndIfSets
    <3> QED
      BY <2>1, <3>1, <3>2, <3>4, <3>5, SoundMoved
  <2> QED
    BY <2>5, <2>6
<1> QED
  BY <1>3, <1>4, <1>5, <1>6, <1>7, Steps DEF SoundSoFar

-----------------------------------------------------------------------------
(* What the engine makes of it.                                            *)
Ran ==
  phase = "run" /\ Independent =>
    \A s \in Snapshots :
      /\ \A k \in 1 .. ran :
           store[s][outputs.order[k]] = outputs.defs[outputs.order[k]].value[s]
      /\ \A k \in ran + 1 .. Len(outputs.order) :
           outputs.defs[outputs.order[k]].value[store[s]]
             = outputs.defs[outputs.order[k]].value[s]
      /\ \A a \in Attrs :
           (\A k \in 1 .. ran : outputs.order[k] # a) => store[s][a] = s[a]

LEMMA RanStep ==
  ASSUME Written, Written', Shape, Ran, [Next]_vars
  PROVE  Ran'
<1>1. /\ Sane(outputs, inputs) /\ store \in [Snapshots -> Snapshots]
      /\ phase # "run" => ran = 0 /\ store = Identity
  BY DEF Shape
<1>2. /\ outputs.order \in Seq(Attrs) /\ Once(outputs.order)
      /\ \A a \in Recorded(outputs) : outputs.defs[a] \in Node
      /\ Range(outputs.order) = Recorded(outputs) \ Locals
  BY <1>1, SaneParts
<1>3. Len(outputs.order) \in Nat /\ DOMAIN outputs.order = 1 .. Len(outputs.order)
  BY <1>2
<1>4. ASSUME UNCHANGED <<phase, outputs, store, ran>> PROVE Ran'
  BY <1>4 DEF Ran, Independent
<1>5. CASE phase' # "run"
  BY <1>5 DEF Ran
<1>6. CASE Graph
  <2>1. outputs' = outputs /\ store' = Identity /\ ran' = 0
    BY <1>1, <1>6 DEF Graph, recorded, engine
  <2>2. \A s \in Snapshots : Identity[s] = s
    BY DEF Identity
  <2>3. \A k \in 1 .. 0 : FALSE
    BY SMT
  <2> QED
    BY <2>1, <2>2, <2>3 DEF Ran
<1>7. CASE Mutate
  <2> SUFFICES ASSUME Independent, NEW s \in Snapshots
               PROVE  /\ \A k \in 1 .. ran + 1 :
                           store'[s][outputs.order[k]] = outputs.defs[outputs.order[k]].value[s]
                      /\ \A k \in ran + 2 .. Len(outputs.order) :
                           outputs.defs[outputs.order[k]].value[store'[s]]
                             = outputs.defs[outputs.order[k]].value[s]
                      /\ \A a \in Attrs :
                           (\A k \in 1 .. ran + 1 : outputs.order[k] # a) => store'[s][a] = s[a]
    <3>1. outputs' = outputs /\ ran' = ran + 1 /\ ran \in Nat
      BY <1>7, MutateStep
    <3>2. Independent' <=> Independent
      BY <3>1 DEF Independent
    <3>3. ran' + 1 = ran + 2
      BY <3>1, SMT
    <3> QED
      BY <3>1, <3>2, <3>3 DEF Ran
  <2>1. PICK n : n = ran + 1
    OBVIOUS
  <2>2. PICK b : b = outputs.order[n]
    OBVIOUS
  <2>3. /\ phase = "run" /\ ran \in Nat /\ n \in 1 .. Len(outputs.order)
        /\ b \in Attrs /\ outputs.defs[b] \in Node
        /\ store' = [t \in Snapshots |-> [store[t] EXCEPT ![b] = outputs.defs[b].value[store[t]]]]
    BY <1>7, <2>1, <2>2, MutateStep
  <2>4. /\ \A k \in 1 .. ran :
             store[s][outputs.order[k]] = outputs.defs[outputs.order[k]].value[s]
        /\ \A k \in ran + 1 .. Len(outputs.order) :
             outputs.defs[outputs.order[k]].value[store[s]]
               = outputs.defs[outputs.order[k]].value[s]
        /\ \A a \in Attrs :
             (\A k \in 1 .. ran : outputs.order[k] # a) => store[s][a] = s[a]
    BY <2>3 DEF Ran
  <2>5. PICK v : v = outputs.defs[b].value[store[s]]
    OBVIOUS
  <2>6. store[s] \in Snapshots /\ v \in Vals /\ v = outputs.defs[b].value[s]
    <3>1. n \in ran + 1 .. Len(outputs.order)
      BY <1>3, <2>1, <2>3, SMT
    <3> QED
      BY <1>1, <2>2, <2>3, <2>4, <2>5, <3>1 DEF Node
  <2>7. store'[s] = [store[s] EXCEPT ![b] = v]
    BY <2>3, <2>5
  <2>8. store'[s][b] = v /\ \A a \in Attrs : a # b => store'[s][a] = store[s][a]
    BY <2>3, <2>6, <2>7, ChangedSnapshot
  <2>9. ASSUME NEW k \in 1 .. ran + 1
        PROVE  store'[s][outputs.order[k]] = outputs.defs[outputs.order[k]].value[s]
    <3>1. CASE k = n
      BY <2>2, <2>6, <2>8, <3>1
    <3>2. CASE k # n
      <4>1. k \in 1 .. ran /\ k \in DOMAIN outputs.order
        BY <1>3, <2>1, <2>3, <3>2, SMT
      <4>2. outputs.order[k] \in Attrs /\ outputs.order[k] # b
        BY <1>2, <1>3, <2>2, <2>3, <3>2, <4>1 DEF Once
      <4> QED
        BY <2>4, <2>8, <4>1, <4>2
    <3> QED
      BY <3>1, <3>2
  <2>10. ASSUME NEW k \in ran + 2 .. Len(outputs.order)
         PROVE  outputs.defs[outputs.order[k]].value[store'[s]]
                  = outputs.defs[outputs.order[k]].value[s]
    <3>1. /\ k \in DOMAIN outputs.order /\ n \in 1 .. k - 1
          /\ k \in ran + 1 .. Len(outputs.order)
      BY <1>3, <2>1, <2>3, SMT
    <3>2. Ignores(outputs.defs[outputs.order[k]], b)
      BY <2>2, <3>1 DEF Independent
    <3>3. outputs.defs[outputs.order[k]].value[store'[s]]
            = outputs.defs[outputs.order[k]].value[store[s]]
      BY <2>6, <2>7, <3>2 DEF Ignores
    <3> QED
      BY <2>4, <3>1, <3>3
  <2>11. ASSUME NEW a \in Attrs, \A k \in 1 .. ran + 1 : outputs.order[k] # a
         PROVE  store'[s][a] = s[a]
    <3>1. n \in 1 .. ran + 1 /\ \A k \in 1 .. ran : k \in 1 .. ran + 1
      BY <2>1, <2>3, SMT
    <3>2. a # b /\ \A k \in 1 .. ran : outputs.order[k] # a
      BY <2>2, <2>11, <3>1, Zenon
    <3>3. store[s][a] = s[a]
      BY <2>4, <3>2, Zenon
    <3> QED
      BY <2>8, <3>2, <3>3
  <2> QED
    BY <2>9, <2>10, <2>11
<1>8. \/ phase' # "run" \/ Graph \/ Mutate
      \/ UNCHANGED <<phase, outputs, store, ran>>
  <2>1. CASE PlotAssign \/ PlotIf \/ PlotElse \/ PlotEndIf
    <3>1. phase = "plot" /\ phase' = phase
      BY <2>1 DEF PlotAssign, PlotIf, PlotElse, PlotEndIf, Plot
    <3> QED
      BY <3>1, Zenon
  <2>2. CASE OtherStep
    BY <2>2, Zenon DEF OtherStep, Write, Compile, PlotRaises, vars, recorded, engine
  <2> QED
    BY <2>1, <2>2, Steps
<1> QED
  BY <1>4, <1>5, <1>6, <1>7, <1>8

(* What holds at the start.                                                *)
LEMMA InitSound ==
  ASSUME Init
  PROVE  Untouched /\ Lives /\ SoundSoFar /\ Ran
<1>1. /\ phase = "write" /\ frames = <<>> /\ live = Snapshots
      /\ source = [s \in Snapshots |-> [a \in Vars |-> IF a \in Attrs THEN s[a] ELSE 0]]
      /\ outputs = [defs |-> [v \in Locals |-> Const(0)], order |-> <<>>]
  BY DEF Init
<1>2. Len(frames) = 0 /\ DOMAIN frames = {} /\ 1 .. Len(frames) + 1 = {1} /\ Len(frames) + 1 = 1
  BY <1>1, SMT
<1>3. Agrees(outputs, live, Vars)
  <2> SUFFICES ASSUME NEW s \in Snapshots, NEW a \in Vars
               PROVE  GetAttr(outputs, a).value[s] = source[s][a]
    BY <1>1 DEF Agrees
  <2>1. Recorded(outputs) = Locals
    BY <1>1 DEF Recorded
  <2>2. CASE a \in Locals
    <3>1. GetAttr(outputs, a) = Const(0) /\ a \notin Attrs
      BY <1>1, <2>1, <2>2, LocalsAssumption DEF GetAttr
    <3> QED
      BY <1>1, <3>1 DEF Const
  <2>3. CASE a \notin Locals
    <3>1. GetAttr(outputs, a) = Retrieve(a) /\ a \in Attrs
      BY <2>1, <2>3 DEF GetAttr, Vars
    <3> QED
      BY <1>1, <3>1 DEF Retrieve
  <2> QED
    BY <2>2, <2>3
<1>4. Lives
  BY <1>1, <1>2 DEF Lives, LiveIn
<1> QED
  BY <1>1, <1>2, <1>3, <1>4 DEF Untouched, SoundSoFar, Ran

-----------------------------------------------------------------------------
(* Locals that are there to be read.                                       *)
Assigned(k, b) == prog[k].kind = "assign" /\ b \in Range(prog[k].within)

(* The scope of a branch is that of the function it is made of.            *)
ScopeOf(i) ==
  LET e == At(pc)[i]
      f == frames[i]
  IN
  /\ f.args = BaseInSyms(e.id)
  /\ f.scope = (f.args \cap Locals) \cup AssignedIn(e.id, e.branch)
  /\ f.args \cap Locals \subseteq f.bound /\ f.bound \subseteq f.scope

(* What has been assigned in either branch of a conditional so far is set  *)
(* there, or in a conditional within it that is still being traced; the    *)
(* locals assigned in this branch can be read in it once those are.        *)
SetBefore(i) ==
  \A k \in 1 .. pc - 1 :
    /\ \A b \in Branch :
         Assigned(k, b) /\ b.id = At(pc)[i].id => prog[k].attr \in Touched(i)
    /\ Assigned(k, At(pc)[i]) /\ prog[k].attr \in Locals =>
         prog[k].attr \in frames[i].bound \/ \E m \in 1 .. i - 1 : prog[k].attr \in SetBy(frames[m])

(* What is set was assigned, in all of the branches around.                *)
SetWithin(i) ==
  \A a \in SetBy(frames[i]) : \E k \in 1 .. pc - 1 :
    /\ prog[k].kind = "assign" /\ prog[k].attr = a
    /\ \A m \in DOMAIN frames : m > i => Assigned(k, At(pc)[m])

Scopes == \A i \in DOMAIN frames : ScopeOf(i) /\ SetBefore(i) /\ SetWithin(i)

LEMMA AssignsIn ==
  ASSUME Written, NEW k \in DOMAIN prog, NEW id, NEW branch
  PROVE  Assigns(k, id, branch) <=> Assigned(k, [id |-> id, branch |-> branch])
<1>1. prog[k] \in Stmt
  BY DEF Written
<1>2. PICK w : w = prog[k].within
  OBVIOUS
<1>3. w \in Seq(Branch)
  BY <1>1, <1>2 DEF Stmt
<1>4. DOMAIN w = 1 .. Len(w)
  BY <1>3
<1> QED
  BY <1>2, <1>4 DEF Assigns, Assigned, Contains, Range

(* The analysis does not change while the function is plotted.             *)
LEMMA SameFunction ==
  ASSUME UNCHANGED <<prog, words>>
  PROVE  /\ \A k : BaseInSyms(k)' = BaseInSyms(k)
         /\ \A k, branch : AssignedIn(k, branch)' = AssignedIn(k, branch)
         /\ \A k, b : Assigned(k, b)' <=> Assigned(k, b)
<1>1. ASSUME NEW k PROVE BaseInSyms(k)' = BaseInSyms(k)
  <2>1. \A i : InputSyms(i)' = InputSyms(i)
    BY DEF InputSyms, Assignments, OwnBlock, Block, Reads, ReadBy
  <2>2. \A i : Blocks(i)' = Blocks(i)
    BY DEF Blocks
  <2> QED
    BY <2>1, <2>2 DEF BaseInSyms
<1>2. ASSUME NEW k, NEW branch PROVE AssignedIn(k, branch)' = AssignedIn(k, branch)
  BY DEF AssignedIn, Assigns
<1>3. ASSUME NEW k, NEW b PROVE Assigned(k, b)' <=> Assigned(k, b)
  BY DEF Assigned
<1> QED
  BY <1>1, <1>2, <1>3

LEMMA PlotScopes ==
  ASSUME Written, NEW kind, Plot(kind)
  PROVE  /\ pc \in 1 .. Len(prog) /\ pc' = pc + 1 /\ pc' - 1 = pc /\ UNCHANGED <<prog, words>>
         /\ 1 .. pc' - 1 = 1 .. pc /\ 1 .. pc - 1 \subseteq 1 .. pc
         /\ \A k \in 1 .. pc : k \in 1 .. pc - 1 \/ k = pc
         /\ kind # "assign" => \A b : ~Assigned(pc, b)
         /\ kind = "assign" => \A b \in Range(At(pc)) : Assigned(pc, b)
<1>1. /\ pc \in 1 .. Len(prog) /\ pc' = pc + 1 /\ UNCHANGED <<prog, words>>
      /\ stmt.kind = kind /\ At(pc) = stmt.within
  BY PlotStep
<1>2. /\ pc' - 1 = pc /\ 1 .. pc' - 1 = 1 .. pc /\ 1 .. pc - 1 \subseteq 1 .. pc
      /\ \A k \in 1 .. pc : k \in 1 .. pc - 1 \/ k = pc
  BY <1>1, SMT
<1> QED
  BY <1>1, <1>2 DEF Assigned, stmt

(* A branch is only entered from the other one, which is left then.        *)
LEMMA ElseEntered ==
  ASSUME Written, NEW k \in 1 .. Len(prog) + 1, NEW e \in Range(At(k)), e.branch = "else",
         e \in Branch
  PROVE  \E j \in 1 .. k - 1 : prog[j].kind = "else" /\ At(j)[1] = [id |-> e.id, branch |-> "if"]
<1> DEFINE S == {m \in 1 .. Len(prog) + 1 : e \in Range(At(m))}
<1>1. Len(prog) \in Nat /\ prog \in Seq(Stmt) /\ open \in Seq(Branch)
  BY DEF Written
<1>2. S \in SUBSET Nat /\ k \in S
  BY <1>1
<1>3. PICK m \in S : \A n \in S : m <= n
  <2> HIDE DEF S
  <2> QED
    BY <1>2, LeastElement
<1>4. m # 1
  <2>1. At(1) = <<>> /\ Range(<<>>) = {}
    BY SMT DEF Written, Range
  <2> QED
    BY <1>3, <2>1
<1>5. PICK j : j = m - 1
  OBVIOUS
<1>6. j \in 1 .. Len(prog) /\ j + 1 = m /\ j \in 1 .. k - 1 /\ j \in 1 .. Len(prog) + 1 /\ ~ m <= j
  <2>1. m <= k /\ m \in 1 .. Len(prog) + 1
    BY <1>2, <1>3
  <2> QED
    BY <1>1, <1>4, <1>5, <2>1, SMT
<1>7. e \notin Range(At(j))
  BY <1>3, <1>6
<1>8. /\ At(m) = After(prog[j], j) /\ Legal(prog[j]) /\ At(j) = prog[j].within
      /\ prog[j] \in Stmt
  <2>1. prog \in Seq(Stmt) /\ At(j + 1) = After(prog[j], j) /\ Legal(prog[j])
    BY <1>6 DEF Written
  <2>2. At(j) = prog[j].within /\ prog[j] \in Stmt
    BY <1>6, <2>1 DEF At
  <2> QED
    BY <1>6, <2>1, <2>2
<1>9. PICK w : w = prog[j].within
  OBVIOUS
<1>10. /\ w \in Seq(Branch) /\ prog[j].kind \in {"assign", "if", "else", "endif"}
       /\ e \notin Range(w) /\ e \in Range(After(prog[j], j))
  BY <1>3, <1>7, <1>8, <1>9 DEF Stmt
<1>11. PICK t : t = After(prog[j], j)
  OBVIOUS
<1>12. PICK n \in DOMAIN t : t[n] = e
  BY <1>10, <1>11 DEF Range
<1>13. \A i \in DOMAIN w : w[i] # e
  BY <1>10 DEF Range
<1>14. Len(w) \in Nat /\ DOMAIN w = 1 .. Len(w) /\ \A i \in 1 .. Len(w) : w[i] \in Branch
  BY <1>10
<1>15. prog[j].kind # "assign"
  <2> SUFFICES ASSUME prog[j].kind = "assign" PROVE FALSE
    OBVIOUS
  <2>1. t = w
    BY <1>9, <1>11, SMT DEF After
  <2> QED
    BY <1>12, <1>13, <2>1
<1>16. prog[j].kind # "if"
  <2> SUFFICES ASSUME prog[j].kind = "if" PROVE FALSE
    OBVIOUS
  <2>1. PICK b : b = [id |-> j, branch |-> "if"]
    OBVIOUS
  <2>2. t = <<b>> \o w /\ b # e
    BY <1>9, <1>11, <2>1, SMT DEF After
  <2>3. n = 1 \/ (n - 1 \in DOMAIN w /\ t[n] = w[n - 1])
    BY <1>10, <1>12, <1>14, <2>2, SMT
  <2>4. t[1] = b
    BY <1>10, <2>2, SMT
  <2> QED
    BY <1>12, <1>13, <2>2, <2>3, <2>4
<1>17. prog[j].kind # "endif"
  <2> SUFFICES ASSUME prog[j].kind = "endif" PROVE FALSE
    OBVIOUS
  <2>1. t = Tail(w) /\ w # <<>>
    BY <1>8, <1>9, <1>11, SMT DEF After, Legal
  <2>2. n + 1 \in DOMAIN w /\ t[n] = w[n + 1]
    BY <1>10, <1>12, <1>14, <2>1, SMT
  <2> QED
    BY <1>12, <1>13, <2>2
<1>18. prog[j].kind = "else"
  BY <1>10, <1>15, <1>16, <1>17
<1>19. t = [w EXCEPT ![1].branch = "else"] /\ w # <<>> /\ w[1].branch = "if"
  BY <1>8, <1>9, <1>11, <1>18, SMT DEF After, Legal
<1>20. n = 1
  BY <1>12, <1>13, <1>19
<1>21. 1 \in DOMAIN w /\ w[1] \in Branch
  BY <1>14, <1>10, <1>19, SMT
<1>22. e = [w[1] EXCEPT !.branch = "else"]
  BY <1>12, <1>19, <1>20, <1>21
<1>23. w[1] = [id |-> e.id, branch |-> "if"]
  BY <1>19, <1>21, <1>22 DEF Branch
<1> QED
  BY <1>6, <1>8, <1>9, <1>18, <1>23

LEMMA ScopesOther ==
  ASSUME Written, Written', Shape, Scopes, OtherStep
  PROVE  Scopes'
<1>1. /\ UNCHANGED <<frames, pc, words, At(pc)>>
  BY NothingRecorded
<1>2. CASE phase = "write"
  <2>1. pc = 1 /\ At(pc) = <<>>
    BY <1>2 DEF Written
  <2>2. DOMAIN frames = {}
    BY <2>1, FramesAt, SMT
  <2> QED
    BY <1>1, <2>2 DEF Scopes
<1>3. CASE phase # "write"
  <2>1. UNCHANGED <<prog, words>>
    BY <1>3 DEF OtherStep, Write, Compile, PlotRaises, Graph, Mutate, vars
  <2>2. /\ \A k : BaseInSyms(k)' = BaseInSyms(k)
        /\ \A k, branch : AssignedIn(k, branch)' = AssignedIn(k, branch)
        /\ \A k, b : Assigned(k, b)' <=> Assigned(k, b)
    BY <2>1, SameFunction
  <2>3. ASSUME NEW i \in DOMAIN frames PROVE ScopeOf(i)' /\ SetBefore(i)' /\ SetWithin(i)'
    <3>1. ScopeOf(i) /\ SetBefore(i) /\ SetWithin(i)
      BY DEF Scopes
    <3>2. ScopeOf(i)'
      BY <1>1, <2>2, <3>1 DEF ScopeOf
    <3>3. SetBefore(i)'
      BY <1>1, <2>1, <2>2, <3>1 DEF SetBefore, Touched
    <3>4. SetWithin(i)'
      BY <1>1, <2>1, <2>2, <3>1 DEF SetWithin
    <3> QED
      BY <3>2, <3>3, <3>4
  <2> QED
    BY <1>1, <2>3 DEF Scopes
<1> QED
  BY <1>2, <1>3

LEMMA ScopesAssign ==
  ASSUME Written, Shape, Scopes, PlotAssign
  PROVE  Scopes'
<1> DEFINE a == stmt.attr
<1>1. Plot("assign")
  BY DEF PlotAssign
<1>2. /\ pc \in 1 .. Len(prog) /\ pc' - 1 = pc /\ prog' = prog
      /\ 1 .. pc - 1 \subseteq 1 .. pc /\ \A k \in 1 .. pc : k \in 1 .. pc - 1 \/ k = pc
      /\ \A b \in Range(At(pc)) : Assigned(pc, b)
  BY <1>1, PlotScopes
<1>3. /\ \A k : BaseInSyms(k)' = BaseInSyms(k)
      /\ \A k, branch : AssignedIn(k, branch)' = AssignedIn(k, branch)
      /\ \A k, b : Assigned(k, b)' <=> Assigned(k, b)
  BY <1>1, PlotScopes, SameFunction
<1>4. /\ At(pc)' = At(pc) /\ DOMAIN frames' = DOMAIN frames /\ a \in Vars
      /\ \A i \in DOMAIN frames : i # 1 => frames'[i] = frames[i]
  BY AssignStep
<1>5. /\ DOMAIN frames = 1 .. Len(frames) /\ Len(frames) \in Nat /\ frames \in Seq(Frame)
      /\ At(pc) \in Seq(Branch) /\ DOMAIN frames = DOMAIN At(pc)
  BY FramesAt
<1>6. prog[pc].attr = a /\ prog[pc].kind = "assign" /\ pc \in 1 .. pc
  BY <1>2, AssignStep, SMT DEF stmt
<1> HIDE DEF a
<1>7. ASSUME NEW i \in DOMAIN frames
      PROVE  /\ frames[i].bound \subseteq frames'[i].bound
             /\ frames'[1].bound = frames[1].bound \cup ({a} \cap Locals)
             /\ SetBy(frames[i]) \subseteq SetBy(frames'[i])
             /\ 1 \in 1 .. i /\ 1 \in DOMAIN frames /\ a \in SetBy(frames'[1])
             /\ i # 1 => 1 \in 1 .. i - 1
             /\ 1 .. i \subseteq DOMAIN frames
  <2>1. 1 \in 1 .. i /\ 1 \in DOMAIN frames /\ (i # 1 => 1 \in 1 .. i - 1) /\ 1 .. i \subseteq DOMAIN frames
    BY <1>5, SMT
  <2>2. frames[1] \in Frame
    BY <1>5, <2>1
  <2>3. frames'[1] = [frames[1] EXCEPT !.own = AddTo(@, a), !.bound = @ \cup ({a} \cap Locals)]
    BY <2>1, AssignStep DEF a
  <2>4. frames'[1].bound = frames[1].bound \cup ({a} \cap Locals)
    BY <2>2, <2>3 DEF Frame
  <2>5. SetBy(frames[i]) \subseteq SetBy(frames'[i]) /\ a \in SetBy(frames'[1])
    BY <2>1, AssignSets DEF a
  <2>6. frames[i].bound \subseteq frames'[i].bound
    <3>1. CASE i = 1
      BY <2>4, <3>1
    <3>2. CASE i # 1
      BY <1>4, <3>2
    <3> QED
      BY <3>1, <3>2
  <2> QED
    BY <2>1, <2>4, <2>5, <2>6
<1>8. ASSUME NEW i \in DOMAIN frames PROVE ScopeOf(i)'
  <2>1. ScopeOf(i)
    BY DEF Scopes
  <2>2. frames'[i].args = frames[i].args /\ frames'[i].scope = frames[i].scope
    BY AssignSets
  <2>3. frames'[i].bound \subseteq frames'[i].scope
    <3>1. CASE i # 1
      BY <1>4, <2>1, <3>1 DEF ScopeOf
    <3>2. CASE i = 1
      <4>1. a \in Locals => a \in AssignedIn(At(pc)[1].id, At(pc)[1].branch)
        <5>1. At(pc)[1] \in Range(At(pc)) /\ At(pc)[1] \in Branch
          BY <1>5, <3>2 DEF Range
        <5>2. At(pc)[1] = [id |-> At(pc)[1].id, branch |-> At(pc)[1].branch]
          BY <5>1 DEF Branch
        <5>3. Assigned(pc, [id |-> At(pc)[1].id, branch |-> At(pc)[1].branch])
          BY <1>2, <5>1, <5>2
        <5>4. pc \in DOMAIN prog
          BY <1>2 DEF Written
        <5>5. Assigns(pc, At(pc)[1].id, At(pc)[1].branch)
          BY <5>3, <5>4, AssignsIn
        <5> QED
          BY <1>6, <5>4, <5>5 DEF AssignedIn
      <4>2. frames[1].bound \subseteq frames[1].scope
            /\ AssignedIn(At(pc)[1].id, At(pc)[1].branch) \subseteq frames[1].scope
        BY <2>1, <3>2 DEF ScopeOf
      <4>3. frames'[1].bound = frames[1].bound \cup ({a} \cap Locals)
        BY <1>7
      <4> QED
        BY <2>2, <3>2, <4>1, <4>2, <4>3
    <3> QED
      BY <3>1, <3>2
  <2>4. frames[i].bound \subseteq frames'[i].bound
    BY <1>7
  <2> QED
    BY <1>3, <1>4, <2>1, <2>2, <2>3, <2>4 DEF ScopeOf
<1>9. ASSUME NEW i \in DOMAIN frames PROVE SetBefore(i)'
  <2>1. SetBefore(i)
    BY DEF Scopes
  <2>2. Touched(i) \cup {a} \subseteq Touched(i)'
    <3>1. \A k \in 1 .. i : SetBy(frames[k]) \subseteq SetBy(frames'[k])
      BY <1>7
    <3> QED
      BY <1>7, <3>1 DEF Touched
  <2>3. ASSUME NEW k \in 1 .. pc, NEW b \in Branch, Assigned(k, b), b.id = At(pc)[i].id
        PROVE  prog[k].attr \in Touched(i)'
    BY <1>2, <1>6, <2>1, <2>2, <2>3 DEF SetBefore
  <2>4. ASSUME NEW k \in 1 .. pc, Assigned(k, At(pc)[i]), prog[k].attr \in Locals
        PROVE  \/ prog[k].attr \in frames'[i].bound
               \/ \E m \in 1 .. i - 1 : prog[k].attr \in SetBy(frames'[m])
    <3>1. CASE k \in 1 .. pc - 1
      <4>1. \/ prog[k].attr \in frames[i].bound
            \/ \E m \in 1 .. i - 1 : prog[k].attr \in SetBy(frames[m])
        BY <2>1, <2>4, <3>1 DEF SetBefore
      <4>2. \A m \in 1 .. i - 1 : m \in DOMAIN frames
        BY <1>5, SMT
      <4> QED
        BY <1>7, <4>1, <4>2
    <3>2. CASE k = pc
      <4>1. prog[k].attr = a /\ a \in Locals
        BY <1>6, <2>4, <3>2
      <4>2. CASE i = 1
        <5>1. a \in frames'[1].bound
          BY <1>7, <4>1
        <5> QED
          BY <4>1, <4>2, <5>1
      <4>3. CASE i # 1
        <5>1. 1 \in 1 .. i - 1 /\ a \in SetBy(frames'[1])
          BY <1>7, <4>3
        <5> QED
          BY <4>1, <5>1
      <4> QED
        BY <4>2, <4>3
    <3> QED
      BY <1>2, <3>1, <3>2
  <2> QED
    BY <1>2, <1>3, <1>4, <2>3, <2>4 DEF SetBefore
<1>10. ASSUME NEW i \in DOMAIN frames PROVE SetWithin(i)'
  <2> SUFFICES ASSUME NEW c \in SetBy(frames'[i])
               PROVE  \E k \in 1 .. pc :
                        /\ prog[k].kind = "assign" /\ prog[k].attr = c
                        /\ \A m \in DOMAIN frames : m > i => Assigned(k, At(pc)[m])
    BY <1>2, <1>3, <1>4 DEF SetWithin
  <2>1. CASE c \in SetBy(frames[i])
    <3>1. SetWithin(i)
      BY DEF Scopes
    <3> QED
      BY <1>2, <2>1, <3>1 DEF SetWithin
  <2>2. CASE c \notin SetBy(frames[i])
    <3>1. c = a
      BY <2>2, AssignSets DEF a
    <3>2. \A m \in DOMAIN frames : Assigned(pc, At(pc)[m])
      BY <1>2, <1>5 DEF Range
    <3> QED
      BY <1>6, <3>1, <3>2
  <2> QED
    BY <2>1, <2>2
<1> QED
  BY <1>4, <1>8, <1>9, <1>10 DEF Scopes

LEMMA ScopesIf ==
  ASSUME Written, Shape, Scopes, PlotIf
  PROVE  Scopes'
<1>1. Plot("if")
  BY DEF PlotIf
<1>2. /\ pc \in 1 .. Len(prog) /\ pc' - 1 = pc /\ prog' = prog
      /\ 1 .. pc - 1 \subseteq 1 .. pc /\ \A k \in 1 .. pc : k \in 1 .. pc - 1 \/ k = pc
      /\ \A b : ~Assigned(pc, b)
  BY <1>1, PlotScopes
<1>3. /\ \A k : BaseInSyms(k)' = BaseInSyms(k)
      /\ \A k, branch : AssignedIn(k, branch)' = AssignedIn(k, branch)
      /\ \A k, b : Assigned(k, b)' <=> Assigned(k, b)
  BY <1>1, PlotScopes, SameFunction
<1>4. /\ DOMAIN frames = 1 .. Len(frames) /\ Len(frames) \in Nat
      /\ At(pc) \in Seq(Branch) /\ DOMAIN frames = DOMAIN At(pc)
  BY FramesAt
<1>5. /\ At(pc)'[1] = [id |-> pc, branch |-> "if"]
      /\ \A i \in DOMAIN frames : At(pc)'[i + 1] = At(pc)[i] /\ frames'[i + 1] = frames[i]
      /\ DOMAIN frames' = 1 .. Len(frames) + 1
  BY IfSets, IfStep
<1>6. ScopeOf(1)'
  <2>1. /\ frames'[1].args = BaseInSyms(pc)
        /\ frames'[1].scope = (BaseInSyms(pc) \cap Locals) \cup AssignedIn(pc, "if")
        /\ frames'[1].bound = BaseInSyms(pc) \cap Locals
    BY IfSets
  <2> QED
    BY <1>3, <1>5, <2>1 DEF ScopeOf
(* Nothing was assigned in the conditional before it.                      *)
<1>7. SetBefore(1)'
  <2> SUFFICES ASSUME NEW k \in 1 .. pc - 1, NEW b, b.id = pc, Assigned(k, b)
               PROVE  FALSE
    <3>1. At(pc)'[1].id = pc
      BY <1>5
    <3> QED
      BY <1>2, <1>3, <3>1 DEF SetBefore
  <2>1. k \in 1 .. Len(prog) /\ k \in 1 .. Len(prog) + 1 /\ k < pc /\ k \in Nat /\ pc \in Nat
    BY <1>2, SMT DEF Written
  <2>2. Nested(k) /\ At(k) = prog[k].within
    BY <2>1 DEF Written, At
  <2>3. PICK n \in DOMAIN At(k) : At(k)[n] = b
    BY <2>2 DEF Assigned, Range
  <2>4. pc < k
    BY <2>2, <2>3 DEF Nested
  <2> QED
    BY <2>1, <2>4, SMT
<1>8. SetWithin(1)'
  BY IfSets DEF SetWithin
<1>9. ASSUME NEW i \in DOMAIN frames
      PROVE  ScopeOf(i + 1)' /\ SetBefore(i + 1)' /\ SetWithin(i + 1)'
  <2>1. ScopeOf(i) /\ SetBefore(i) /\ SetWithin(i)
    BY DEF Scopes
  <2>2. At(pc)'[i + 1] = At(pc)[i] /\ frames'[i + 1] = frames[i] /\ i \in Nat /\ (i + 1) - 1 = i
    BY <1>4, <1>5, SMT
  <2>3. ScopeOf(i + 1)'
    BY <1>3, <2>1, <2>2 DEF ScopeOf
  <2>4. \A m \in 1 .. i : m + 1 \in 1 .. i + 1 /\ frames'[m + 1] = frames[m]
    <3>1. \A m \in 1 .. i : m + 1 \in 1 .. i + 1 /\ m \in DOMAIN frames
      BY <1>4, <2>2, SMT
    <3> QED
      BY <1>5, <3>1
  <2>5. Touched(i) \subseteq Touched(i + 1)'
    BY <2>4 DEF Touched
  <2>6. SetBefore(i + 1)'
    <3>1. ASSUME NEW k \in 1 .. pc, NEW b \in Branch, Assigned(k, b), b.id = At(pc)[i].id
          PROVE  prog[k].attr \in Touched(i + 1)'
      BY <1>2, <2>1, <2>5, <3>1 DEF SetBefore
    <3>2. ASSUME NEW k \in 1 .. pc, Assigned(k, At(pc)[i]), prog[k].attr \in Locals
          PROVE  \/ prog[k].attr \in frames'[i + 1].bound
                 \/ \E m \in 1 .. i : prog[k].attr \in SetBy(frames'[m])
      <4>1. \/ prog[k].attr \in frames[i].bound
            \/ \E m \in 1 .. i - 1 : prog[k].attr \in SetBy(frames[m])
        BY <1>2, <2>1, <3>2 DEF SetBefore
      <4>2. \A m \in 1 .. i - 1 : m + 1 \in 1 .. i /\ m \in 1 .. i
        BY <2>2, SMT
      <4> QED
        BY <2>2, <2>4, <4>1, <4>2
    <3> QED
      BY <1>2, <1>3, <2>2, <3>1, <3>2 DEF SetBefore
  <2>7. SetWithin(i + 1)'
    <3> SUFFICES ASSUME NEW a \in SetBy(frames[i])
                 PROVE  \E k \in 1 .. pc :
                          /\ prog[k].kind = "assign" /\ prog[k].attr = a
                          /\ \A m \in DOMAIN frames' : m > i + 1 => Assigned(k, At(pc)'[m])
      BY <1>2, <1>3, <2>2 DEF SetWithin
    <3>1. PICK k \in 1 .. pc - 1 :
            /\ prog[k].kind = "assign" /\ prog[k].attr = a
            /\ \A m \in DOMAIN frames : m > i => Assigned(k, At(pc)[m])
      BY <2>1 DEF SetWithin
    <3>2. ASSUME NEW m \in DOMAIN frames', m > i + 1 PROVE Assigned(k, At(pc)'[m])
      <4>1. m - 1 \in DOMAIN frames /\ m - 1 > i /\ (m - 1) + 1 = m
        BY <1>4, <1>5, <2>2, <3>2, SMT
      <4>2. At(pc)'[m] = At(pc)[m - 1]
        BY <1>5, <4>1
      <4> QED
        BY <3>1, <4>1, <4>2
    <3> QED
      BY <1>2, <3>1, <3>2
  <2> QED
    BY <2>3, <2>6, <2>7
<1>10. ASSUME NEW i \in DOMAIN frames' PROVE i = 1 \/ \E j \in DOMAIN frames : i = j + 1
  <2>1. i = 1 \/ (i - 1 \in DOMAIN frames /\ i = (i - 1) + 1)
    BY <1>4, <1>5, SMT
  <2> QED
    BY <2>1
<1> QED
  BY <1>6, <1>7, <1>8, <1>9, <1>10 DEF Scopes

LEMMA ScopesElse ==
  ASSUME Written, Shape, Scopes, PlotElse
  PROVE  Scopes'
<1>1. Plot("else")
  BY DEF PlotElse
<1>2. /\ pc \in 1 .. Len(prog) /\ pc' - 1 = pc /\ prog' = prog
      /\ 1 .. pc - 1 \subseteq 1 .. pc /\ \A k \in 1 .. pc : k \in 1 .. pc - 1 \/ k = pc
      /\ \A b : ~Assigned(pc, b)
  BY <1>1, PlotScopes
<1>3. /\ \A k : BaseInSyms(k)' = BaseInSyms(k)
      /\ \A k, branch : AssignedIn(k, branch)' = AssignedIn(k, branch)
      /\ \A k, b : Assigned(k, b)' <=> Assigned(k, b)
  BY <1>1, PlotScopes, SameFunction
<1>4. /\ DOMAIN frames = 1 .. Len(frames) /\ Len(frames) \in Nat /\ frames \in Seq(Frame)
      /\ At(pc) \in Seq(Branch) /\ DOMAIN frames = DOMAIN At(pc)
  BY FramesAt
<1>5. /\ DOMAIN frames' = DOMAIN frames /\ 1 \in DOMAIN frames
      /\ At(pc)[1].branch = "if"
      /\ At(pc)'[1].id = At(pc)[1].id /\ At(pc)'[1].branch = "else"
      /\ \A i \in DOMAIN frames : i # 1 => At(pc)'[i] = At(pc)[i] /\ frames'[i] = frames[i]
  BY <1>4, ElseStep
<1>6. /\ frames'[1].args = frames[1].args
      /\ frames'[1].scope = (frames[1].args \cap Locals) \cup AssignedIn(At(pc)[1].id, "else")
      /\ frames'[1].bound = frames[1].args \cap Locals
  <2>1. frames'[1] = [frames[1] EXCEPT
              !.then = outputs,
              !.scope = (frames[1].args \cap Locals) \cup AssignedIn(At(pc)[1].id, "else"),
              !.bound = frames[1].args \cap Locals]
    BY ElseStep
  <2>2. frames[1] \in Frame
    BY <1>4, <1>5
  <2> QED
    BY <2>1, <2>2 DEF Frame
<1>7. \A i \in DOMAIN frames : SetBy(frames'[i]) = SetBy(frames[i])
  BY ElseSets
<1>8. ASSUME NEW i \in DOMAIN frames PROVE ScopeOf(i)'
  <2>1. ScopeOf(i)
    BY DEF Scopes
  <2>2. CASE i = 1
    BY <1>3, <1>5, <1>6, <2>1, <2>2 DEF ScopeOf
  <2>3. CASE i # 1
    BY <1>3, <1>5, <2>1, <2>3 DEF ScopeOf
  <2> QED
    BY <2>2, <2>3
<1>9. ASSUME NEW i \in DOMAIN frames PROVE SetBefore(i)'
  <2>1. SetBefore(i)
    BY DEF Scopes
  <2>2. /\ \A m \in 1 .. i : m \in DOMAIN frames
        /\ \A m \in 1 .. i - 1 : m \in DOMAIN frames
    BY <1>4, SMT
  <2>3. Touched(i)' = Touched(i)
    BY <1>7, <2>2 DEF Touched
  <2>4. At(pc)'[i].id = At(pc)[i].id
    BY <1>5
  <2>5. ASSUME NEW k \in 1 .. pc, NEW b \in Branch, Assigned(k, b), b.id = At(pc)[i].id
        PROVE  prog[k].attr \in Touched(i)'
    BY <1>2, <2>1, <2>3, <2>5 DEF SetBefore
  <2>6. ASSUME NEW k \in 1 .. pc - 1, Assigned(k, At(pc)'[i]), prog[k].attr \in Locals
        PROVE  \/ prog[k].attr \in frames'[i].bound
               \/ \E m \in 1 .. i - 1 : prog[k].attr \in SetBy(frames'[m])
(* The branch is only entered now.                                         *)
    <3>1. CASE i = 1
      <4> DEFINE e == At(pc)'[1]
      <4>1. k \in 1 .. Len(prog) /\ k \in 1 .. Len(prog) + 1 /\ pc \in Nat /\ Len(prog) \in Nat
        BY <1>2, SMT DEF Written
      <4>2. At(k) = prog[k].within /\ prog[k] \in Stmt
        BY <4>1 DEF Written, At
      <4>3. e \in Range(At(k))
        BY <2>6, <3>1, <4>2 DEF Assigned
      <4>4. e \in Branch
        <5>1. prog[k].within \in Seq(Branch)
          BY <4>2 DEF Stmt
        <5> HIDE DEF e
        <5> QED
          BY <4>2, <4>3, <5>1 DEF Range
      <4>5. e.branch = "else" /\ e.id = At(pc)[1].id
        BY <1>5
      <4> HIDE DEF e
      <4>6. PICK j \in 1 .. k - 1 :
              prog[j].kind = "else" /\ At(j)[1] = [id |-> e.id, branch |-> "if"]
        BY <4>1, <4>3, <4>4, <4>5, ElseEntered
      <4>7. j \in 1 .. Len(prog) /\ pc \in j + 1 .. Len(prog) + 1
        BY <1>2, <4>1, SMT
      <4>8. Left(j)
        BY <4>7 DEF Written
      <4>9. At(pc)[1] # At(j)[1]
        BY <1>4, <1>5, <4>6, <4>7, <4>8 DEF Left
      <4>10. At(pc)[1] = [id |-> e.id, branch |-> "if"]
        <5>1. At(pc)[1] \in Branch
          BY <1>4, <1>5
        <5> QED
          BY <1>5, <4>5, <5>1 DEF Branch
      <4> QED
        BY <4>6, <4>9, <4>10
    <3>2. CASE i # 1
      <4>1. \/ prog[k].attr \in frames[i].bound
            \/ \E m \in 1 .. i - 1 : prog[k].attr \in SetBy(frames[m])
        BY <1>5, <2>1, <2>6, <3>2 DEF SetBefore
      <4> QED
        BY <1>5, <1>7, <2>2, <3>2, <4>1
    <3> QED
      BY <3>1, <3>2
  <2> QED
    BY <1>2, <1>3, <2>4, <2>5, <2>6 DEF SetBefore
<1>10. ASSUME NEW i \in DOMAIN frames PROVE SetWithin(i)'
  <2>1. SetWithin(i)
    BY DEF Scopes
  <2>2. \A m \in DOMAIN frames : m > i => At(pc)'[m] = At(pc)[m]
    <3>1. \A m \in DOMAIN frames : m > i => m # 1
      BY <1>4, SMT
    <3> QED
      BY <1>5, <3>1
  <2> QED
    BY <1>2, <1>3, <1>5, <1>7, <2>1, <2>2 DEF SetWithin
<1> QED
  BY <1>5, <1>8, <1>9, <1>10 DEF Scopes

LEMMA ScopesEndIf ==
  ASSUME Written, Shape, Scopes, PlotEndIf
  PROVE  Scopes'
<1>1. Plot("endif")
  BY DEF PlotEndIf
<1>2. /\ pc \in 1 .. Len(prog) /\ pc' - 1 = pc /\ prog' = prog
      /\ 1 .. pc - 1 \subseteq 1 .. pc /\ \A k \in 1 .. pc : k \in 1 .. pc - 1 \/ k = pc
      /\ \A b : ~Assigned(pc, b)
  BY <1>1, PlotScopes
<1>3. /\ \A k : BaseInSyms(k)' = BaseInSyms(k)
      /\ \A k, branch : AssignedIn(k, branch)' = AssignedIn(k, branch)
      /\ \A k, b : Assigned(k, b)' <=> Assigned(k, b)
  BY <1>1, PlotScopes, SameFunction
<1>4. /\ DOMAIN frames = 1 .. Len(frames) /\ Len(frames) \in Nat /\ frames \in Seq(Frame)
      /\ At(pc) \in Seq(Branch) /\ DOMAIN frames = DOMAIN At(pc)
  BY FramesAt
<1>5. DOMAIN frames' = 1 .. Len(frames') /\ Len(frames') \in Nat /\ Len(frames) = Len(frames') + 1
  <2>1. frames' \in Seq(Frame) /\ Len(frames') = Len(frames) - 1
    BY EndIfStep
  <2> QED
    BY <1>4, <2>1, SMT
<1>6. ASSUME NEW i \in DOMAIN frames'
      PROVE  /\ i + 1 \in DOMAIN frames /\ i \in Nat \ {0} /\ 1 \in DOMAIN frames /\ 1 \in DOMAIN frames'
             /\ i # 1 => 1 \in 1 .. i - 1
             /\ At(pc)'[i] = At(pc)[i + 1]
             /\ frames'[i].args = frames[i + 1].args /\ frames'[i].scope = frames[i + 1].scope
             /\ i = 1 => frames'[1].bound = frames[2].bound \cup (SetBy(frames[1]) \cap Locals)
             /\ i # 1 => frames'[i] = frames[i + 1]
             /\ SetBy(frames'[i]) = IF i = 1 THEN SetBy(frames[2]) \cup SetBy(frames[1])
                                             ELSE SetBy(frames[i + 1])
  <2>1. /\ i + 1 \in DOMAIN frames /\ i \in Nat \ {0} /\ 1 \in DOMAIN frames /\ 1 \in DOMAIN frames'
        /\ i # 1 => 1 \in 1 .. i - 1
    BY <1>4, <1>5, SMT
  <2>2. frames'[1].bound = frames[2].bound \cup (SetBy(frames[1]) \cap Locals)
    <3>1. /\ frames'[1] = [frames[2] EXCEPT
                   !.nested = @ \o Without(Targets(frames[1]), Range(@)),
                   !.bound = @ \cup (Range(Targets(frames[1])) \cap Locals)]
          /\ frames[2] \in Frame
      BY <2>1, EndIfStep
    <3>2. frames'[1].bound = frames[2].bound \cup (Range(Targets(frames[1])) \cap Locals)
      BY <3>1 DEF Frame
    <3> QED
      BY <3>2, EndIfSets
  <2> QED
    BY <2>1, <2>2, EndIfSets, EndIfStep
<1>7. ASSUME NEW i \in DOMAIN frames' PROVE SetWithin(i)'
  <2> SUFFICES ASSUME NEW a \in SetBy(frames'[i])
               PROVE  \E k \in 1 .. pc :
                        /\ prog[k].kind = "assign" /\ prog[k].attr = a
                        /\ \A m \in DOMAIN frames' : m > i => Assigned(k, At(pc)'[m])
    BY <1>2, <1>3 DEF SetWithin
  <2>1. PICK j \in DOMAIN frames : a \in SetBy(frames[j]) /\ j <= i + 1
    <3>1. 2 \in Nat /\ 1 <= i + 1 /\ i + 1 <= i + 1
      BY <1>6, SMT
    <3> QED
      BY <1>6, <3>1
  <2>2. PICK k \in 1 .. pc - 1 :
          /\ prog[k].kind = "assign" /\ prog[k].attr = a
          /\ \A m \in DOMAIN frames : m > j => Assigned(k, At(pc)[m])
    <3>1. SetWithin(j)
      BY DEF Scopes
    <3> QED
      BY <2>1, <3>1 DEF SetWithin
  <2>3. ASSUME NEW m \in DOMAIN frames', m > i PROVE Assigned(k, At(pc)'[m])
    <3>1. m + 1 \in DOMAIN frames /\ m + 1 > j
      BY <1>4, <1>5, <2>1, <2>3, SMT
    <3>2. At(pc)'[m] = At(pc)[m + 1]
      BY <1>6
    <3> QED
      BY <2>2, <3>1, <3>2
  <2> QED
    BY <1>2, <2>2, <2>3
<1>8. ASSUME NEW i \in DOMAIN frames' PROVE ScopeOf(i)'
  <2>1. ScopeOf(i + 1)
    BY <1>6 DEF Scopes
  <2>2. CASE i # 1
    BY <1>3, <1>6, <2>1, <2>2 DEF ScopeOf
  <2>3. CASE i = 1
    <3>1. SetBy(frames[1]) \cap Locals \subseteq AssignedIn(At(pc)[2].id, At(pc)[2].branch)
      <4> SUFFICES ASSUME NEW a \in SetBy(frames[1]) \cap Locals
                   PROVE  a \in AssignedIn(At(pc)[2].id, At(pc)[2].branch)
        OBVIOUS
      <4>1. 1 \in DOMAIN frames /\ 2 \in DOMAIN frames /\ 2 > 1
        BY <1>6, <2>3
      <4>2. SetWithin(1)
        BY <4>1 DEF Scopes
      <4>3. PICK k \in 1 .. pc - 1 : prog[k].attr = a /\ Assigned(k, At(pc)[2])
        BY <4>1, <4>2 DEF SetWithin
      <4>4. k \in DOMAIN prog
        <5>1. k \in 1 .. Len(prog)
          BY <1>2, SMT DEF Written
        <5> QED
          BY <5>1 DEF Written
      <4>5. At(pc)[2] \in Branch
        BY <1>4, <4>1
      <4>6. At(pc)[2] = [id |-> At(pc)[2].id, branch |-> At(pc)[2].branch]
        BY <4>5 DEF Branch
      <4>7. Assigns(k, At(pc)[2].id, At(pc)[2].branch)
        BY <4>3, <4>4, <4>6, AssignsIn
      <4> QED
        BY <4>3, <4>4, <4>7 DEF AssignedIn
    <3>2. frames'[1].bound = frames[2].bound \cup (SetBy(frames[1]) \cap Locals)
      BY <1>6, <2>3
    <3>3. ScopeOf(2)
      BY <2>1, <2>3
    <3>4. /\ At(pc)'[1] = At(pc)[2]
          /\ frames'[1].args = frames[2].args /\ frames'[1].scope = frames[2].scope
      <4>1. 1 + 1 = 2
        OBVIOUS
      <4> QED
        BY <1>6, <2>3, <4>1
    <3> QED
      BY <1>3, <2>3, <3>1, <3>2, <3>3, <3>4 DEF ScopeOf
  <2> QED
    BY <2>2, <2>3
<1>9. ASSUME NEW i \in DOMAIN frames' PROVE SetBefore(i)'
  <2>1. SetBefore(i + 1) /\ At(pc)'[i] = At(pc)[i + 1] /\ i \in Nat \ {0} /\ (i + 1) - 1 = i
    <3>1. (i + 1) - 1 = i
      BY <1>6, SMT
    <3> QED
      BY <1>6, <3>1 DEF Scopes
(* What the conditional has set counts for the one around it.              *)
  <2>2. ASSUME NEW m \in 1 .. i + 1, NEW a \in SetBy(frames[m])
        PROVE  \E n \in 1 .. i : a \in SetBy(frames'[n]) /\ (m <= i /\ i # 1 => n \in 1 .. i - 1)
    <3>1. CASE m = 1 \/ m = 2
      <4>1. 1 \in 1 .. i /\ a \in SetBy(frames'[1])
        BY <1>6, <2>1, <3>1, SMT
      <4> QED
        BY <1>6, <4>1
    <3>2. CASE m # 1 /\ m # 2
      <4>1. /\ m - 1 \in DOMAIN frames' /\ (m - 1) + 1 = m /\ m - 1 # 1 /\ m - 1 \in 1 .. i
            /\ m <= i => m - 1 \in 1 .. i - 1
        BY <1>5, <2>1, <3>2, SMT
      <4>2. SetBy(frames'[m - 1]) = SetBy(frames[m])
        BY <1>6, <4>1
      <4> QED
        BY <4>1, <4>2
    <3> QED
      BY <3>1, <3>2
  <2>3. Touched(i + 1) \subseteq Touched(i)'
    BY <2>2 DEF Touched
  <2>4. ASSUME NEW k \in 1 .. pc, NEW b \in Branch, Assigned(k, b), b.id = At(pc)[i + 1].id
        PROVE  prog[k].attr \in Touched(i)'
    BY <1>2, <2>1, <2>3, <2>4 DEF SetBefore
  <2>5. ASSUME NEW k \in 1 .. pc, Assigned(k, At(pc)[i + 1]), prog[k].attr \in Locals
        PROVE  \/ prog[k].attr \in frames'[i].bound
               \/ \E m \in 1 .. i - 1 : prog[k].attr \in SetBy(frames'[m])
    <3>1. \/ prog[k].attr \in frames[i + 1].bound
          \/ \E m \in 1 .. i : prog[k].attr \in SetBy(frames[m])
      BY <1>2, <2>1, <2>5 DEF SetBefore
    <3>2. CASE prog[k].attr \in frames[i + 1].bound
      <4>1. frames[i + 1].bound \subseteq frames'[i].bound
        BY <1>6
      <4> QED
        BY <3>2, <4>1
    <3>3. CASE \E m \in 1 .. i : prog[k].attr \in SetBy(frames[m])
      <4>1. PICK m \in 1 .. i : prog[k].attr \in SetBy(frames[m])
        BY <3>3
      <4>2. CASE i = 1
        <5>1. m = 1
          BY <4>2, SMT
        <5>2. prog[k].attr \in frames'[1].bound
          BY <1>6, <2>5, <4>1, <4>2, <5>1
        <5> QED
          BY <4>2, <5>2
      <4>3. CASE i # 1
        <5>1. m \in 1 .. i + 1 /\ m <= i
          BY <2>1, SMT
        <5> QED
          BY <2>2, <4>1, <4>3, <5>1
      <4> QED
        BY <4>2, <4>3
    <3> QED
      BY <3>1, <3>2, <3>3
  <2> QED
    BY <1>2, <1>3, <2>1, <2>4, <2>5 DEF SetBefore
<1> QED
  BY <1>7, <1>8, <1>9 DEF Scopes

LEMMA ScopesStep ==
  ASSUME Written, Written', Shape, Scopes, [Next]_vars
  PROVE  Scopes'
BY Steps, ScopesAssign, ScopesIf, ScopesElse, ScopesEndIf, ScopesOther

(* If all branches define the same locals, what is read can be read.       *)
LEMMA DefinedCompiles ==
  ASSUME Written, Shape, Scopes, pc <= Len(prog),
         \A k \in DOMAIN prog : prog[k].kind = "if" =>
           /\ AssignedIn(k, "if") = AssignedIn(k, "else")
           /\ \E i \in DOMAIN prog : Assigns(i, k, "if") \/ Assigns(i, k, "else")
  PROVE  ~Raises
<1>1. /\ prog \in Seq(Stmt) /\ Len(prog) \in Nat /\ DOMAIN prog = 1 .. Len(prog)
      /\ pc \in 1 .. Len(prog) /\ pc \in 1 .. Len(prog) + 1 /\ pc \in Nat
  <2>1. prog \in Seq(Stmt) /\ pc \in 1 .. Len(prog) + 1
    BY DEF Written
  <2>2. Len(prog) \in Nat /\ DOMAIN prog = 1 .. Len(prog)
    BY <2>1
  <2> QED
    BY <2>1, <2>2, SMT
<1>2. /\ stmt \in Stmt /\ stmt = prog[pc] /\ At(pc) = stmt.within
      /\ Legal(stmt) /\ Left(pc) /\ Nested(pc)
  BY <1>1 DEF Written, At, stmt
<1>3. /\ frames \in Seq(Frame) /\ DOMAIN frames = 1 .. Len(frames) /\ Len(frames) \in Nat
      /\ At(pc) \in Seq(Branch) /\ DOMAIN frames = DOMAIN At(pc)
  BY FramesAt
<1>4. \A v \in Locals : words.base[v] = v
  BY VocabulariesAssumption DEF Written
(* What is read anywhere in a conditional is an argument of its branches.  *)
<1>5. ASSUME NEW i \in DOMAIN frames, NEW j \in DOMAIN prog, At(pc)[i] \in Range(prog[j].within),
             NEW a \in InputSyms(j), words.base[a] \in Locals
      PROVE  words.base[a] \in frames[i].bound
  <2>1. At(pc)[i].id \in Blocks(j)
    BY <1>5 DEF Blocks, Range
  <2>2. words.base[a] \in BaseInSyms(At(pc)[i].id)
    BY <2>1 DEF BaseInSyms
  <2>3. ScopeOf(i)
    BY DEF Scopes
  <2> QED
    BY <1>5, <2>2, <2>3 DEF ScopeOf
<1>6. ASSUME NEW v \in Reads(stmt) \cap Locals PROVE Bound(v)
  <2> SUFFICES ASSUME NEW i \in DOMAIN frames PROVE v \in frames[i].bound
    BY DEF Bound
  <2>1. v \in InputSyms(pc) /\ words.base[v] = v
    BY <1>2, <1>4 DEF InputSyms
  <2>2. At(pc)[i] \in Range(prog[pc].within)
    BY <1>2, <1>3 DEF Range
  <2> QED
    BY <1>1, <1>5, <2>1, <2>2
<1>7. ASSUME stmt.kind = "if", NEW v \in BaseInSyms(pc) \cap Locals PROVE Bound(v)
  <2> SUFFICES ASSUME NEW i \in DOMAIN frames PROVE v \in frames[i].bound
    BY DEF Bound
  <2>1. PICK j \in DOMAIN prog : pc \in Blocks(j) /\ \E a \in InputSyms(j) : v = words.base[a]
    BY DEF BaseInSyms
  <2>2. At(pc)[i] \in Range(prog[pc].within)
    BY <1>2, <1>3 DEF Range
  <2>3. At(pc)[i] \in Range(prog[j].within)
    <3>1. CASE j = pc
      BY <2>2, <3>1
    <3>2. CASE j # pc
      <4>1. PICK n \in DOMAIN prog[j].within : prog[j].within[n].id = pc
        BY <2>1, <3>2 DEF Blocks
      <4>2. At(j) = prog[j].within /\ Nested(j)
        BY <1>1 DEF At, Written
      <4>3. Range(prog[pc].within) \subseteq Range(prog[j].within)
        BY <4>1, <4>2 DEF Nested
      <4> QED
        BY <2>2, <4>3
    <3> QED
      BY <3>1, <3>2
  <2>4. PICK a \in InputSyms(j) : v = words.base[a]
    BY <2>1
  <2> QED
    BY <1>5, <2>3, <2>4
(* What branches return has been assigned in both.                         *)
<1>8. ASSUME stmt.kind \in {"else", "endif"}
      PROVE  /\ 1 \in DOMAIN frames /\ Block(pc) = At(pc)[1].id /\ At(pc)[1] \in Branch
             /\ frames # <<>> /\ Head(frames) = frames[1] /\ frames[1] \in Frame
             /\ stmt.kind = "else"  => At(pc)[1].branch = "if"
             /\ stmt.kind = "endif" => At(pc)[1].branch = "else"
             /\ AssignedIn(Block(pc), "if") = AssignedIn(Block(pc), "else")
             /\ \E i \in DOMAIN prog : Assigns(i, Block(pc), "if") \/ Assigns(i, Block(pc), "else")
  <2>1. /\ At(pc) # <<>>
        /\ stmt.kind = "else"  => At(pc)[1].branch = "if"
        /\ stmt.kind = "endif" => At(pc)[1].branch = "else"
    BY <1>2, <1>8 DEF Legal
  <2>2. PICK at : at = At(pc)
    OBVIOUS
  <2>3. 1 \in DOMAIN at /\ at[1] \in Branch /\ Head(at) = at[1]
    BY <1>3, <2>1, <2>2, SMT
  <2>4. 1 \in DOMAIN frames /\ frames # <<>> /\ Head(frames) = frames[1] /\ frames[1] \in Frame
    BY <1>3, <2>2, <2>3, SMT
  <2>5. Block(pc) = at[1].id
    BY <1>2, <1>8, <2>1, <2>2, <2>3 DEF Block
  <2>6. at[1].id \in Nat \ {0} /\ at[1].id < pc /\ prog[at[1].id].kind = "if"
    BY <1>2, <2>2, <2>3 DEF Nested, Branch
  <2>7. at[1].id \in DOMAIN prog
    BY <1>1, <2>6, SMT
  <2> QED
    BY <2>1, <2>2, <2>3, <2>4, <2>5, <2>6, <2>7
<1>9. ASSUME stmt.kind \in {"else", "endif"}, NEW j \in DOMAIN prog, NEW branch \in {"if", "else"},
             Assigns(j, At(pc)[1].id, branch), stmt.kind = "endif" \/ branch = "if"
      PROVE  /\ j \in 1 .. pc - 1 /\ Assigned(j, [id |-> At(pc)[1].id, branch |-> branch])
             /\ [id |-> At(pc)[1].id, branch |-> branch] \in Branch
  <2>1. PICK b : b = [id |-> At(pc)[1].id, branch |-> branch]
    OBVIOUS
  <2>2. b \in Branch /\ b.id = At(pc)[1].id
    BY <1>8, <1>9, <2>1 DEF Branch
  <2>3. Assigned(j, b)
    BY <1>9, <2>1, AssignsIn
  <2>4. stmt.kind = "else" => b = At(pc)[1]
    BY <1>8, <1>9, <2>1 DEF Branch
  <2>5. j # pc
    BY <1>2, <1>9, <2>3 DEF Assigned
  <2>6. j <= pc
    <3> SUFFICES ASSUME j \in pc + 1 .. Len(prog) + 1 PROVE FALSE
      BY <1>1, SMT
    <3>1. At(j) = prog[j].within
      BY <1>1 DEF At
    <3>2. PICK n \in DOMAIN At(j) : At(j)[n] = b
      BY <2>3, <3>1 DEF Assigned, Range
    <3>3. /\ prog[pc].kind = "else"  => At(j)[n] # At(pc)[1]
          /\ prog[pc].kind = "endif" => At(j)[n].id # At(pc)[1].id
      BY <1>2 DEF Left
    <3> QED
      BY <1>2, <1>9, <2>2, <2>4, <3>2, <3>3
  <2>7. j \in 1 .. pc - 1
    BY <1>1, <2>5, <2>6, SMT
  <2> QED
    BY <2>1, <2>2, <2>3, <2>7
<1>10. ASSUME stmt.kind \in {"else", "endif"},
              NEW v \in AssignedIn(Block(pc), "if") \cup AssignedIn(Block(pc), "else")
       PROVE  Bound(v)
  <2>1. PICK branch \in {"if", "else"} : branch = At(pc)[1].branch
    BY <1>8, <1>10
  <2>2. v \in AssignedIn(Block(pc), branch)
    BY <1>8, <1>10, <2>1
  <2>3. v \in Locals /\ \E j \in DOMAIN prog : prog[j].attr = v /\ Assigns(j, At(pc)[1].id, branch)
    BY <1>8, <1>10, <2>2 DEF AssignedIn
  <2>4. PICK j \in DOMAIN prog : prog[j].attr = v /\ Assigns(j, At(pc)[1].id, branch)
    BY <2>3
  <2>5. j \in 1 .. pc - 1 /\ Assigned(j, At(pc)[1])
    <3>1. stmt.kind = "endif" \/ branch = "if"
      BY <1>8, <1>10, <2>1
    <3>2. At(pc)[1] = [id |-> At(pc)[1].id, branch |-> branch]
      BY <1>8, <1>10, <2>1 DEF Branch
    <3> QED
      BY <1>9, <1>10, <2>4, <3>1, <3>2
  <2>6. SetBefore(1) /\ ScopeOf(1)
    BY <1>8, <1>10 DEF Scopes
  <2>7. v \in frames[1].bound
    <3>1. v \in frames[1].bound \/ \E m \in 1 .. 1 - 1 : v \in SetBy(frames[m])
      BY <2>3, <2>4, <2>5, <2>6 DEF SetBefore
    <3>2. 1 .. 1 - 1 = {}
      BY SMT
    <3> QED
      BY <3>1, <3>2
  <2>8. v \in frames[1].scope
    BY <2>6, <2>7 DEF ScopeOf
  <2> SUFFICES ASSUME NEW i \in DOMAIN frames, \A k \in 1 .. i - 1 : v \notin frames[k].scope
               PROVE  v \in frames[i].bound
    BY DEF Bound
  <2>9. i = 1
    <3>1. i # 1 => 1 \in 1 .. i - 1
      BY <1>3, SMT
    <3> QED
      BY <2>8, <3>1
  <2> QED
    BY <2>7, <2>9
<1>11. stmt.kind = "endif" => Targets(Head(frames)) # <<>>
  <2> SUFFICES ASSUME stmt.kind = "endif" PROVE Targets(frames[1]) # <<>>
    BY <1>8
  <2>1. PICK j \in DOMAIN prog, branch \in {"if", "else"} : Assigns(j, At(pc)[1].id, branch)
    BY <1>8
  <2>2. /\ j \in 1 .. pc - 1 /\ Assigned(j, [id |-> At(pc)[1].id, branch |-> branch])
        /\ [id |-> At(pc)[1].id, branch |-> branch] \in Branch
    BY <1>9, <2>1
  <2>3. SetBefore(1) /\ SaneFrame(frames[1], inputs)
    BY <1>8 DEF Scopes, Shape
  <2>4. prog[j].attr \in Touched(1)
    <3>1. PICK b \in Branch : b = [id |-> At(pc)[1].id, branch |-> branch]
      BY <2>2
    <3>2. b.id = At(pc)[1].id /\ Assigned(j, b)
      BY <2>2, <3>1
    <3> QED
      BY <2>2, <2>3, <3>2 DEF SetBefore
  <2>5. prog[j].attr \in SetBy(frames[1])
    <3>1. 1 .. 1 = {1}
      BY SMT
    <3> QED
      BY <2>4, <3>1 DEF Touched
  <2>6. Range(Targets(frames[1])) = SetBy(frames[1])
    <3>1. frames[1] \in Frame /\ Once(frames[1].own) /\ Once(frames[1].nested)
      BY <1>8, <2>3 DEF SaneFrame
    <3> QED
      BY <3>1, TargetsOnce DEF SetBy
  <2>7. Range(<<>>) = {}
    BY SMT DEF Range
  <2> QED
    BY <2>5, <2>6, <2>7
<1>12. ASSUME NEW v \in Uses \cap Locals PROVE Bound(v)
  <2>1. stmt.kind \in {"assign", "if", "else", "endif"}
    BY <1>2, StmtParts
  <2>2. CASE stmt.kind = "assign"
    <3>1. Uses = Reads(stmt)
      BY <2>2, SMT DEF Uses
    <3> QED
      BY <1>6, <3>1
  <2>3. CASE stmt.kind = "if"
    <3>1. Uses = Reads(stmt) \cup BaseInSyms(pc)
      BY <2>3, SMT DEF Uses
    <3> QED
      BY <1>6, <1>7, <2>3, <3>1
  <2>4. CASE stmt.kind \in {"else", "endif"}
    <3>1. Uses = AssignedIn(Block(pc), "if") \cup AssignedIn(Block(pc), "else")
      BY <2>4, SMT DEF Uses
    <3> QED
      BY <1>10, <2>4, <3>1
  <2> QED
    BY <2>1, <2>2, <2>3, <2>4
<1> QED
  BY <1>11, <1>12 DEF Raises

LEMMA DefinedStep ==
  ASSUME Written, Shape, Scopes, DefinedNeverRaises, [Next]_vars
  PROVE  DefinedNeverRaises'
<1>1. CASE PlotRaises
  <2>1. pc <= Len(prog) /\ Raises /\ prog' = prog
    BY <1>1 DEF PlotRaises
  <2>2. \E k \in DOMAIN prog :
          /\ prog[k].kind = "if"
          /\ \/ AssignedIn(k, "if") # AssignedIn(k, "else")
             \/ ~\E i \in DOMAIN prog : Assigns(i, k, "if") \/ Assigns(i, k, "else")
    BY <2>1, DefinedCompiles
  <2> QED
    BY <2>1, <2>2 DEF DefinedNeverRaises, AssignedIn, Assigns
<1>2. CASE phase' # "raised"
  BY <1>2 DEF DefinedNeverRaises
<1>3. CASE UNCHANGED <<phase, prog>>
  <2>1. \A i, k, branch : Assigns(i, k, branch)' <=> Assigns(i, k, branch)
    BY <1>3 DEF Assigns
  <2>2. \A k, branch : AssignedIn(k, branch)' = AssignedIn(k, branch)
    BY <1>3 DEF AssignedIn, Assigns
  <2> QED
    BY <1>3, <2>1, <2>2 DEF DefinedNeverRaises
<1>4. PlotRaises \/ phase' # "raised" \/ UNCHANGED <<phase, prog>>
  <2>1. CASE PlotAssign \/ PlotIf \/ PlotElse \/ PlotEndIf
    <3>1. phase = "plot" /\ phase' = phase
      BY <2>1 DEF PlotAssign, PlotIf, PlotElse, PlotEndIf, Plot
    <3> QED
      BY <3>1, Zenon
  <2>2. CASE OtherStep
    BY <2>2 DEF OtherStep, Write, Compile, Graph, Mutate, vars
  <2> QED
    BY <2>1, <2>2, Steps
<1> QED
  BY <1>1, <1>2, <1>3, <1>4

-----------------------------------------------------------------------------
(* Functions that are safely written.  First, where what has been recorded *)
(* by now comes from: an assignment before, and for what the branches of a *)
(* conditional have set one in them.                                       *)
Earlier(a) == \E k \in 1 .. pc - 1 : prog[k].kind = "assign" /\ prog[k].attr = a

SetHere(i) ==
  \A a \in SetBy(frames[i]) : \E k \in 1 .. pc - 1, b \in Branch :
    /\ Assigned(k, b) /\ prog[k].attr = a /\ b.id = At(pc)[i].id
    /\ At(pc)[i].branch = "if" => b.branch = "if"

Provenance ==
  /\ \A a \in Recorded(outputs) \cap Attrs : Earlier(a)
  /\ \A i \in DOMAIN frames :
       SetHere(i) /\ \A a \in Recorded(frames[i].outer) \cap Attrs : Earlier(a)

LEMMA RecordsMore ==
  ASSUME NEW outs, NEW f
  PROVE  /\ \A a, node : Recorded(SetAttr(outs, a, node)) \subseteq Recorded(outs) \cup {a}
         /\ \A attrs, node : Recorded(SetAll(outs, attrs, node)) = Recorded(outs) \cup Range(attrs)
         /\ Recorded(Outside(f)) \subseteq Recorded(f.outer) \cup Recorded(outputs)
<1>1. ASSUME NEW attrs, NEW node
      PROVE  Recorded(SetAll(outs, attrs, node)) = Recorded(outs) \cup Range(attrs)
  BY DEF SetAll, Recorded
<1>2. ASSUME NEW a, NEW node
      PROVE  Recorded(SetAttr(outs, a, node)) \subseteq Recorded(outs) \cup {a}
  <2>1. Range(<<a>>) = {a}
    BY SMT DEF Range
  <2> QED
    BY <1>1, <2>1 DEF SetAttr
<1>3. Recorded(Outside(f)) \subseteq Recorded(f.outer) \cup Recorded(outputs)
  BY DEF Outside, Recorded
<1> QED
  BY <1>1, <1>2, <1>3

LEMMA EarlierStill ==
  ASSUME Written, NEW kind, Plot(kind), NEW a
  PROVE  /\ Earlier(a) => Earlier(a)'
         /\ kind = "assign" /\ stmt.attr = a => Earlier(a)'
<1>1. /\ pc \in 1 .. Len(prog) /\ 1 .. pc' - 1 = 1 .. pc /\ 1 .. pc - 1 \subseteq 1 .. pc
      /\ UNCHANGED prog
  BY PlotScopes
<1>2. pc \in 1 .. pc /\ stmt = prog[pc] /\ stmt.kind = kind
  BY <1>1, PlotStep, SMT DEF stmt
<1> QED
  BY <1>1, <1>2 DEF Earlier

(* Frame i goes on as frame j.                                             *)
LEMMA SetHereStill ==
  ASSUME Written, NEW kind, Plot(kind), NEW i, NEW j, SetHere(i),
         SetBy(frames'[j]) \subseteq SetBy(frames[i]),
         At(pc)'[j].id = At(pc)[i].id,
         At(pc)'[j].branch = "if" => At(pc)[i].branch = "if"
  PROVE  SetHere(j)'
<1> DEFINE at == At(pc)'[j]
           by == SetBy(frames'[j])
<1>1. /\ 1 .. pc' - 1 = 1 .. pc /\ 1 .. pc - 1 \subseteq 1 .. pc
      /\ UNCHANGED <<prog, words>>
  BY PlotScopes
<1>2. ASSUME NEW a \in by
      PROVE  \E k \in 1 .. pc' - 1, b \in Branch :
               /\ Assigned(k, b)' /\ prog'[k].attr = a /\ b.id = at.id
               /\ at.branch = "if" => b.branch = "if"
  <2>1. PICK k \in 1 .. pc - 1, b \in Branch :
               /\ Assigned(k, b) /\ prog[k].attr = a /\ b.id = At(pc)[i].id
               /\ At(pc)[i].branch = "if" => b.branch = "if"
    BY <1>2 DEF SetHere
  <2>2. Assigned(k, b)' /\ k \in 1 .. pc' - 1
    BY <1>1, <2>1, SameFunction
  <2> QED
    BY <1>1, <2>1, <2>2
<1>3. Branch' = Branch
  BY DEF Branch
<1> QED
  BY <1>2, <1>3 DEF SetHere

LEMMA SetHereNow ==
  ASSUME Written, Shape, PlotAssign, 1 \in DOMAIN frames, SetHere(1)
  PROVE  SetHere(1)'
<1>1. Plot("assign") /\ At(pc)' = At(pc) /\ stmt.kind = "assign"
  BY AssignStep DEF PlotAssign
<1>2. /\ pc \in 1 .. pc' - 1 /\ 1 .. pc - 1 \subseteq 1 .. pc' - 1
      /\ UNCHANGED <<prog, words>>
  BY <1>1, PlotScopes, SMT
<1>3. SetBy(frames'[1]) = SetBy(frames[1]) \cup {stmt.attr}
  BY AssignSets
<1>4. At(pc)[1] \in Range(At(pc)) /\ At(pc)[1] \in Branch
  <2>1. At(pc) \in Seq(Branch) /\ 1 \in DOMAIN At(pc)
    BY FramesAt
  <2> QED
    BY <2>1 DEF Range
<1>5. Assigned(pc, At(pc)[1])
  BY <1>1, <1>4, PlotScopes
<1> DEFINE at == At(pc)[1]
           by == SetBy(frames'[1])
<1>6. ASSUME NEW a \in by
      PROVE  \E k \in 1 .. pc' - 1, b \in Branch :
               /\ Assigned(k, b)' /\ prog'[k].attr = a /\ b.id = at.id
               /\ at.branch = "if" => b.branch = "if"
  <2>1. CASE a = stmt.attr
    <3>1. PICK k \in 1 .. pc' - 1, b \in Branch :
                 Assigned(k, b) /\ prog[k].attr = a /\ b = at
      BY <1>2, <1>4, <1>5, <2>1 DEF stmt
    <3>2. Assigned(k, b)'
      BY <1>2, <3>1, SameFunction
    <3> QED
      BY <1>2, <3>1, <3>2
  <2>2. CASE a \in SetBy(frames[1])
    <3>1. PICK k \in 1 .. pc - 1, b \in Branch :
                 /\ Assigned(k, b) /\ prog[k].attr = a /\ b.id = at.id
                 /\ at.branch = "if" => b.branch = "if"
      BY <2>2 DEF SetHere
    <3>2. Assigned(k, b)' /\ k \in 1 .. pc' - 1
      BY <1>2, <3>1, SameFunction
    <3> QED
      BY <1>2, <3>1, <3>2
  <2> QED
    BY <1>3, <1>6, <2>1, <2>2
<1>7. Branch' = Branch /\ at = At(pc)'[1]
  BY <1>1 DEF Branch
<1> HIDE DEF at
<1> QED
  BY <1>6, <1>7 DEF SetHere

(* What a conditional has set is set in the branch around it.              *)
LEMMA SetHereNested ==
  ASSUME Written, Shape, Scopes, PlotEndIf, 2 \in DOMAIN frames, SetHere(2)
  PROVE  SetHere(1)'
<1>1. Plot("endif") /\ 1 \in DOMAIN frames /\ 1 \in DOMAIN frames'
  <2>1. frames \in Seq(Frame) /\ frames' \in Seq(Frame) /\ Len(frames') = Len(frames) - 1
    BY EndIfStep DEF Shape
  <2> QED
    BY <2>1, SMT DEF PlotEndIf
<1>2. /\ 1 .. pc' - 1 = 1 .. pc /\ 1 .. pc - 1 \subseteq 1 .. pc
      /\ UNCHANGED <<prog, words>>
  BY <1>1, PlotScopes
<1>3. /\ SetBy(frames'[1]) = SetBy(frames[2]) \cup SetBy(frames[1])
      /\ At(pc)'[1] = At(pc)[2]
  <2>1. 1 + 1 = 2
    OBVIOUS
  <2> QED
    BY <1>1, <2>1, EndIfSets
<1> DEFINE at == At(pc)[2]
           by == SetBy(frames'[1])
<1>4. at \in Branch
  <2>1. At(pc) \in Seq(Branch) /\ 2 \in DOMAIN At(pc)
    BY FramesAt
  <2> QED
    BY <2>1
<1>5. ASSUME NEW a \in by
      PROVE  \E k \in 1 .. pc - 1, b \in Branch :
               /\ Assigned(k, b) /\ prog[k].attr = a /\ b.id = at.id
               /\ at.branch = "if" => b.branch = "if"
  <2>1. CASE a \in SetBy(frames[2])
    BY <2>1 DEF SetHere
  <2>2. CASE a \in SetBy(frames[1])
    <3>1. PICK k \in 1 .. pc - 1 :
                 /\ prog[k].attr = a
                 /\ \A m \in DOMAIN frames : m > 1 => Assigned(k, At(pc)[m])
      BY <1>1, <2>2 DEF Scopes, SetWithin
    <3>2. Assigned(k, at)
      BY <3>1
    <3> QED
      BY <1>4, <3>1, <3>2
  <2> QED
    BY <1>3, <1>5, <2>1, <2>2
<1>6. ASSUME NEW a \in by
      PROVE  \E k \in 1 .. pc' - 1, b \in Branch :
               /\ Assigned(k, b)' /\ prog'[k].attr = a /\ b.id = at.id
               /\ at.branch = "if" => b.branch = "if"
  <2>1. PICK k \in 1 .. pc - 1, b \in Branch :
               /\ Assigned(k, b) /\ prog[k].attr = a /\ b.id = at.id
               /\ at.branch = "if" => b.branch = "if"
    BY <1>5, <1>6
  <2>2. Assigned(k, b)' /\ k \in 1 .. pc' - 1
    BY <1>2, <2>1, SameFunction
  <2> QED
    BY <1>2, <2>1, <2>2
<1>7. Branch' = Branch
  BY DEF Branch
<1> HIDE DEF at
<1> QED
  BY <1>3, <1>6, <1>7 DEF SetHere, at

LEMMA ProvenanceStep ==
  ASSUME Written, Written', Shape, Scopes, Provenance, [Next]_vars
  PROVE  Provenance'
<1>1. CASE OtherStep
  <2>1. UNCHANGED <<outputs, frames, pc, At(pc)>>
    BY <1>1, NothingRecorded
  <2>2. \A k \in 1 .. pc - 1 : prog'[k] = prog[k]
    <3>1. ASSUME NEW s, Write(s) PROVE 1 .. pc - 1 = {}
      <4>1. pc = 1
        BY <3>1 DEF Write, Written
      <4> QED
        BY <4>1, SMT
    <3>2. (\E s : Write(s)) \/ UNCHANGED prog
      BY <1>1 DEF OtherStep, Compile, PlotRaises, Graph, Mutate, vars
    <3> QED
      BY <3>1, <3>2
  <2>3. ASSUME NEW a, Earlier(a) PROVE Earlier(a)'
    BY <2>1, <2>2, <2>3 DEF Earlier
  <2>4. ASSUME NEW i, SetHere(i) PROVE SetHere(i)'
    <3>1. \A k \in 1 .. pc - 1, b \in Branch : Assigned(k, b)' <=> Assigned(k, b)
      BY <2>2 DEF Assigned
    <3>2. Branch' = Branch /\ SetBy(frames[i])' = SetBy(frames[i]) /\ At(pc)'[i] = At(pc)[i]
      BY <2>1 DEF Branch, SetBy
    <3> QED
      BY <2>1, <2>2, <2>4, <3>1, <3>2 DEF SetHere
  <2> QED
    BY <2>1, <2>3, <2>4 DEF Provenance
<1>2. CASE PlotAssign
  <2>1. Plot("assign")
    BY <1>2 DEF PlotAssign
  <2>2. /\ outputs' = SetAttr(outputs, stmt.attr, NodeOf(stmt.expr))
        /\ DOMAIN frames' = DOMAIN frames /\ At(pc)' = At(pc)
    BY <1>2, AssignStep
  <2>3. Recorded(outputs') \subseteq Recorded(outputs) \cup {stmt.attr}
    BY <2>2, RecordsMore
  <2>4. \A a \in Recorded(outputs') \cap Attrs : Earlier(a)'
    BY <2>1, <2>3, EarlierStill DEF Provenance
  <2>5. ASSUME NEW i \in DOMAIN frames PROVE SetHere(i)'
    <3>1. SetHere(i)
      BY DEF Provenance
    <3>2. CASE i # 1
      <4>1. SetBy(frames'[i]) = SetBy(frames[i])
        BY <1>2, <3>2, AssignSets
      <4> QED
        BY <2>1, <2>2, <3>1, <4>1, SetHereStill
    <3>3. CASE i = 1
      BY <1>2, <2>1, <3>1, <3>3, SetHereNow
    <3> QED
      BY <3>2, <3>3
  <2>6. \A i \in DOMAIN frames : frames'[i].outer = frames[i].outer
    BY <1>2, AssignSets
  <2>7. \A i \in DOMAIN frames : \A a \in Recorded(frames'[i].outer) \cap Attrs : Earlier(a)'
    BY <2>1, <2>6, EarlierStill DEF Provenance
  <2> QED
    BY <2>2, <2>4, <2>5, <2>7 DEF Provenance
<1>3. CASE PlotIf
  <2>1. Plot("if") /\ outputs' = outputs
    BY <1>3 DEF PlotIf
  <2>2. \A a \in Recorded(outputs) \cap Attrs : Earlier(a)'
    BY <2>1, EarlierStill DEF Provenance
  <2>3. ASSUME NEW i \in DOMAIN frames'
        PROVE  SetHere(i)' /\ \A a \in Recorded(frames'[i].outer) \cap Attrs : Earlier(a)'
    <3>1. CASE i = 1
      <4>1. SetBy(frames'[1]) = {} /\ frames'[1].outer = outputs
        BY <1>3, IfSets
      <4> QED
        BY <2>2, <3>1, <4>1 DEF SetHere
    <3>2. CASE i # 1
      <4>1. i - 1 \in DOMAIN frames /\ frames'[i] = frames[i - 1]
        BY <1>3, <3>2, IfStep
      <4>2. At(pc)'[i] = At(pc)[i - 1]
        <5>1. At(pc)'[(i - 1) + 1] = At(pc)[i - 1]
          BY <1>3, <4>1, IfSets
        <5>2. (i - 1) + 1 = i
          BY <1>3, IfStep, SMT
        <5> QED
          BY <5>1, <5>2
      <4>3. SetHere(i - 1) /\ \A a \in Recorded(frames[i - 1].outer) \cap Attrs : Earlier(a)
        BY <4>1 DEF Provenance
      <4>4. SetHere(i)'
        BY <2>1, <4>1, <4>2, <4>3, SetHereStill
      <4> QED
        BY <2>1, <4>1, <4>3, <4>4, EarlierStill
    <3> QED
      BY <3>1, <3>2
  <2> QED
    BY <2>1, <2>2, <2>3 DEF Provenance
<1>4. CASE PlotElse
  <2>1. Plot("else")
    BY <1>4 DEF PlotElse
  <2>2. /\ outputs' = Outside(frames[1]) /\ DOMAIN frames' = DOMAIN frames
        /\ 1 \in DOMAIN frames
    BY <1>4, ElseStep
  <2>3. \A a \in Recorded(outputs') \cap Attrs : Earlier(a)'
    BY <2>1, <2>2, RecordsMore, EarlierStill DEF Provenance
  <2>4. ASSUME NEW i \in DOMAIN frames
        PROVE  SetHere(i)' /\ \A a \in Recorded(frames'[i].outer) \cap Attrs : Earlier(a)'
    <3>1. SetHere(i) /\ \A a \in Recorded(frames[i].outer) \cap Attrs : Earlier(a)
      BY DEF Provenance
    <3>2. SetBy(frames'[i]) = SetBy(frames[i]) /\ frames'[i].outer = frames[i].outer
      BY <1>4, ElseSets
    <3>3. At(pc)'[i].id = At(pc)[i].id /\ (At(pc)'[i].branch = "if" => At(pc)[i].branch = "if")
      <4>1. i \in DOMAIN At(pc)
        BY FramesAt
      <4> QED
        BY <1>4, <4>1, ElseStep
    <3>4. SetHere(i)'
      BY <2>1, <3>1, <3>2, <3>3, SetHereStill
    <3> QED
      BY <2>1, <3>1, <3>2, <3>4, EarlierStill
  <2> QED
    BY <2>2, <2>3, <2>4 DEF Provenance
<1>5. CASE PlotEndIf
  <2>1. Plot("endif")
    BY <1>5 DEF PlotEndIf
  <2>2. /\ outputs' = SetAll(Outside(frames[1]), Targets(frames[1]), Merged(frames[1]))
        /\ 1 \in DOMAIN frames /\ SetBy(frames[1]) = Range(Targets(frames[1]))
    BY <1>5, EndIfStep, EndIfSets
  <2>3. \A a \in SetBy(frames[1]) : Earlier(a)
    BY <2>2 DEF Provenance, SetHere, Earlier, Assigned
  <2>4. \A a \in Recorded(outputs') \cap Attrs : Earlier(a)'
    BY <2>1, <2>2, <2>3, RecordsMore, EarlierStill DEF Provenance
  <2>5. ASSUME NEW i \in DOMAIN frames'
        PROVE  SetHere(i)' /\ \A a \in Recorded(frames'[i].outer) \cap Attrs : Earlier(a)'
    <3>1. /\ i + 1 \in DOMAIN frames /\ frames'[i].outer = frames[i + 1].outer
          /\ At(pc)'[i] = At(pc)[i + 1]
          /\ SetBy(frames'[i]) = IF i = 1 THEN SetBy(frames[2]) \cup SetBy(frames[1])
                                          ELSE SetBy(frames[i + 1])
      BY <1>5, EndIfStep, EndIfSets
    <3>2. SetHere(i + 1) /\ \A a \in Recorded(frames[i + 1].outer) \cap Attrs : Earlier(a)
      BY <3>1 DEF Provenance
    <3>3. SetHere(i)'
      <4>1. CASE i # 1
        <5>1. SetBy(frames'[i]) = SetBy(frames[i + 1])
          BY <3>1, <4>1
        <5> QED
          BY <2>1, <3>1, <3>2, <5>1, SetHereStill
      <4>2. CASE i = 1
        <5>1. 2 \in DOMAIN frames /\ SetHere(2)
          <6>1. i + 1 = 2
            BY <4>2
          <6> QED
            BY <3>1, <3>2, <6>1
        <5>2. SetHere(1)'
          BY <1>5, <5>1, SetHereNested
        <5> QED
          BY <4>2, <5>2
      <4> QED
        BY <4>1, <4>2
    <3> QED
      BY <2>1, <3>1, <3>2, <3>3, EarlierStill
  <2> QED
    BY <2>4, <2>5 DEF Provenance
<1> QED
  BY <1>1, <1>2, <1>3, <1>4, <1>5, Steps

(* What a conditional reads of what was assigned before it is in the scope *)
(* of its branches.                                                        *)
LEMMA ReadInside ==
  ASSUME Written, NEW k \in DOMAIN prog, NEW b \in Attrs, NEW d \in Assignments(b), d < k,
         NEW j \in DOMAIN prog, k \in Blocks(j), b \in Reads(prog[j])
  PROVE  words.base[b] \in BaseInSyms(k)
<1>1. /\ prog \in Seq(Stmt) /\ DOMAIN prog = 1 .. Len(prog) /\ Len(prog) \in Nat
      /\ d \in DOMAIN prog /\ prog[d].kind = "assign"
  BY DEF Written, Assignments
<1>2. ASSUME NEW i \in DOMAIN prog
      PROVE  /\ prog[i].within \in Seq(Branch) /\ i \in Nat
             /\ \A n \in DOMAIN prog[i].within :
                  prog[i].within[n].id \in Nat /\ prog[i].within[n].id < i
             /\ \A n, m \in DOMAIN prog[i].within :
                  n < m => prog[i].within[m].id < prog[i].within[n].id
  <2>1. i \in 1 .. Len(prog) + 1 /\ i <= Len(prog) /\ i \in Nat
    BY <1>1, SMT
  <2>2. At(i) = prog[i].within /\ Nested(i) /\ prog[i] \in Stmt
    BY <1>1, <2>1 DEF At, Written
  <2>3. prog[i].within \in Seq(Branch)
    BY <2>2 DEF Stmt
  <2>4. \A n \in DOMAIN prog[i].within : prog[i].within[n].id \in Nat
    <3>1. \A n \in DOMAIN prog[i].within : prog[i].within[n] \in Branch
      BY <2>3
    <3> QED
      BY <3>1 DEF Branch
  <2> QED
    BY <2>1, <2>2, <2>3, <2>4 DEF Nested
<1>3. Block(j) \in Nat /\ k <= Block(j) /\ k <= j
  <2> DEFINE w == prog[j].within
  <2>1. /\ w \in Seq(Branch) /\ \A n \in DOMAIN w : w[n].id \in Nat /\ w[n].id < j
        /\ \A n, m \in DOMAIN w : n < m => w[m].id < w[n].id
        /\ j \in Nat
    BY <1>2
  <2>2. k \in {w[n].id : n \in DOMAIN w} \/ (prog[j].kind = "if" /\ k = j)
    BY DEF Blocks
  <2>3. /\ prog[j].kind = "if" => Block(j) = j
        /\ prog[j].kind # "if" /\ w # <<>> => Block(j) = Head(w).id
    BY DEF Block
  <2> HIDE DEF w
  <2>4. CASE prog[j].kind = "if"
    BY <2>1, <2>2, <2>3, <2>4, SMT
  <2>5. CASE prog[j].kind # "if"
    <3>1. PICK n \in DOMAIN w : k = w[n].id
      BY <2>2, <2>5
    <3>2. w # <<>> /\ 1 \in DOMAIN w /\ Head(w) = w[1] /\ (n = 1 \/ 1 < n)
      BY <2>1, <3>1, SMT
    <3>3. w[1].id \in Nat /\ w[n].id \in Nat /\ (n = 1 \/ w[n].id < w[1].id) /\ w[n].id < j
      BY <2>1, <3>1, <3>2
    <3>4. Block(j) = w[1].id
      BY <2>3, <2>5, <3>2
    <3> QED
      BY <2>1, <3>1, <3>3, <3>4, SMT
  <2> QED
    BY <2>4, <2>5
<1>4. Block(d) \in Nat /\ Block(d) < k
  <2> DEFINE w == prog[d].within
  <2>1. /\ w \in Seq(Branch) /\ \A n \in DOMAIN w : w[n].id \in Nat /\ w[n].id < d
        /\ d \in Nat /\ k \in Nat \ {0}
    BY <1>1, <1>2
  <2>2. Block(d) = IF w = <<>> THEN 0 ELSE Head(w).id
    BY <1>1 DEF Block
  <2> HIDE DEF w
  <2>3. CASE w = <<>>
    BY <2>1, <2>2, <2>3, SMT
  <2>4. CASE w # <<>>
    <3>1. 1 \in DOMAIN w /\ Head(w) = w[1]
      BY <2>1, <2>4, SMT
    <3>2. w[1].id \in Nat /\ w[1].id < d /\ Block(d) = w[1].id
      BY <2>1, <2>2, <2>4, <3>1
    <3> QED
      BY <2>1, <3>2, SMT
  <2> QED
    BY <2>3, <2>4
<1>5. d <= j /\ Block(d) # Block(j)
  <2>1. d \in Nat /\ k \in Nat /\ j \in Nat
    BY <1>1, <1>2
  <2> QED
    BY <1>3, <1>4, <2>1, SMT
<1>6. b \in InputSyms(j)
  BY <1>5 DEF InputSyms
<1> QED
  BY <1>6 DEF BaseInSyms

(* No assignment is ignored that is not of an attribute to itself.         *)
LEMMA NothingIgnored ==
  ASSUME Written, Shape, Provenance, SafelyWritten, PlotAssign, ~ignored
  PROVE  ~ignored'
<1> DEFINE a == stmt.attr
           node == NodeOf(stmt.expr)
<1>1. /\ a \in Vars /\ stmt.expr \in Expr /\ stmt.kind = "assign" /\ pc \in DOMAIN prog
      /\ ignored' = (ignored \/ (node.plain = a /\ a \in Recorded(outputs)))
  <2>1. Plot("assign")
    BY DEF PlotAssign
  <2>2. pc \in 1 .. Len(prog) /\ prog \in Seq(Stmt)
    BY <2>1, PlotStep DEF Written
  <2> QED
    BY <2>2, AssignStep
<1> SUFFICES ASSUME node.plain = a, a \in Recorded(outputs)
             PROVE  FALSE
  BY <1>1
<1> HIDE DEF node
<1>2. stmt.expr.op = "var" /\ a \in Attrs
  <2>1. Sane(outputs, inputs)
    BY DEF Shape
  <2>2. a # NoAttr
    BY <1>1, NoAttrAssumption
  <2>3. CASE stmt.expr.op = "const"
    <3>1. node = Const(stmt.expr.val)
      BY <2>3, SMT DEF NodeOf, node
    <3> QED
      BY <2>2, <3>1 DEF Const
  <2>4. CASE stmt.expr.op = "add"
    <3>1. node = Add(GetAttr(outputs, stmt.expr.from), stmt.expr.val)
      BY <2>4, SMT DEF NodeOf, node
    <3> QED
      BY <2>2, <3>1 DEF Add
  <2>5. CASE stmt.expr.op = "ternary"
    <3>1. node = Switch(Holds(stmt.expr.test, stmt.expr.val),
                        GetAttr(outputs, stmt.expr.from), GetAttr(outputs, stmt.expr.other))
      BY <2>5, SMT DEF NodeOf, node
    <3> QED
      BY <2>2, <3>1 DEF Switch
  <2>6. CASE stmt.expr.op = "var" /\ stmt.expr.from \in Vars
    <3>1. node = GetAttr(outputs, stmt.expr.from)
      BY <2>6, SMT DEF NodeOf, node
    <3>2. node \in Node
      BY <2>1, <2>6, <3>1, GetAttrClean
    <3> QED
      BY <2>2, <2>6, <3>2 DEF Node
  <2> QED
    BY <1>1, <2>3, <2>4, <2>5, <2>6, ExprReads
<1>3. Earlier(a)
  BY <1>2 DEF Provenance
<1>4. PICK d \in 1 .. pc - 1 : prog[d].kind = "assign" /\ prog[d].attr = a
  BY <1>3 DEF Earlier
<1>5. d \in DOMAIN prog /\ ~ (pc <= d)
  <2>1. pc \in 1 .. Len(prog) /\ DOMAIN prog = 1 .. Len(prog)
    BY <1>1 DEF Written
  <2> QED
    BY <2>1, SMT
<1>6. pc \in Assignments(a) /\ d \in Assignments(a)
  BY <1>1, <1>4, <1>5 DEF Assignments, stmt
<1> QED
  BY <1>2, <1>5, <1>6 DEF SafelyWritten, CopiedFirst, stmt

(* No else branch sees what the if branch has set.                         *)
LEMMA NothingLeaked ==
  ASSUME Written, Shape, Untouched, Scopes, Provenance, SafelyWritten, PlotElse, ~leaked
  PROVE  ~leaked'
<1> DEFINE f == frames[1]
           k == At(pc)[1].id
<1>1. /\ outputs' = Outside(f) /\ 1 \in DOMAIN frames /\ At(pc)[1].branch = "if"
      /\ leaked' = (leaked \/ \E a \in Attrs : GetAttr(outputs', a) # GetAttr(f.outer, a))
  BY ElseStep
<1> SUFFICES ASSUME NEW a \in Attrs
             PROVE  GetAttr(Outside(f), a) = GetAttr(f.outer, a)
  BY <1>1
<1>2. CASE a \notin SetBy(f)
  <2>1. GetAttr(outputs, a) = GetAttr(f.outer, a)
    BY <1>1, <1>2 DEF Untouched, OutsIn, Vars
  <2> QED
    BY <2>1, OutsideGets
<1>3. CASE a \in SetBy(f)
  <2>1. PICK i \in 1 .. pc - 1, b \in Branch :
               Assigned(i, b) /\ prog[i].attr = a /\ b.id = k /\ b.branch = "if"
    BY <1>1, <1>3 DEF Provenance, SetHere
  <2>2. i \in DOMAIN prog /\ prog \in Seq(Stmt) /\ pc \in 1 .. Len(prog) /\ At(pc) \in Seq(Branch)
    <3>1. Plot("else")
      BY DEF PlotElse
    <3>2. pc \in 1 .. Len(prog) /\ prog \in Seq(Stmt) /\ At(pc) \in Seq(Branch)
      BY <3>1, PlotStep DEF Written
    <3> QED
      BY <2>1, <3>2, SMT
  <2>3. b = [id |-> k, branch |-> "if"]
    BY <2>1 DEF Branch
  <2>4. Assigns(i, k, "if")
    BY <2>1, <2>2, <2>3, AssignsIn
  <2>5. k \in DOMAIN prog
    <3>1. 1 \in DOMAIN At(pc) /\ At(pc)[1] \in Branch /\ Nested(pc)
      BY <1>1, <2>2, FramesAt DEF Written
    <3>2. k < pc /\ k \in Nat \ {0}
      BY <3>1 DEF Nested, Branch
    <3> QED
      BY <2>2, <3>2, SMT
  <2>6. PICK c \in Attrs :
          /\ words.base[c] = words.base[a]
          /\ \E d \in Assignments(c) : d < k
          /\ \E j \in DOMAIN prog : k \in Blocks(j) /\ c \in Reads(prog[j])
    BY <2>1, <2>2, <2>4, <2>5 DEF SafelyWritten, BranchesApart
  <2>7. words.base[a] \in BaseInSyms(k)
    BY <2>5, <2>6, ReadInside
  <2>8. f.args = BaseInSyms(k)
    BY <1>1 DEF Scopes, ScopeOf
  <2> QED
    BY <2>7, <2>8, OutsideGets
<1> QED
  BY <1>2, <1>3

(* Recorded apart from attribute a: nothing else depends on it, and the    *)
(* conditions do not either, unless what they test is a itself.            *)
Aside(outs, a) == \A b \in Vars \ {a} : Ignores(GetAttr(outs, b), a)

SetApart(a) ==
  /\ Aside(outputs, a)
  /\ \A i \in DOMAIN frames :
       /\ Aside(frames[i].outer, a) /\ Aside(frames[i].then, a)
       /\ prog[At(pc)[i].id].attr = a \/ CondIgnores(frames[i].cond, a)

(* What is safely written is recorded without a flaw, and each attribute   *)
(* that it sets apart from the others.                                     *)
Harmless ==
  /\ phase = "write" =>
       /\ ~ignored /\ ~leaked /\ frames = <<>>
       /\ \A a \in Attrs : Aside(outputs, a)
  /\ phase # "write" /\ SafelyWritten =>
       /\ ~ignored /\ ~leaked
       /\ \A a \in Attrs : Assignments(a) # {} => SetApart(a)

LEMMA SafelySame ==
  ASSUME UNCHANGED <<prog, words>>
  PROVE  (SafelyWritten' <=> SafelyWritten) /\ \A a : Assignments(a)' = Assignments(a)
<1>1. \A a : Assignments(a)' = Assignments(a)
  BY DEF Assignments
<1>2. /\ \A i, k, branch : Assigns(i, k, branch)' <=> Assigns(i, k, branch)
      /\ \A i : Blocks(i)' = Blocks(i)
  BY DEF Assigns, Blocks
<1>3. \A s : Reads(s)' = Reads(s)
  BY DEF Reads
<1>4. CopiedFirst' <=> CopiedFirst
  BY <1>1 DEF CopiedFirst
<1>5. BranchesApart' <=> BranchesApart
  BY <1>1, <1>2, <1>3 DEF BranchesApart
<1>6. DecidesItself' <=> DecidesItself
  BY <1>1, <1>2, <1>3 DEF DecidesItself
<1> QED
  BY <1>1, <1>4, <1>5, <1>6 DEF SafelyWritten

LEMMA AsideClean ==
  ASSUME NEW outs, NEW ins, Sane(outs, ins), NEW a \in Attrs, NEW b \in Vars \ {a},
         Ignores(GetAttr(outs, b), a)
  PROVE  GetAttr(outs, b) \in Node /\ Clean(GetAttr(outs, b), Attrs \ {a})
<1>1. GetAttr(outs, b) \in Node
  BY GetAttrClean
<1>2. Sane(outs, ins \cup Attrs)
  BY CleanMore
<1>3. b \in Recorded(outs) \cup (ins \cup Attrs)
  BY SaneParts DEF Vars
<1>4. Clean(GetAttr(outs, b), ins \cup Attrs)
  BY <1>2, <1>3, GetAttrClean
<1> QED
  BY <1>1, <1>4 DEF Clean

LEMMA HoldsAside ==
  ASSUME Shape, NEW a \in Attrs, Aside(outputs, a), NEW b \in Vars \ {a}, NEW v
  PROVE  CondIgnores(Holds(b, v), a)
<1>1. Clean(GetAttr(outputs, b), Attrs \ {a})
  BY AsideClean DEF Shape, Aside
<1>2. CleanCond(Holds(b, v), Attrs \ {a})
  BY <1>1, CondClean DEF Holds
<1> QED
  BY <1>2 DEF CleanCond

LEMMA SwitchAside ==
  ASSUME NEW a \in Attrs, NEW cond, CondIgnores(cond, a),
         NEW true \in Node, Clean(true, Attrs \ {a}),
         NEW false \in Node, Clean(false, Attrs \ {a})
  PROVE  Ignores(Switch(cond, true, false), a)
<1>1. CleanCond(cond, Attrs \ {a})
  BY DEF CleanCond
<1>2. Clean(Switch(cond, true, false), Attrs \ {a})
  BY <1>1, SwitchClean
<1> QED
  BY <1>2 DEF Clean

LEMMA NodeAside ==
  ASSUME Shape, NEW a \in Attrs, Aside(outputs, a), NEW expr \in Expr, a \notin ReadBy(expr)
  PROVE  Ignores(NodeOf(expr), a)
<1> DEFINE ins == Attrs \ {a}
<1>1. \A b \in Vars \ {a} : GetAttr(outputs, b) \in Node /\ Clean(GetAttr(outputs, b), ins)
  BY AsideClean DEF Shape, Aside
<1> HIDE DEF ins
<1>2. CASE expr.op = "const" /\ expr.val \in Vals
  <2>1. NodeOf(expr) = Const(expr.val)
    BY <1>2, SMT DEF NodeOf
  <2>2. Clean(NodeOf(expr), ins)
    BY <1>2, <2>1, ConstClean
  <2> QED
    BY <2>2 DEF Clean, ins
<1>3. CASE expr.op = "var" /\ expr.from \in Vars /\ ReadBy(expr) = {expr.from}
  <2>1. NodeOf(expr) = GetAttr(outputs, expr.from)
    BY <1>3, SMT DEF NodeOf
  <2> QED
    BY <1>3, <2>1 DEF Aside
<1>4. CASE expr.op = "add" /\ expr.from \in Vars /\ expr.val \in Vals
             /\ ReadBy(expr) = {expr.from}
  <2>1. NodeOf(expr) = Add(GetAttr(outputs, expr.from), expr.val)
    BY <1>4, SMT DEF NodeOf
  <2>2. Clean(NodeOf(expr), ins)
    BY <1>1, <1>4, <2>1, AddClean
  <2> QED
    BY <2>2 DEF Clean, ins
<1>5. CASE expr.op = "ternary" /\ expr.test \in Vars /\ expr.val \in Vals
             /\ expr.from \in Vars /\ expr.other \in Vars
             /\ ReadBy(expr) = {expr.test, expr.from, expr.other}
  <2>1. NodeOf(expr) = Switch(Holds(expr.test, expr.val),
                              GetAttr(outputs, expr.from), GetAttr(outputs, expr.other))
    BY <1>5, SMT DEF NodeOf
  <2>2. CondIgnores(Holds(expr.test, expr.val), a)
    BY <1>5, HoldsAside
  <2>3. /\ GetAttr(outputs, expr.from) \in Node /\ Clean(GetAttr(outputs, expr.from), ins)
        /\ GetAttr(outputs, expr.other) \in Node /\ Clean(GetAttr(outputs, expr.other), ins)
    BY <1>1, <1>5
  <2> QED
    BY <2>1, <2>2, <2>3, SwitchAside DEF ins
<1> QED
  BY <1>2, <1>3, <1>4, <1>5, ExprReads

LEMMA ApartAssign ==
  ASSUME Written, Shape, DecidesItself, PlotAssign,
         NEW a \in Attrs, Assignments(a) # {}, SetApart(a)
  PROVE  SetApart(a)'
<1>1. /\ stmt.attr \in Vars /\ stmt.expr \in Expr /\ At(pc)' = At(pc)
      /\ outputs' = SetAttr(outputs, stmt.attr, NodeOf(stmt.expr))
      /\ DOMAIN frames' = DOMAIN frames
  BY AssignStep
<1>2. /\ pc \in DOMAIN prog /\ stmt.kind = "assign" /\ Reads(stmt) = ReadBy(stmt.expr)
      /\ UNCHANGED prog
  <2>1. Plot("assign")
    BY DEF PlotAssign
  <2>2. /\ pc \in 1 .. Len(prog) /\ prog \in Seq(Stmt) /\ UNCHANGED prog
        /\ stmt \in Stmt /\ stmt.kind = "assign"
    BY <2>1, PlotStep DEF Written
  <2> QED
    BY <2>2, StmtParts
<1>3. stmt.attr # a => Ignores(NodeOf(stmt.expr), a)
  <2>1. stmt.attr # a => a \notin ReadBy(stmt.expr)
    BY <1>2 DEF DecidesItself, stmt
  <2> QED
    BY <1>1, <2>1, NodeAside DEF SetApart
<1>4. Aside(outputs', a)
  <2> SUFFICES ASSUME NEW b \in Vars \ {a} PROVE Ignores(GetAttr(outputs', b), a)
    BY DEF Aside
  <2>1. Ignores(GetAttr(outputs, b), a)
    BY DEF SetApart, Aside
  <2> QED
    BY <1>1, <1>3, <2>1, SetAttrGets
<1>5. \A i \in DOMAIN frames :
        /\ frames'[i].outer = frames[i].outer /\ frames'[i].then = frames[i].then
        /\ frames'[i].cond = frames[i].cond
  BY AssignSets
<1> QED
  BY <1>1, <1>2, <1>4, <1>5 DEF SetApart

LEMMA ApartIf ==
  ASSUME Written, Shape, PlotIf, NEW a \in Attrs, SetApart(a)
  PROVE  SetApart(a)'
<1>1. /\ stmt.attr \in Vars /\ outputs' = outputs /\ UNCHANGED prog /\ stmt = prog[pc]
      /\ frames'[1].outer = outputs /\ frames'[1].then = outputs
      /\ frames'[1].cond = Holds(stmt.attr, stmt.val)
  BY IfStep DEF PlotIf, Plot, stmt
<1>2. At(pc)'[1].id = pc
  BY IfSets
<1>3. stmt.attr = a \/ CondIgnores(Holds(stmt.attr, stmt.val), a)
  BY <1>1, HoldsAside DEF SetApart
<1>4. ASSUME NEW i \in DOMAIN frames', i # 1
      PROVE  /\ i - 1 \in DOMAIN frames /\ frames'[i] = frames[i - 1]
             /\ At(pc)'[i] = At(pc)[i - 1]
  <2>1. i - 1 \in DOMAIN frames /\ frames'[i] = frames[i - 1] /\ i \in Nat
    BY <1>4, IfStep
  <2>2. At(pc)'[(i - 1) + 1] = At(pc)[i - 1] /\ (i - 1) + 1 = i
    BY <2>1, IfSets, SMT
  <2> QED
    BY <2>1, <2>2
<1>5. ASSUME NEW i \in DOMAIN frames'
      PROVE  /\ Aside(frames'[i].outer, a) /\ Aside(frames'[i].then, a)
             /\ prog'[At(pc)'[i].id].attr = a \/ CondIgnores(frames'[i].cond, a)
  <2>1. CASE i = 1
    BY <1>1, <1>2, <1>3, <2>1 DEF SetApart
  <2>2. CASE i # 1
    BY <1>1, <1>4, <2>2 DEF SetApart
  <2> QED
    BY <2>1, <2>2
<1> QED
  BY <1>1, <1>5 DEF SetApart

LEMMA OutsideAside ==
  ASSUME NEW f, NEW a, Aside(f.outer, a), Aside(outputs, a)
  PROVE  Aside(Outside(f), a)
BY OutsideGets DEF Aside

LEMMA ApartElse ==
  ASSUME Written, Shape, PlotElse, NEW a \in Attrs, SetApart(a)
  PROVE  SetApart(a)'
<1>1. /\ outputs' = Outside(frames[1]) /\ 1 \in DOMAIN frames /\ DOMAIN frames' = DOMAIN frames
      /\ UNCHANGED prog
  BY ElseStep DEF PlotElse, Plot
<1>2. Aside(outputs', a)
  BY <1>1, OutsideAside DEF SetApart
<1>3. ASSUME NEW i \in DOMAIN frames'
      PROVE  /\ Aside(frames'[i].outer, a) /\ Aside(frames'[i].then, a)
             /\ prog'[At(pc)'[i].id].attr = a \/ CondIgnores(frames'[i].cond, a)
  <2>1. /\ frames'[i].outer = frames[i].outer /\ frames'[i].cond = frames[i].cond
        /\ frames'[i].then = IF i = 1 THEN outputs ELSE frames[i].then
    BY <1>1, ElseSets
  <2>2. At(pc)'[i].id = At(pc)[i].id
    <3>1. i \in DOMAIN At(pc)
      BY <1>1, FramesAt
    <3> QED
      BY <3>1, ElseStep
  <2> QED
    BY <1>1, <2>1, <2>2 DEF SetApart
<1> QED
  BY <1>2, <1>3 DEF SetApart

(* What a conditional sets depends on what it tests, but if that is a then *)
(* it sets nothing else.                                                   *)
LEMMA ApartEndIf ==
  ASSUME Written, Shape, Provenance, DecidesItself, PlotEndIf,
         NEW a \in Attrs, Assignments(a) # {}, SetApart(a)
  PROVE  SetApart(a)'
<1> DEFINE f == frames[1]
           k == At(pc)[1].id
<1>1. /\ outputs' = SetAll(Outside(f), Targets(f), Merged(f))
      /\ 1 \in DOMAIN frames /\ f \in Frame /\ SaneFrame(f, inputs)
      /\ SetBy(f) = Range(Targets(f)) /\ UNCHANGED prog
      /\ Range(Targets(f)) \subseteq Vars
  BY EndIfStep, EndIfSets DEF PlotEndIf, Plot
<1>2. Aside(f.outer, a) /\ Aside(f.then, a) /\ Aside(outputs, a)
  BY <1>1 DEF SetApart
<1>3. ASSUME NEW b \in SetBy(f), b # a PROVE CondIgnores(f.cond, a)
  <2>1. PICK i \in 1 .. pc - 1, e \in Branch : Assigned(i, e) /\ prog[i].attr = b /\ e.id = k
    BY <1>1, <1>3 DEF Provenance, SetHere
  <2>2. i \in DOMAIN prog /\ k \in DOMAIN prog /\ prog[k].kind = "if"
    <3>1. Plot("endif")
      BY DEF PlotEndIf
    <3>2. /\ pc \in 1 .. Len(prog) /\ prog \in Seq(Stmt) /\ At(pc) \in Seq(Branch)
          /\ Nested(pc) /\ 1 \in DOMAIN At(pc)
      BY <1>1, <3>1, PlotStep, FramesAt DEF Written
    <3>3. k < pc /\ k \in Nat \ {0} /\ prog[k].kind = "if"
      <4>1. At(pc)[1] \in Branch
        BY <3>2
      <4> QED
        BY <3>2, <4>1 DEF Nested, Branch
    <3> QED
      BY <2>1, <3>2, <3>3, SMT
  <2>3. prog[i].kind = "assign" /\ k \in Blocks(i)
    BY <2>1 DEF Assigned, Range, Blocks
  <2>4. Reads(prog[k]) = {prog[k].attr}
    <3>1. prog[k] \in Stmt
      BY <2>2 DEF Written
    <3> QED
      BY <2>2, <3>1, StmtParts
  <2>5. prog[k].attr # a
    BY <1>3, <2>1, <2>2, <2>3, <2>4 DEF DecidesItself
  <2> QED
    BY <1>1, <2>5 DEF SetApart
<1>4. ASSUME NEW b \in SetBy(f), b # a PROVE Ignores(Merged(f)[b], a)
  <2>1. b \in Vars \ {a} /\ CondIgnores(f.cond, a)
    BY <1>1, <1>3, <1>4
  <2>2. Merged(f)[b] = Switch(f.cond, GetAttr(f.then, b), GetAttr(outputs, b))
    BY <1>1 DEF Merged
  <2>3. GetAttr(f.then, b) \in Node /\ Clean(GetAttr(f.then, b), Attrs \ {a})
    BY <1>1, <1>2, <2>1, AsideClean DEF SaneFrame, Aside
  <2>4. GetAttr(outputs, b) \in Node /\ Clean(GetAttr(outputs, b), Attrs \ {a})
    BY <1>2, <2>1, AsideClean DEF Shape, Aside
  <2> QED
    BY <2>1, <2>2, <2>3, <2>4, SwitchAside
<1>5. Aside(outputs', a)
  <2> SUFFICES ASSUME NEW b \in Vars \ {a} PROVE Ignores(GetAttr(outputs', b), a)
    BY DEF Aside
  <2>1. Ignores(GetAttr(Outside(f), b), a)
    BY <1>2, OutsideAside DEF Aside
  <2> QED
    BY <1>1, <1>4, <2>1, SetAllGets
<1>6. ASSUME NEW i \in DOMAIN frames'
      PROVE  /\ Aside(frames'[i].outer, a) /\ Aside(frames'[i].then, a)
             /\ prog'[At(pc)'[i].id].attr = a \/ CondIgnores(frames'[i].cond, a)
  <2>1. /\ i + 1 \in DOMAIN frames /\ frames'[i].outer = frames[i + 1].outer
        /\ frames'[i].then = frames[i + 1].then /\ frames'[i].cond = frames[i + 1].cond
        /\ At(pc)'[i] = At(pc)[i + 1]
    BY EndIfStep, EndIfSets
  <2>2. /\ Aside(frames[i + 1].outer, a) /\ Aside(frames[i + 1].then, a)
        /\ prog[At(pc)[i + 1].id].attr = a \/ CondIgnores(frames[i + 1].cond, a)
    BY <2>1 DEF SetApart
  <2> QED
    BY <1>1, <2>1, <2>2
<1> QED
  BY <1>5, <1>6, Zenon DEF SetApart

LEMMA HarmlessStep ==
  ASSUME Written, Written', Shape, Untouched, Scopes, Provenance, Harmless, [Next]_vars
  PROVE  Harmless'
<1>1. CASE OtherStep
  <2>1. UNCHANGED <<outputs, inputs, frames, ignored, leaked, pc, words, At(pc)>>
    BY <1>1, NothingRecorded
  <2>2. ASSUME NEW a, SetApart(a), UNCHANGED prog PROVE SetApart(a)'
    BY <2>1, <2>2 DEF SetApart
  <2>3. CASE phase' = "write"
    <3>1. phase = "write"
      BY <1>1, <2>3 DEF OtherStep, Write, Compile, PlotRaises, Graph, Mutate, vars
    <3> QED
      BY <2>1, <2>3, <3>1 DEF Harmless
  <2>4. CASE phase' # "write"
    <3>1. UNCHANGED prog
      BY <1>1, <2>4 DEF OtherStep, Write, Compile, PlotRaises, Graph, Mutate, vars
    <3>2. (SafelyWritten' <=> SafelyWritten) /\ \A a : Assignments(a)' = Assignments(a)
      BY <2>1, <3>1, SafelySame
    <3>3. CASE phase = "write"
      <4>1. frames = <<>> /\ DOMAIN frames = {}
        BY <3>3, SMT DEF Harmless
      <4>2. \A a \in Attrs : SetApart(a)
        BY <3>3, <4>1 DEF Harmless, SetApart
      <4> QED
        BY <2>1, <2>2, <2>4, <3>1, <3>2, <3>3, <4>2 DEF Harmless
    <3>4. CASE phase # "write"
      BY <2>1, <2>2, <2>4, <3>1, <3>2, <3>4 DEF Harmless
    <3> QED
      BY <3>3, <3>4
  <2> QED
    BY <2>3, <2>4
<1>2. CASE PlotAssign \/ PlotIf \/ PlotElse \/ PlotEndIf
  <2>1. phase = "plot" /\ phase' = "plot" /\ UNCHANGED <<prog, words>>
    BY <1>2 DEF PlotAssign, PlotIf, PlotElse, PlotEndIf, Plot
  <2> SUFFICES ASSUME SafelyWritten
               PROVE  /\ ~ignored' /\ ~leaked'
                      /\ \A a \in Attrs : Assignments(a) # {} => SetApart(a)'
    BY <2>1, SafelySame DEF Harmless
  <2>2. /\ ~ignored /\ ~leaked /\ DecidesItself
        /\ \A a \in Attrs : Assignments(a) # {} => SetApart(a)
    BY <2>1 DEF Harmless, SafelyWritten
  <2>3. ~ignored'
    BY <1>2, <2>2, NothingIgnored, IfStep, ElseStep, EndIfStep
  <2>4. ~leaked'
    BY <1>2, <2>2, NothingLeaked, AssignStep, IfStep, EndIfStep
  <2>5. \A a \in Attrs : Assignments(a) # {} => SetApart(a)'
    <3> TAKE a \in Attrs
    <3> HAVE Assignments(a) # {}
    <3>1. SetApart(a)
      BY <2>2
    <3>2. CASE PlotAssign \/ PlotIf
      BY <2>2, <3>1, <3>2, ApartAssign, ApartIf
    <3>3. CASE PlotElse \/ PlotEndIf
      BY <2>2, <3>1, <3>3, ApartElse, ApartEndIf
    <3> QED
      BY <1>2, <3>2, <3>3
  <2> QED
    BY <2>3, <2>4, <2>5
<1> QED
  BY <1>1, <1>2, Steps

LEMMA InitHarmless ==
  ASSUME Init
  PROVE  Provenance /\ Harmless
<1>1. /\ phase = "write" /\ frames = <<>> /\ DOMAIN frames = {}
      /\ Recorded(outputs) = Locals /\ \A b \in Locals : outputs.defs[b] = Const(0)
      /\ ~ignored /\ ~leaked
  BY SMT DEF Init, Recorded
<1>2. Provenance
  BY <1>1, LocalsAssumption DEF Provenance
<1>3. ASSUME NEW a \in Attrs, NEW b \in Vars \ {a}
      PROVE  Ignores(GetAttr(outputs, b), a)
  <2> DEFINE ins == Attrs \ {a}
  <2>1. Clean(GetAttr(outputs, b), ins)
    <3>1. CASE b \in Locals
      BY <1>1, <3>1, ZeroIsAValue, ConstClean DEF GetAttr
    <3>2. CASE b \notin Locals
      BY <1>1, <1>3, <3>2, RetrieveClean DEF GetAttr, Vars
    <3> QED
      BY <3>1, <3>2
  <2> QED
    BY <2>1 DEF Clean
<1> QED
  BY <1>1, <1>2, <1>3 DEF Harmless, Aside

(* A later output does not depend on an earlier one if both stay apart.    *)
LEMMA IndependentIfAside ==
  ASSUME Written, Shape, Provenance, phase = "run",
         \A a \in Attrs : Assignments(a) # {} => Aside(outputs, a)
  PROVE  Independent
<1>1. /\ outputs.order \in Seq(Attrs) /\ Once(outputs.order)
      /\ Range(outputs.order) = Recorded(outputs) \ Locals
  BY SaneParts DEF Shape
<1>2. pc = Len(prog) + 1 /\ prog \in Seq(Stmt)
  BY DEF Written
<1> SUFFICES ASSUME NEW k \in DOMAIN outputs.order, NEW i \in 1 .. k - 1
             PROVE  Ignores(outputs.defs[outputs.order[k]], outputs.order[i])
  BY DEF Independent
<1> DEFINE a == outputs.order[i]
           b == outputs.order[k]
<1>3. i \in DOMAIN outputs.order /\ i # k
  BY <1>1, SMT
<1>4. a \in Attrs /\ b \in Attrs /\ a \in Recorded(outputs) /\ b \in Recorded(outputs)
  BY <1>1, <1>3 DEF Range
<1>5. a # b
  BY <1>1, <1>3 DEF Once
<1>6. Assignments(a) # {}
  <2>1. PICK d \in 1 .. pc - 1 : prog[d].kind = "assign" /\ prog[d].attr = a
    BY <1>4 DEF Provenance, Earlier
  <2>2. d \in DOMAIN prog
    BY <1>2, SMT
  <2> QED
    BY <2>1, <2>2 DEF Assignments
<1>7. Ignores(GetAttr(outputs, b), a)
  BY <1>4, <1>5, <1>6 DEF Aside, Vars
<1> QED
  BY <1>4, <1>7 DEF GetAttr

-----------------------------------------------------------------------------
(***************************************************************************)
(* The inductive invariant: the function is well formed, and so is what is *)
(* recorded of it; the open conditionals have changed nothing but what     *)
(* they have set; Python gets to the branch being traced in the snapshots  *)
(* its conditions say; what is recorded of the branches so far is sound;   *)
(* the engine has done what the outputs say; what has been assigned can be *)
(* read; and each attribute a safely written function sets stays apart.    *)
(***************************************************************************)
IInv ==
  /\ Written /\ Shape /\ Untouched /\ Lives /\ SoundSoFar /\ Ran /\ Scopes
  /\ DefinedNeverRaises
  /\ Provenance /\ Harmless

LEMMA Initially == Init => IInv
<1> SUFFICES ASSUME Init PROVE IInv
  OBVIOUS
<1>1. Scopes /\ DefinedNeverRaises
  BY DEF Init, Scopes, DefinedNeverRaises
<1> QED
  BY <1>1, InitShape, InitSound, InitHarmless DEF IInv

LEMMA Inductive == IInv /\ [Next]_vars => IInv'
<1> SUFFICES ASSUME IInv, [Next]_vars PROVE IInv'
  OBVIOUS
<1>1. /\ Written /\ Shape /\ Untouched /\ Lives /\ SoundSoFar /\ Ran /\ Scopes
      /\ DefinedNeverRaises /\ Provenance /\ Harmless
  BY DEF IInv
<1>2. Written'
  BY <1>1, WrittenStep
<1>3. Shape'
  BY <1>1, <1>2, ShapeStep
<1>4. Untouched' /\ Lives' /\ SoundSoFar'
  BY <1>1, <1>2, <1>3, UntouchedStep, LivesStep, SoundStep
<1>5. Ran' /\ Scopes' /\ DefinedNeverRaises'
  BY <1>1, <1>2, RanStep, ScopesStep, DefinedStep
<1>6. Provenance' /\ Harmless'
  BY <1>1, <1>2, ProvenanceStep, HarmlessStep
<1> QED
  BY <1>2, <1>3, <1>4, <1>5, <1>6 DEF IInv

THEOREM Invariant == Spec => []IInv
BY Initially, Inductive, PTL DEF Spec

(* Types and bounds, those of the conditionals being traced included.      *)
THEOREM TypeCorrect == Spec => []TypeOK
<1>1. IInv => TypeOK
  <2> SUFFICES ASSUME IInv PROVE TypeOK
    OBVIOUS
  <2>1. Written /\ Shape /\ Scopes
    BY DEF IInv
  <2>2. ASSUME NEW i \in DOMAIN prog
        PROVE  /\ prog[i].kind \in {"assign", "if", "else", "endif"}
               /\ Blocks(i) \subseteq 1 .. i /\ Len(prog[i].within) <= MaxDepth
    <3>1. prog \in Seq(Stmt)
      BY <2>1 DEF Written
    <3>2. i \in 1 .. Len(prog) /\ i \in 1 .. Len(prog) + 1 /\ prog[i] \in Stmt
      BY <3>1, SMT
    <3>3. At(i) = prog[i].within /\ Nested(i)
      BY <2>1, <3>2 DEF At, Written
    <3>4. prog[i].within \in Seq(Branch) /\ prog[i].kind \in {"assign", "if", "else", "endif"}
      BY <3>2 DEF Stmt
    <3>5. ASSUME NEW n \in DOMAIN prog[i].within PROVE prog[i].within[n].id \in 1 .. i
      <4>1. prog[i].within[n] \in Branch /\ prog[i].within[n].id < i
        BY <3>3, <3>4 DEF Nested
      <4>2. prog[i].within[n].id \in Nat \ {0}
        BY <4>1 DEF Branch
      <4> QED
        BY <3>2, <4>1, <4>2, SMT
    <3>6. i \in 1 .. i
      BY <3>2, SMT
    <3> QED
      BY <3>3, <3>4, <3>5, <3>6 DEF Blocks, Nested
  <2>3. ASSUME NEW i \in DOMAIN frames
        PROVE  /\ frames[i].cond \subseteq Snapshots
               /\ frames[i].holds \subseteq frames[i].live /\ frames[i].live \subseteq Snapshots
               /\ frames[i].args \subseteq Range(words.base)
               /\ OutputsOK(frames[i].outer) /\ OutputsOK(frames[i].then)
               /\ frames[i].own \in Seq(Vars) /\ frames[i].nested \in Seq(Vars)
               /\ frames[i].bound \subseteq frames[i].scope /\ frames[i].scope \subseteq Locals
    <3>1. frames[i] \in Frame /\ SaneFrame(frames[i], inputs)
      BY <2>1 DEF Shape
    <3>2. ScopeOf(i)
      BY <2>1 DEF Scopes
    <3>3. frames[i].bound \subseteq frames[i].scope
      BY <3>2 DEF ScopeOf
    <3> QED
      BY <3>1, <3>3 DEF Frame, SaneFrame, Sane
  <2>4. Len(frames) <= MaxDepth
    <3>1. Len(frames) = Len(At(pc)) /\ Nested(pc)
      BY <2>1 DEF Shape, Written
    <3> QED
      BY <3>1 DEF Nested
  <2>5. OutputsOK(outputs)
    BY <2>1 DEF Shape, Sane
  <2> QED
    BY <2>1, <2>2, <2>3, <2>4, <2>5 DEF TypeOK, Written, Shape
<1> QED
  BY <1>1, Invariant, PTL

(***************************************************************************)
(* In any function, however long and however deeply nested: unless an      *)
(* assignment was wrongly ignored or one branch saw what the other had     *)
(* set, each variable is recorded as what Python makes of it               *)
(* (ecs/graph.py, transforms.py).                                          *)
(***************************************************************************)
THEOREM RecordingIsSound == Spec => []SoundUnlessFlawed
<1>1. IInv => SoundUnlessFlawed
  BY DEF IInv, SoundSoFar, Agrees, SoundUnlessFlawed, RecordingSound
<1> QED
  BY <1>1, Invariant, PTL

(* Whatever a recorded node depends on is an input of the graph            *)
(* (graph.py:273-282).                                                     *)
THEOREM InputsAreComplete == Spec => []InputsComplete
<1>1. IInv => InputsComplete
  <2> SUFFICES ASSUME IInv PROVE InputsComplete
    OBVIOUS
  <2>1. Sane(outputs, inputs)
    BY DEF IInv, Shape
  <2> QED
    BY <2>1 DEF Sane, Clean, InputsComplete
<1> QED
  BY <1>1, Invariant, PTL

(* A function compiles if all branches of its conditionals define the same *)
(* locals, and each conditional assigns something (transforms.py:147-148). *)
THEOREM DefinedFunctionsCompile == Spec => []DefinedNeverRaises
<1>1. IInv => DefinedNeverRaises
  BY DEF IInv
<1> QED
  BY <1>1, Invariant, PTL

LEMMA IndependentAgrees == IInv => EngineAgreesIfIndependent
<1> SUFFICES ASSUME IInv, Independent, ~ignored, ~leaked, EngineDone,
                    NEW s \in Snapshots, NEW a \in Attrs
             PROVE  store[s][a] = source[s][a]
  BY DEF EngineAgreesIfIndependent, EngineAgrees
<1>1. Written /\ Shape /\ Lives /\ SoundSoFar /\ Ran /\ phase = "run" /\ ran = Len(outputs.order)
  BY DEF IInv, EngineDone
<1>2. live = Snapshots
  <2>1. pc = Len(prog) + 1 /\ open = <<>> /\ Len(prog) \in Nat
    BY <1>1 DEF Written
  <2>2. ~ pc <= Len(prog)
    BY <2>1, SMT
  <2>3. At(pc) = <<>>
    BY <2>1, <2>2 DEF At
  <2>4. Len(frames) = 0
    BY <1>1, <2>3 DEF Shape
  <2> QED
    BY <1>1, <2>4 DEF Lives, LiveIn
<1>3. GetAttr(outputs, a).value[s] = source[s][a]
  BY <1>1, <1>2 DEF SoundSoFar, Agrees, Vars
<1>4. /\ outputs.order \in Seq(Attrs) /\ Range(outputs.order) = Recorded(outputs) \ Locals
      /\ DOMAIN outputs.order = 1 .. ran
  <2>1. Sane(outputs, inputs)
    BY <1>1 DEF Shape
  <2>2. outputs.order \in Seq(Attrs)
    BY <2>1, SaneParts
  <2>3. DOMAIN outputs.order = 1 .. ran
    BY <1>1, <2>2
  <2> QED
    BY <2>1, <2>2, <2>3, SaneParts
<1>5. /\ \A k \in 1 .. ran :
           store[s][outputs.order[k]] = outputs.defs[outputs.order[k]].value[s]
      /\ (\A k \in 1 .. ran : outputs.order[k] # a) => store[s][a] = s[a]
  BY <1>1 DEF Ran
<1>6. CASE a \in Recorded(outputs)
  <2>1. a \in Range(outputs.order)
    BY <1>4, <1>6, LocalsAssumption
  <2>2. PICK k \in 1 .. ran : outputs.order[k] = a
    BY <1>4, <2>1 DEF Range
  <2> QED
    BY <1>3, <1>5, <1>6, <2>2 DEF GetAttr
<1>7. CASE a \notin Recorded(outputs)
  <2>1. \A k \in 1 .. ran : outputs.order[k] # a
    BY <1>4, <1>7 DEF Range
  <2>2. GetAttr(outputs, a).value[s] = s[a]
    BY <1>7 DEF GetAttr, Retrieve
  <2> QED
    BY <1>3, <1>5, <2>1, <2>2
<1> QED
  BY <1>6, <1>7

(***************************************************************************)
(* A graph whose outputs do not depend on those before them does on the    *)
(* engine, where they run in place (graphInterpreter.cpp:79-86), what the  *)
(* function does in Python.                                                *)
(***************************************************************************)
THEOREM EngineDoesAgree == Spec => []EngineAgreesIfIndependent
BY IndependentAgrees, Invariant, PTL

(***************************************************************************)
(* Of any length and depth, a function that is safely written and compiles *)
(* does on the engine what it does in Python: no assignment is ignored     *)
(* (graph.py:249), its branches do not see each other (transforms.py:151-  *)
(* 153), and the outputs can run in place (graphInterpreter.cpp:79-86).    *)
(***************************************************************************)
THEOREM SafelyWrittenRuns == Spec => []SafelyWrittenAgrees
<1>1. IInv => SafelyWrittenAgrees
  <2> SUFFICES ASSUME IInv, EngineDone, SafelyWritten
               PROVE  \A s \in Snapshots, a \in Attrs : store[s][a] = source[s][a]
    BY DEF SafelyWrittenAgrees
  <2>1. /\ ~ignored /\ ~leaked
        /\ \A a \in Attrs : Assignments(a) # {} => Aside(outputs, a)
    BY DEF IInv, Harmless, EngineDone, SetApart
  <2>2. Independent
    BY <2>1, IndependentIfAside DEF IInv, EngineDone
  <2> QED
    BY <2>1, <2>2, IndependentAgrees DEF EngineAgreesIfIndependent, EngineAgrees
<1> QED
  BY <1>1, Invariant, PTL
=============================================================================
