----------------------------- MODULE SweepProofs -----------------------------
(* Proofs of the safety properties of Sweep and of the patches it runs on,  *)
(* for every number of threads, names, contexts, interrupts and seeds.      *)
EXTENDS Sweep, WellFoundedInduction, FiniteSetTheorems, TLAPS

(* The inductive invariant.                                                *)

\* Only the innermost context of a thread is not in its body, and contexts
\* are numbered as they are entered.
Stacked ==
    \A t \in Thread :
       /\ Len(frames[t]) <= entered[t]
       /\ \A i \in DOMAIN frames[t] :
             /\ \E k \in 1..entered[t] : frames[t][i].id = <<t, k>>
             /\ i > 1 => frames[t][i].phase = "body"
             /\ \A j \in DOMAIN frames[t] : frames[t][i].id = frames[t][j].id => i = j

\* The contexts of thread t that have passed the lock.
Passed(t) == Len(frames[t]) - (IF In(t, "wait") THEN 1 ELSE 0)

\* The lock counts the contexts of its holder, so that one thread patches at
\* a time.
Locked ==
    /\ lock.by = None => lock.count = 0
    /\ \A t \in Thread :
          /\ lock.by = t <=> Passed(t) > 0
          /\ lock.by = t => lock.count = Passed(t)

\* Context f has executed the instruction op for name n.
Did(f, op, n) == \E i \in 1..(f.pc - 1) : Program(f.kind)[i] = <<op, n>>

\* Context f has yet to install its wrapper of n.
Installs(f, n) == \E i \in f.pc..Len(Program(f.kind)) : Program(f.kind)[i] = <<"install", n>>

\* What a context has registered, and when it may write.
Prepared(f) ==
    /\ f.phase = "wait" => f.undo = << >> /\ f.pc = 1
    /\ f.phase = "setup" =>
          /\ f.pc \in 1..Len(Program(f.kind))
          /\ \A n \in Name : n \in Range(f.undo) <=> Did(f, "register", n)
    /\ f.ours => f.phase = "undo" /\ f.undo # << >>

Prepares == \A t \in Thread : \A i \in DOMAIN frames[t] : Prepared(frames[t][i])

\* Context c of thread t, at place i or further out, will restore n.
Restores(t, i, c, n) ==
    \E j \in DOMAIN frames[t] :
       j >= i /\ frames[t][j].id = c /\ n \in Range(frames[t][j].undo)

\* A wrapper that is installed will be taken out by its context, and the one
\* a context falls back to by a context further out on the same thread.
Owned ==
    \A n \in Name \ cut :
       /\ fn[n] \in Context => \E t \in Thread : Restores(t, 1, fn[n], n)
       /\ \A t \in Thread : \A i \in DOMAIN frames[t] :
             LET c == orig[frames[t][i].id][n]
             IN  c \in Context => Restores(t, i + 1, c, n)

\* A context that is not entered yet has read nothing.
Unread ==
    \A t \in Thread, k \in 1..MaxContexts, n \in Name :
       k > entered[t] => orig[<<t, k>>][n] = Real

\* A name nobody replaced never leads to a foreign function.
Unreplaced ==
    \A n \in Name \ replaced : fn[n] # Other /\ \A c \in Context : orig[c][n] # Other

\* Context f is between reading n and writing it.
Reads(f, n) ==
    \/ f.phase = "setup" /\ Did(f, "read", n) /\ Installs(f, n)
    \/ f.ours /\ Head(f.undo) = n

\* From n, and from every context in L, one comes to the foreign function
\* without leaving L; a context that will write n is in L.
Leads(n, L) ==
    /\ fn[n] \in L \cup {Other}
    /\ \A c \in L : orig[c][n] \in L \cup {Other}
    /\ \A t \in Thread : \A i \in DOMAIN frames[t] :
          Reads(frames[t][i], n) => frames[t][i].id \in L

\* A name that was replaced leads to its replacement.
Replacements == \A n \in replaced \ raced : \E L \in SUBSET Context : Leads(n, L)

\* Thread t has no two contexts of a run; it has one; it may be in check()'s
\* loop; a BaseException is on its way out of its innermost context.
OneRun(t) ==
    \A i, j \in DOMAIN frames[t] : frames[t][i].by = "run" /\ frames[t][j].by = "run" => i = j

Running(t) == \E i \in DOMAIN frames[t] : frames[t][i].by = "run"

Quiet(t) == frames[t] = << >> \/ In(t, "body")

Aborting(t) == In(t, "undo") /\ Top(t).exc = "base"

\* A run has one context, the books of a check() agree with the runs that
\* have ended, and an interrupt that hit it is on its way out.
Kept(t, s) ==
    /\ OneRun(t)
    /\ s.at = "run" <=> Running(t)
    /\ s.at = "loop" => Quiet(t)
    /\ s.world <=> s.at = "run"
    /\ s.at # "over" =>
          /\ s.seed = None
          /\ \A i \in DOMAIN s.ended : s.ended[i] = "ok"
          /\ s.checked = Len(s.ended) + (IF s.at = "run" THEN 1 ELSE 0)
    /\ t \in hit => (s.at = "run" /\ Aborting(t)) \/ s.at = "over"

\* What FirstFailureReported says of one check().
Reported(t, s) ==
    s.at = "over" =>
       /\ ~s.world
       /\ \A i \in 1..(Len(s.ended) - 1) : s.ended[i] = "ok"
       /\ s.ended # << >> /\ Last(s.ended) = "fail" /\ s.call # "replay" =>
             /\ s.result = IF s.call = "return" THEN "returned" ELSE "raised"
             /\ s.checked = Len(s.ended) /\ s.seed = Len(s.ended)
       /\ s.result \in {"raised", "returned"} =>
             s.ended # << >> /\ Last(s.ended) = "fail" /\ s.call # "replay"
       /\ s.result = "passed" =>
             Len(s.ended) = Count(s) /\ \A i \in DOMAIN s.ended : s.ended[i] = "ok"
       /\ s.result = "untagged" => s.seed = None
       /\ t \in hit => s.result = "untagged"

\* Context f has its wrapper of n in place and will take it out.
Holds(f, n) == n \in Range(f.undo) /\ (f.phase = "setup" => Did(f, "install", n))

\* g is the wrapper of n of the innermost context on the stack s, further out
\* than place k, that holds n, if there is one.
Innermost(s, k, n, g) ==
    \A i \in DOMAIN s :
       /\ i > k /\ Holds(s[i], n)
       /\ \A j \in DOMAIN s : j > k /\ j < i => ~Holds(s[j], n)
       => g = s[i].id

\* The wrappers of n lie on each other as the contexts of the stack s do: w,
\* which is installed, is the innermost, and each falls back to the next.
Nests(s, n, w, o) ==
    /\ Innermost(s, 0, n, w)
    /\ \A k \in DOMAIN s :
          Holds(s[k], n) \/ Reads(s[k], n) => Innermost(s, k, n, o[s[k].id][n])

\* They do on every thread, for every name that nobody replaced, unless an
\* interrupt is unwinding the thread: that may skip restores.
Nested ==
    \A u \in Thread, n \in Name \ replaced : ~Aborting(u) => Nests(frames[u], n, fn[n], orig)

\* A context restores a name once.
RestoredOnce == \A t \in Thread : \A i \in DOMAIN frames[t] : IsInjective(frames[t][i].undo)

\* The types of the variables of Patching, and of the others.
PType ==
    /\ fn \in [Name -> Function]
    /\ orig \in [Context -> [Name -> Function]]
    /\ entered \in [Thread -> 0..MaxContexts]
    /\ lock \in [by : Thread \cup {None}, count : 0..MaxContexts]
    /\ frames \in [Thread -> Seq(Frame)]
    /\ replaced \subseteq Name /\ raced \subseteq Name /\ cut \subseteq Name

SType ==
    /\ interrupts \in 0..MaxInterrupts /\ replaces \in 0..MaxReplaced
    /\ sweep \in [Thread -> Check]
    /\ byHand \in 0..MaxUser /\ hit \subseteq Interruptible

\* The state of the patches, and that of the checks.
PInv == PType /\ Stacked /\ Locked /\ Prepares /\ Owned /\ Unread /\ Unreplaced /\ Replacements

SInv == SType /\ \A t \in Thread : Kept(t, sweep[t]) /\ Reported(t, sweep[t])

IInv == PInv /\ SInv

\* What is added to see which wrapper acts.
NInv == RestoredOnce /\ Nested

-----------------------------------------------------------------------------
(* Operators of the model.                                                 *)

\* Three sequences of one length, one after the other.
LEMMA ThreeJoined ==
    ASSUME NEW T, NEW n \in Nat, NEW m \in Nat,
           NEW s1 \in Seq(T), NEW s2 \in Seq(T), NEW s3 \in Seq(T),
           Len(s1) = n, Len(s2) = n, Len(s3) = n
    PROVE  m = n + n =>
              /\ (s1 \o s2) \o s3 \in Seq(T) /\ Len((s1 \o s2) \o s3) = m + n
              /\ \A i \in 1..n : /\ ((s1 \o s2) \o s3)[i] = s1[i]
                                 /\ ((s1 \o s2) \o s3)[n + i] = s2[i]
                                 /\ ((s1 \o s2) \o s3)[m + i] = s3[i]
<1>1. ASSUME NEW k \in Nat, NEW s \in Seq(T), NEW t \in Seq(T), Len(s) = k, Len(t) = n
      PROVE  /\ s \o t \in Seq(T) /\ Len(s \o t) = k + n
             /\ \A i \in 1..k : (s \o t)[i] = s[i]
             /\ \A i \in 1..n : (s \o t)[k + i] = t[i]
  <2>1. s \o t \in Seq(T)
        OBVIOUS
  <2>2. Len(s \o t) = k + n
    <3>1. Len(s \o t) = Len(s) + Len(t)
          OBVIOUS
    <3>2. QED BY <1>1, <3>1, Zenon
  <2>3. \A i \in 1..k : (s \o t)[i] = s[i]
        BY <1>1
  <2>4. ASSUME NEW i \in 1..n PROVE (s \o t)[k + i] = t[i]
    <3>1. k + i \in 1..(k + n) /\ ~(k + i <= k) /\ k + i - k = i
          OBVIOUS
    <3>2. QED BY <1>1, <3>1
  <2>5. QED BY <2>1, <2>2, <2>3, <2>4
<1>2. HAVE m = n + n
<1>3. /\ s1 \o s2 \in Seq(T) /\ Len(s1 \o s2) = m
      /\ \A i \in 1..n : (s1 \o s2)[i] = s1[i]
      /\ \A i \in 1..n : (s1 \o s2)[n + i] = s2[i]
      BY <1>1, <1>2, Zenon
<1>4. /\ (s1 \o s2) \o s3 \in Seq(T) /\ Len((s1 \o s2) \o s3) = m + n
      /\ \A i \in 1..m : ((s1 \o s2) \o s3)[i] = (s1 \o s2)[i]
      /\ \A i \in 1..n : ((s1 \o s2) \o s3)[m + i] = s3[i]
      BY <1>1, <1>3, Zenon
<1>5. \A i \in 1..n : i \in 1..m /\ n + i \in 1..m
      BY <1>2
<1>6. QED BY <1>3, <1>4, <1>5, Zenon

\* A program p is not empty; a name is read before its restore is registered,
\* once, and both come before its install, which comes too.
InOrder(p) ==
    /\ p \in Seq({"read", "register", "install"} \X Name)
    /\ Len(p) \in Nat \ {0}
    /\ \A i \in 1..Len(p), n \in Name :
          /\ p[i] = <<"read", n>> => \A j \in 1..(i - 1) : p[j] # <<"register", n>>
          /\ p[i] = <<"install", n>> => /\ \E j \in 1..(i - 1) : p[j] = <<"register", n>>
                                        /\ \E j \in 1..(i - 1) : p[j] = <<"read", n>>
          /\ p[i] = <<"register", n>> => /\ \A j \in 1..(i - 1) : p[j] # <<"register", n>>
                                         /\ \E j \in 1..Len(p) : p[j] = <<"install", n>>

\* The instructions of a context are in this order.
LEMMA ProgramOrder ==
    ASSUME NEW kind \in {"shim", "audit"}
    PROVE  InOrder(Program(kind))
<1> DEFINE Op == {"read", "register", "install"}
<1>1. CASE kind = "shim"
  <2> DEFINE I == Op \X Name
  <2>1. PICK names : names = Shim /\ names \in Seq(Name) /\ names # << >>
        BY PatchingAssumption
  <2>2. /\ Len(names) \in Nat \ {0} /\ DOMAIN names = 1..Len(names)
        /\ \A i \in 1..Len(names) : names[i] \in Name
        BY <2>1
  <2>3. ASSUME NEW op \in Op
        PROVE  /\ Each(op, names) \in Seq(I) /\ Len(Each(op, names)) = Len(names)
               /\ \A i \in 1..Len(names) : Each(op, names)[i] = <<op, names[i]>>
        BY <2>2 DEF Each
  <2>4. PICK a \in Seq(I), b \in Seq(I), c \in Seq(I) :
           /\ a = Each("read", names) /\ b = Each("register", names) /\ c = Each("install", names)
           /\ Len(a) = Len(names) /\ Len(b) = Len(names) /\ Len(c) = Len(names)
           /\ \A i \in 1..Len(names) : /\ a[i] = <<"read", names[i]>>
                                       /\ b[i] = <<"register", names[i]>>
                                       /\ c[i] = <<"install", names[i]>>
        BY <2>3
  <2> HIDE DEF I
  <2>5. PICK p :
           /\ p = (a \o b) \o c
           /\ p \in Seq(I) /\ Len(p) = 3 * Len(names)
           /\ \A i \in 1..Len(names) : /\ p[i] = a[i] /\ p[Len(names) + i] = b[i]
                                       /\ p[2 * Len(names) + i] = c[i]
    <3> DEFINE q == (a \o b) \o c
    <3>1. PICK n \in Nat, m \in Nat : n = Len(names) /\ m = n + n
      <4>1. Len(names) \in Nat /\ Len(names) + Len(names) \in Nat
            BY <2>2
      <4>2. QED BY <4>1, Zenon
    <3>2. Len(a) = n /\ Len(b) = n /\ Len(c) = n
          BY <2>4, <3>1
    <3>3. /\ q \in Seq(I) /\ Len(q) = m + n
          /\ \A i \in 1..n : q[i] = a[i] /\ q[n + i] = b[i] /\ q[m + i] = c[i]
      <4>1. m = n + n
            BY <3>1
      <4>2. /\ (a \o b) \o c \in Seq(I) /\ Len((a \o b) \o c) = m + n
            /\ \A i \in 1..n : /\ ((a \o b) \o c)[i] = a[i]
                               /\ ((a \o b) \o c)[n + i] = b[i]
                               /\ ((a \o b) \o c)[m + i] = c[i]
        <5>1. n \in Nat /\ m \in Nat /\ a \in Seq(I) /\ b \in Seq(I) /\ c \in Seq(I)
              BY <2>4, <3>1
        <5>2. QED BY <3>2, <4>1, <5>1, ThreeJoined, SMTT(20)
      <4>3. QED BY <4>2, Zenon
    <3>4. q = (a \o b) \o c
          OBVIOUS
    <3> HIDE DEF q
    <3>5. m + n = 3 * Len(names) /\ m = 2 * Len(names)
          BY <2>2, <3>1
    <3>6. /\ q \in Seq(I) /\ Len(q) = 3 * Len(names)
          /\ \A i \in 1..Len(names) : /\ q[i] = a[i] /\ q[Len(names) + i] = b[i]
                                      /\ q[2 * Len(names) + i] = c[i]
          BY <3>1, <3>3, <3>5, Zenon
    <3>7. QED BY <3>4, <3>6, Zenon
  <2>6. p \in Seq(I) /\ Len(p) = 3 * Len(names)
        BY <2>5
  <2>7. p = Program(kind)
        BY <1>1, <2>1, <2>4, <2>5 DEF Program
  <2>8. \A i \in 1..Len(names) : /\ p[i] = <<"read", names[i]>>
                                 /\ p[Len(names) + i] = <<"register", names[i]>>
                                 /\ p[2 * Len(names) + i] = <<"install", names[i]>>
        BY <2>4, <2>5
  <2>9. \A i \in 1..Len(p) : \/ i \in 1..Len(names)
                             \/ \E k \in 1..Len(names) : i = Len(names) + k
                             \/ \E k \in 1..Len(names) : i = 2 * Len(names) + k
    <3>1. ASSUME NEW i \in 1..Len(p), i > Len(names), i <= 2 * Len(names)
          PROVE  i - Len(names) \in 1..Len(names) /\ i = Len(names) + (i - Len(names))
          BY <2>2, <2>6, <3>1
    <3>2. ASSUME NEW i \in 1..Len(p), i > 2 * Len(names)
          PROVE  /\ i - 2 * Len(names) \in 1..Len(names)
                 /\ i = 2 * Len(names) + (i - 2 * Len(names))
          BY <2>2, <2>6, <3>2
    <3>3. ASSUME NEW i \in 1..Len(p)
          PROVE  i \in 1..Len(names) \/ (i > Len(names) /\ i <= 2 * Len(names)) \/ i > 2 * Len(names)
          BY <2>2, <2>6
    <3>4. QED BY <3>1, <3>2, <3>3
  <2>10. ASSUME NEW i \in 1..Len(p), NEW n \in Name, p[i] = <<"read", n>>
         PROVE  \A j \in 1..(i - 1) : p[j] # <<"register", n>>
    <3>1. i \in 1..Len(names)
          BY <2>8, <2>9, <2>10
    <3>2. \A j \in 1..(i - 1) : j \in 1..Len(names)
          BY <2>2, <3>1
    <3>3. QED BY <2>8, <3>2
  <2>11. ASSUME NEW i \in 1..Len(p), NEW n \in Name, p[i] = <<"install", n>>
         PROVE  /\ \E j \in 1..(i - 1) : p[j] = <<"register", n>>
                /\ \E j \in 1..(i - 1) : p[j] = <<"read", n>>
    <3>1. PICK k \in 1..Len(names) : i = 2 * Len(names) + k
          BY <2>8, <2>9, <2>11
    <3>2. names[k] = n
          BY <2>8, <2>11, <3>1
    <3>3. k \in 1..(i - 1) /\ Len(names) + k \in 1..(i - 1)
          BY <2>2, <3>1
    <3>4. QED BY <2>8, <3>2, <3>3
  <2>12. Len(p) \in Nat \ {0}
        BY <2>2, <2>6
  <2>13. \A i, j \in 1..Len(names) : names[i] = names[j] => i = j
    <3>1. \A i, j \in DOMAIN Shim : Shim[i] = Shim[j] => i = j
          BY PatchingAssumption
    <3>2. QED BY <2>1, <2>2, <3>1
  <2>14. ASSUME NEW i \in 1..Len(p), NEW n \in Name, p[i] = <<"register", n>>
         PROVE  \E k \in 1..Len(names) : i = Len(names) + k /\ names[k] = n
    <3>1. ASSUME i \in 1..Len(names) PROVE FALSE
          BY <2>8, <2>14, <3>1
    <3>2. ASSUME NEW k \in 1..Len(names), i = 2 * Len(names) + k PROVE FALSE
          BY <2>8, <2>14, <3>2
    <3>3. PICK k \in 1..Len(names) : i = Len(names) + k
          BY <2>9, <3>1, <3>2
    <3>4. names[k] = n
          BY <2>8, <2>14, <3>3
    <3>5. QED BY <3>3, <3>4
  <2>15. ASSUME NEW i \in 1..Len(p), NEW n \in Name, p[i] = <<"register", n>>
         PROVE  /\ \A j \in 1..(i - 1) : p[j] # <<"register", n>>
                /\ \E j \in 1..Len(p) : p[j] = <<"install", n>>
    <3>1. PICK k \in 1..Len(names) : i = Len(names) + k /\ names[k] = n
          BY <2>14, <2>15
    <3>2. ASSUME NEW j \in 1..(i - 1), p[j] = <<"register", n>> PROVE FALSE
      <4>1. j \in 1..Len(p)
            BY <2>2, <2>6
      <4>2. PICK l \in 1..Len(names) : j = Len(names) + l /\ names[l] = n
            BY <2>14, <3>2, <4>1
      <4>3. l = k
            BY <2>13, <3>1, <4>2
      <4>4. QED BY <2>2, <3>1, <4>2, <4>3
    <3>3. 2 * Len(names) + k \in 1..Len(p)
          BY <2>2, <2>6
    <3>4. p[2 * Len(names) + k] = <<"install", n>>
          BY <2>8, <3>1
    <3>5. QED BY <3>2, <3>3, <3>4
  <2>16. InOrder(p)
    <3>1. p \in Seq({"read", "register", "install"} \X Name) /\ Len(p) \in Nat \ {0}
          BY <2>6, <2>12 DEF I
    <3>2. ASSUME NEW i \in 1..Len(p), NEW n \in Name
          PROVE  /\ p[i] = <<"read", n>> => \A j \in 1..(i - 1) : p[j] # <<"register", n>>
                 /\ p[i] = <<"install", n>> =>
                       /\ \E j \in 1..(i - 1) : p[j] = <<"register", n>>
                       /\ \E j \in 1..(i - 1) : p[j] = <<"read", n>>
                 /\ p[i] = <<"register", n>> =>
                       /\ \A j \in 1..(i - 1) : p[j] # <<"register", n>>
                       /\ \E j \in 1..Len(p) : p[j] = <<"install", n>>
          BY <2>10, <2>11, <2>15, Zenon
    <3>3. QED BY <3>1, <3>2 DEF InOrder
  <2>17. QED BY <2>7, <2>16
<1>2. CASE kind = "audit"
  <2>1. PICK names : names = Audit /\ names \in Seq(Name) /\ names # << >>
        BY PatchingAssumption
  <2>2. /\ Len(names) \in Nat \ {0} /\ DOMAIN names = 1..Len(names)
        /\ \A i \in 1..Len(names) : names[i] \in Name
        /\ \A i, j \in 1..Len(names) : names[i] = names[j] => i = j
    <3>1. \A i, j \in DOMAIN Audit : Audit[i] = Audit[j] => i = j
          BY PatchingAssumption
    <3>2. Len(names) \in Nat \ {0} /\ DOMAIN names = 1..Len(names)
          BY <2>1
    <3>3. QED BY <2>1, <3>1, <3>2
  <2> DEFINE p == [i \in 1..(3 * Len(names)) |->
                     <<<<"read", "register", "install">>[((i - 1) % 3) + 1],
                       names[((i - 1) \div 3) + 1]>>]
  <2>3. p = Program(kind)
        BY <1>2, <2>1 DEF Program
  <2>4. ASSUME NEW k \in 1..Len(names)
        PROVE  /\ 3 * k - 2 \in 1..(3 * Len(names)) /\ p[3 * k - 2] = <<"read", names[k]>>
               /\ 3 * k - 1 \in 1..(3 * Len(names)) /\ p[3 * k - 1] = <<"register", names[k]>>
               /\ 3 * k \in 1..(3 * Len(names)) /\ p[3 * k] = <<"install", names[k]>>
    <3>1. ASSUME NEW r \in 0..2, NEW i \in Nat, i = 3 * k - 2 + r
          PROVE  /\ i \in 1..(3 * Len(names))
                 /\ ((i - 1) % 3) + 1 = r + 1 /\ ((i - 1) \div 3) + 1 = k
          BY <2>2, <3>1
    <3>2. /\ 3 * k - 2 \in Nat /\ 3 * k - 1 \in Nat /\ 3 * k \in Nat
          /\ 3 * k - 2 = 3 * k - 2 + 0 /\ 3 * k - 1 = 3 * k - 2 + 1 /\ 3 * k = 3 * k - 2 + 2
          BY <2>2
    <3>3. /\ 3 * k - 2 \in 1..(3 * Len(names))
          /\ ((3 * k - 2 - 1) % 3) + 1 = 1 /\ ((3 * k - 2 - 1) \div 3) + 1 = k
          BY <2>2
    <3>4. /\ 3 * k - 1 \in 1..(3 * Len(names))
          /\ ((3 * k - 1 - 1) % 3) + 1 = 2 /\ ((3 * k - 1 - 1) \div 3) + 1 = k
          BY <2>2
    <3>5. /\ 3 * k \in 1..(3 * Len(names))
          /\ ((3 * k - 1) % 3) + 1 = 3 /\ ((3 * k - 1) \div 3) + 1 = k
          BY <2>2
    <3>6. QED BY <3>3, <3>4, <3>5
  <2>5. ASSUME NEW i \in 1..(3 * Len(names))
        PROVE  \E k \in 1..Len(names) : i = 3 * k - 2 \/ i = 3 * k - 1 \/ i = 3 * k
    <3>1. ((i - 1) \div 3) + 1 \in 1..Len(names)
          BY <2>2
    <3>2. PICK k \in 1..Len(names) : k = ((i - 1) \div 3) + 1
          BY <3>1
    <3>3. i = 3 * k - 2 \/ i = 3 * k - 1 \/ i = 3 * k
          BY <2>2, <3>2
    <3>4. QED BY <3>3
  <2>6. p \in Seq(Op \X Name) /\ Len(p) = 3 * Len(names)
    <3>1. \A i \in 1..(3 * Len(names)) : p[i] \in Op \X Name
          BY <2>2, <2>4, <2>5
    <3>2. p = [i \in 1..(3 * Len(names)) |-> p[i]] /\ 3 * Len(names) \in Nat
          BY <2>2
    <3> HIDE DEF p
    <3>3. QED BY <3>1, <3>2
  <2> HIDE DEF p, Op
  <2>11. ASSUME NEW i \in 1..(3 * Len(names)), NEW op \in {"read", "register", "install"},
                NEW n \in Name, p[i] = <<op, n>>
         PROVE  \E k \in 1..Len(names) :
                   /\ names[k] = n
                   /\ op = "read" => i = 3 * k - 2
                   /\ op = "register" => i = 3 * k - 1
                   /\ op = "install" => i = 3 * k
    <3>1. PICK k \in 1..Len(names) : i = 3 * k - 2 \/ i = 3 * k - 1 \/ i = 3 * k
          BY <2>5
    <3>2. /\ p[3 * k - 2] = <<"read", names[k]>>
          /\ p[3 * k - 1] = <<"register", names[k]>>
          /\ p[3 * k] = <<"install", names[k]>>
          BY <2>4
    <3>3. CASE i = 3 * k - 2
          BY <2>11, <3>2, <3>3
    <3>4. CASE i = 3 * k - 1
          BY <2>11, <3>2, <3>4
    <3>5. CASE i = 3 * k
          BY <2>11, <3>2, <3>5
    <3>6. QED BY <3>1, <3>3, <3>4, <3>5
  <2>7. ASSUME NEW i \in 1..Len(p), NEW n \in Name, p[i] = <<"read", n>>
        PROVE  \A j \in 1..(i - 1) : p[j] # <<"register", n>>
    <3>1. PICK k \in 1..Len(names) : i = 3 * k - 2 /\ names[k] = n
          BY <2>6, <2>7, <2>11
    <3>2. ASSUME NEW j \in 1..(i - 1), p[j] = <<"register", n>> PROVE FALSE
      <4>1. j \in 1..(3 * Len(names))
            BY <2>2, <2>6
      <4>2. PICK l \in 1..Len(names) : j = 3 * l - 1 /\ names[l] = n
            BY <2>11, <3>2, <4>1
      <4>3. l = k
            BY <2>2, <3>1, <4>2
      <4>4. QED BY <2>2, <3>1, <4>2, <4>3
    <3>3. QED BY <3>2
  <2>8. ASSUME NEW i \in 1..Len(p), NEW n \in Name, p[i] = <<"install", n>>
        PROVE  /\ \E j \in 1..(i - 1) : p[j] = <<"register", n>>
               /\ \E j \in 1..(i - 1) : p[j] = <<"read", n>>
    <3>1. PICK k \in 1..Len(names) : i = 3 * k /\ names[k] = n
          BY <2>6, <2>8, <2>11
    <3>2. 3 * k - 1 \in 1..(i - 1) /\ 3 * k - 2 \in 1..(i - 1)
          BY <2>2, <3>1
    <3>3. QED BY <2>4, <3>1, <3>2
  <2>9. Len(p) \in Nat \ {0}
        BY <2>2, <2>6
  <2>10. ASSUME NEW i \in 1..Len(p), NEW n \in Name, p[i] = <<"register", n>>
         PROVE  /\ \A j \in 1..(i - 1) : p[j] # <<"register", n>>
                /\ \E j \in 1..Len(p) : p[j] = <<"install", n>>
    <3>1. PICK k \in 1..Len(names) : i = 3 * k - 1 /\ names[k] = n
          BY <2>6, <2>10, <2>11
    <3>2. ASSUME NEW j \in 1..(i - 1), p[j] = <<"register", n>> PROVE FALSE
      <4>1. j \in 1..(3 * Len(names))
            BY <2>2, <2>6
      <4>2. PICK l \in 1..Len(names) : j = 3 * l - 1 /\ names[l] = n
            BY <2>11, <3>2, <4>1
      <4>3. l = k
            BY <2>2, <3>1, <4>2
      <4>4. QED BY <2>2, <3>1, <4>2, <4>3
    <3>3. 3 * k \in 1..Len(p) /\ p[3 * k] = <<"install", n>>
          BY <2>4, <2>6, <3>1
    <3>4. QED BY <3>2, <3>3
  <2>12. InOrder(p)
    <3>1. p \in Seq({"read", "register", "install"} \X Name) /\ Len(p) \in Nat \ {0}
          BY <2>6, <2>9 DEF Op
    <3>2. ASSUME NEW i \in 1..Len(p), NEW n \in Name
          PROVE  /\ p[i] = <<"read", n>> => \A j \in 1..(i - 1) : p[j] # <<"register", n>>
                 /\ p[i] = <<"install", n>> =>
                       /\ \E j \in 1..(i - 1) : p[j] = <<"register", n>>
                       /\ \E j \in 1..(i - 1) : p[j] = <<"read", n>>
                 /\ p[i] = <<"register", n>> =>
                       /\ \A j \in 1..(i - 1) : p[j] # <<"register", n>>
                       /\ \E j \in 1..Len(p) : p[j] = <<"install", n>>
          BY <2>7, <2>8, <2>10, Zenon
    <3>3. QED BY <3>1, <3>2 DEF InOrder
  <2>13. QED BY <2>3, <2>12
<1>3. QED BY <1>1, <1>2

-----------------------------------------------------------------------------
(* Stacks of contexts.                                                     *)

\* Thread t's innermost context becomes g, in place.
Retop(t, g) ==
    /\ frames[t] # << >> /\ SetTop(t, g)
    /\ g.id = Top(t).id /\ g.by = Top(t).by
    /\ UNCHANGED entered

\* The innermost context of a thread.
LEMMA TopOf ==
    ASSUME PType, NEW t \in Thread, frames[t] # << >>
    PROVE  /\ Len(frames[t]) \in Nat \ {0} /\ DOMAIN frames[t] = 1..Len(frames[t])
           /\ 1 \in DOMAIN frames[t] /\ Top(t) = frames[t][1] /\ Top(t) \in Frame
<1>1. frames[t] \in Seq(Frame)
      BY DEF PType
<1>2. QED BY <1>1 DEF Top

\* A thread is in a phase if its innermost context is.
LEMMA InPhase ==
    ASSUME PType, NEW t \in Thread, NEW phase
    PROVE  In(t, phase) <=> frames[t] # << >> /\ Top(t).phase = phase
BY DEF In, Top

\* The types of the parts of a context.
LEMMA FrameParts ==
    ASSUME NEW f \in Frame
    PROVE  /\ f.id \in Context /\ f.pc \in Nat /\ f.undo \in Seq(Name) /\ f.ours \in BOOLEAN
           /\ f.kind \in {"shim", "audit"} /\ f.phase \in {"wait", "setup", "body", "undo"}
           /\ f.exc \in {"ok", "fail", "usage", "cancelled", "base"} /\ f.by \in {"user", "run"}
BY DEF Frame

\* What changes when the innermost context does.
LEMMA RetopShape ==
    ASSUME PType, NEW t \in Thread, NEW g \in Frame, Retop(t, g)
    PROVE  /\ frames' \in [Thread -> Seq(Frame)]
           /\ \A u \in Thread : /\ DOMAIN frames'[u] = DOMAIN frames[u]
                                /\ Len(frames'[u]) = Len(frames[u])
           /\ 1 \in DOMAIN frames[t] /\ frames[t][1] = Top(t) /\ Top(t) \in Frame
           /\ frames'[t][1] = g /\ frames'[t] # << >> /\ Top(t)' = g
           /\ \A u \in Thread : \A i \in DOMAIN frames[u] :
                 u # t \/ i # 1 => frames'[u][i] = frames[u][i]
           /\ \A u \in Thread : u # t => frames'[u] = frames[u]
<1>1. PICK s \in Seq(Frame) : s = frames[t] /\ s # << >>
      BY DEF PType, Retop
<1>2. PICK r : r = <<g>> \o Tail(s)
      OBVIOUS
<1>3. /\ r \in Seq(Frame) /\ Len(r) = Len(s) /\ r[1] = g /\ DOMAIN r = DOMAIN s /\ r # << >>
      /\ \A i \in DOMAIN s : i # 1 => r[i] = s[i]
      /\ Head(r) = g
  <2>1. /\ Len(s) \in Nat \ {0} /\ DOMAIN s = 1..Len(s) /\ Tail(s) \in Seq(Frame)
        /\ Len(Tail(s)) = Len(s) - 1
        /\ \A i \in 1..(Len(s) - 1) : Tail(s)[i] = s[i + 1]
        BY <1>1
  <2>2. PICK q \in Seq(Frame) : q = Tail(s)
        BY <2>1, Zenon
  <2>3. /\ r \in Seq(Frame) /\ Len(r) = Len(q) + 1 /\ r[1] = g
        /\ \A i \in 1..Len(q) : r[i + 1] = q[i]
        BY <1>2, <2>2
  <2>4. Len(r) = Len(s)
        BY <2>1, <2>2, <2>3
  <2>5. ASSUME NEW i \in DOMAIN s, i # 1 PROVE r[i] = s[i]
    <3>1. i - 1 \in 1..Len(q) /\ i - 1 \in 1..(Len(s) - 1) /\ (i - 1) + 1 = i
          BY <2>1, <2>2, <2>5
    <3>2. r[(i - 1) + 1] = q[i - 1] /\ q[i - 1] = s[(i - 1) + 1]
          BY <2>1, <2>2, <2>3, <3>1
    <3>3. QED BY <3>1, <3>2
  <2>6. DOMAIN r = 1..Len(r) /\ Head(r) = r[1] /\ r # << >>
        BY <2>1, <2>3, <2>4
  <2>7. QED BY <2>1, <2>3, <2>4, <2>5, <2>6
<1>4. frames' = [frames EXCEPT ![t] = r]
      BY <1>1, <1>2 DEF Retop, SetTop
<1>5. /\ frames' \in [Thread -> Seq(Frame)] /\ frames'[t] = r
      /\ \A u \in Thread : u # t => frames'[u] = frames[u]
      BY <1>3, <1>4 DEF PType
<1>6. 1 \in DOMAIN frames[t] /\ frames[t][1] = Top(t) /\ Top(t) \in Frame
      BY TopOf DEF Retop
<1>7. Top(t)' = g
      BY <1>3, <1>5 DEF Top
<1>8. QED BY <1>1, <1>3, <1>5, <1>6, <1>7

\* Contexts stay numbered and in their bodies below the innermost.
LEMMA RetopStacked == ASSUME PType, Stacked, NEW t \in Thread, NEW g \in Frame, Retop(t, g) PROVE Stacked'
<1>1. ASSUME NEW u \in Thread, NEW i \in DOMAIN frames[u]
      PROVE  frames'[u][i].id = frames[u][i].id /\ (i > 1 => frames'[u][i].phase = frames[u][i].phase)
  <2>1. CASE u = t /\ i = 1
        BY <2>1, RetopShape DEF Retop
  <2>2. CASE u # t \/ i # 1
        BY <2>2, RetopShape
  <2>3. QED BY <2>1, <2>2
<1>2. entered' = entered
      BY DEF Retop
<1>3. \A u \in Thread : DOMAIN frames'[u] = DOMAIN frames[u] /\ Len(frames'[u]) = Len(frames[u])
      BY RetopShape
<1>4. ASSUME NEW u \in Thread
      PROVE  /\ Len(frames'[u]) <= entered'[u]
             /\ \A i \in DOMAIN frames'[u] :
                   /\ \E k \in 1..entered'[u] : frames'[u][i].id = <<u, k>>
                   /\ i > 1 => frames'[u][i].phase = "body"
                   /\ \A j \in DOMAIN frames'[u] : frames'[u][i].id = frames'[u][j].id => i = j
  <2>1. Len(frames'[u]) <= entered'[u]
        BY <1>2, <1>3, Zenon DEF Stacked
  <2>2. ASSUME NEW i \in DOMAIN frames'[u]
        PROVE  /\ \E k \in 1..entered'[u] : frames'[u][i].id = <<u, k>>
               /\ i > 1 => frames'[u][i].phase = "body"
    <3>1. /\ \E k \in 1..entered[u] : frames[u][i].id = <<u, k>>
          /\ i > 1 => frames[u][i].phase = "body"
          BY <1>3, Zenon DEF Stacked
    <3>2. QED BY <1>1, <1>2, <1>3, <3>1, Zenon
  <2>3. ASSUME NEW i \in DOMAIN frames'[u], NEW j \in DOMAIN frames'[u],
               frames'[u][i].id = frames'[u][j].id
        PROVE  i = j
    <3>1. frames[u][i].id = frames[u][j].id
          BY <1>1, <1>3, <2>3, Zenon
    <3>2. QED BY <1>3, <3>1, Zenon DEF Stacked
  <2>4. QED BY <2>1, <2>2, <2>3
<1>5. QED BY <1>4, Zenon DEF Stacked

\* A context that is past the lock stays past it.
LEMMA RetopLocked ==
    ASSUME PType, Locked, NEW t \in Thread, NEW g \in Frame, Retop(t, g),
           Top(t).phase # "wait", g.phase # "wait", UNCHANGED lock
    PROVE  Locked'
<1>1. \A u \in Thread : Passed(u)' = Passed(u)
  <2>1. TAKE u \in Thread
  <2>2. Len(frames'[u]) = Len(frames[u])
        BY RetopShape
  <2>3. In(u, "wait")' <=> In(u, "wait")
    <3>1. CASE u = t
      <4>1. ~In(t, "wait")
            BY DEF In, Top
      <4>2. ~In(t, "wait")'
            BY RetopShape DEF In, Top
      <4>3. QED BY <3>1, <4>1, <4>2
    <3>2. CASE u # t
      <4>1. frames'[u] = frames[u]
            BY <3>2, RetopShape
      <4>2. QED BY <4>1 DEF In
    <3>3. QED BY <3>1, <3>2
  <2>4. QED BY <2>2, <2>3 DEF Passed
<1>2. QED BY <1>1 DEF Locked

\* Every context stays prepared if the innermost does.
LEMMA RetopPrepares ==
    ASSUME PType, Prepares, NEW t \in Thread, NEW g \in Frame, Retop(t, g), Prepared(g)
    PROVE  Prepares'
<1>1. ASSUME NEW u \in Thread, NEW i \in DOMAIN frames'[u] PROVE Prepared(frames'[u][i])
  <2>1. i \in DOMAIN frames[u]
        BY RetopShape
  <2>2. CASE u = t /\ i = 1
        BY <2>2, RetopShape
  <2>3. CASE u # t \/ i # 1
    <3>1. frames'[u][i] = frames[u][i] /\ Prepared(frames[u][i])
          BY <2>1, <2>3, RetopShape DEF Prepares
    <3>2. QED BY <3>1
  <2>4. QED BY <2>2, <2>3
<1>2. QED BY <1>1 DEF Prepares, Prepared, Did

\* Whatever a context further out restores it goes on to restore.
LEMMA RetopRestores ==
    ASSUME PType, NEW t \in Thread, NEW g \in Frame, Retop(t, g),
           NEW u \in Thread, NEW i \in Nat, NEW c, NEW n, Restores(u, i, c, n),
           u = t /\ i <= 1 /\ c = g.id /\ n \in Range(Top(t).undo) => n \in Range(g.undo)
    PROVE  \E j \in DOMAIN frames'[u] :
              j >= i /\ frames'[u][j].id = c /\ n \in Range(frames'[u][j].undo)
<1>1. PICK j \in DOMAIN frames[u] : /\ j >= i /\ frames[u][j].id = c
                                    /\ n \in Range(frames[u][j].undo)
      BY DEF Restores
<1>2. j \in DOMAIN frames'[u]
      BY RetopShape
<1>3. CASE u = t /\ j = 1
  <2>1. frames'[u][j] = g /\ c = g.id /\ n \in Range(Top(t).undo)
        BY <1>1, <1>3, RetopShape DEF Retop
  <2>2. n \in Range(g.undo)
        BY <1>1, <1>3, <2>1
  <2>3. QED BY <1>1, <1>2, <2>1, <2>2
<1>4. CASE u # t \/ j # 1
  <2>1. frames'[u][j] = frames[u][j]
        BY <1>4, RetopShape
  <2>2. QED BY <1>1, <1>2, <2>1
<1>5. QED BY <1>3, <1>4

\* Where nothing is installed or read, ownership stays if the innermost
\* context keeps what it must restore.
LEMMA RetopOwned ==
    ASSUME PType, Owned, NEW t \in Thread, NEW g \in Frame, Retop(t, g),
           UNCHANGED <<fn, orig>>, cut \subseteq cut',
           \A n \in Name \ cut' :
              fn[n] = g.id /\ n \in Range(Top(t).undo) => n \in Range(g.undo)
    PROVE  Owned'
<1>1. ASSUME NEW n \in Name \ cut', fn[n] \in Context
      PROVE  \E u \in Thread : Restores(u, 1, fn[n], n)'
  <2>1. PICK u \in Thread : Restores(u, 1, fn[n], n)
        BY <1>1 DEF Owned
  <2>2. PICK c : c = fn[n]
        OBVIOUS
  <2>3. \E j \in DOMAIN frames'[u] :
           j >= 1 /\ frames'[u][j].id = c /\ n \in Range(frames'[u][j].undo)
    <3>1. u = t /\ 1 <= 1 /\ c = g.id /\ n \in Range(Top(t).undo) => n \in Range(g.undo)
          BY <2>2
    <3>2. QED BY <2>1, <2>2, <3>1, RetopRestores
  <2>4. QED BY <2>2, <2>3 DEF Restores
<1>2. ASSUME NEW n \in Name \ cut', NEW u \in Thread, NEW i \in DOMAIN frames'[u],
             orig'[frames'[u][i].id][n] \in Context
      PROVE  Restores(u, i + 1, orig[frames[u][i].id][n], n)'
  <2>1. i \in DOMAIN frames[u] /\ frames'[u][i].id = frames[u][i].id
    <3>1. i \in DOMAIN frames[u]
          BY RetopShape
    <3>2. CASE u = t /\ i = 1
          BY <3>1, <3>2, RetopShape DEF Retop
    <3>3. CASE u # t \/ i # 1
          BY <3>1, <3>3, RetopShape
    <3>4. QED BY <3>1, <3>2, <3>3
  <2>2. PICK c : c = orig[frames[u][i].id][n]
        OBVIOUS
  <2>3. Restores(u, i + 1, c, n)
        BY <1>2, <2>1, <2>2 DEF Owned
  <2>4. i \in Nat /\ i >= 1
    <3>1. frames[u] \in Seq(Frame)
          BY DEF PType
    <3>2. QED BY <2>1, <3>1
  <2>5. PICK k \in Nat : k = i + 1 /\ ~(k <= 1)
        BY <2>4
  <2>6. \E j \in DOMAIN frames'[u] :
           j >= k /\ frames'[u][j].id = c /\ n \in Range(frames'[u][j].undo)
    <3>1. Restores(u, k, c, n)
          BY <2>3, <2>5
    <3>2. QED BY <2>5, <3>1, RetopRestores
  <2>7. orig'[frames'[u][i].id][n] = c
        BY <2>1, <2>2
  <2>8. QED BY <2>5, <2>6, <2>7 DEF Restores
<1>3. QED BY <1>1, <1>2 DEF Owned

\* Where nothing is installed or read, a replaced name leads on to its
\* replacement if the innermost context does not come to write it.
LEMMA RetopReplacements ==
    ASSUME PType, Replacements, NEW t \in Thread, NEW g \in Frame, Retop(t, g),
           UNCHANGED <<fn, orig, replaced, raced>>,
           \A n \in Name : Reads(g, n) => Reads(Top(t), n) \/ fn[n] = g.id
    PROVE  Replacements'
<1>1. ASSUME NEW n \in replaced \ raced PROVE \E L \in SUBSET Context : Leads(n, L)'
  <2>1. PICK L \in SUBSET Context : Leads(n, L)
        BY <1>1 DEF Replacements
  <2>2. n \in Name
        BY <1>1 DEF PType
  <2>3. g.id \in Context /\ g.id # Other
        BY FrameParts, PatchingAssumption
  <2>4. ASSUME NEW u \in Thread, NEW i \in DOMAIN frames'[u], Reads(frames'[u][i], n)
        PROVE  frames'[u][i].id \in L
    <3>1. i \in DOMAIN frames[u]
          BY RetopShape
    <3>2. CASE u = t /\ i = 1
      <4>1. frames'[u][i] = g /\ frames[u][i] = Top(t)
            BY <3>2, RetopShape
      <4>2. Reads(Top(t), n) \/ fn[n] = g.id
            BY <2>2, <2>4, <4>1
      <4>3. CASE Reads(Top(t), n)
            BY <2>1, <3>1, <4>1, <4>3 DEF Leads, Retop
      <4>4. CASE fn[n] = g.id
            BY <2>1, <2>3, <4>1, <4>4 DEF Leads
      <4>5. QED BY <4>2, <4>3, <4>4
    <3>3. CASE u # t \/ i # 1
      <4>1. frames'[u][i] = frames[u][i]
            BY <3>1, <3>3, RetopShape
      <4>2. QED BY <2>1, <2>4, <3>1, <4>1 DEF Leads
    <3>4. QED BY <3>2, <3>3
  <2>5. Leads(n, L)'
        BY <2>1, <2>4 DEF Leads, Reads, Did, Installs
  <2>6. QED BY <2>5
<1>2. QED BY <1>1 DEF Replacements

\* A step that only changes the innermost context, past the lock.
LEMMA RetopKeeps ==
    ASSUME PInv, NEW t \in Thread, NEW g \in Frame, Retop(t, g),
           Top(t).phase # "wait", g.phase # "wait", Prepared(g),
           UNCHANGED <<fn, orig, lock, replaced, raced>>,
           cut \subseteq cut', cut' \subseteq Name,
           \A n \in Name \ cut' :
              fn[n] = g.id /\ n \in Range(Top(t).undo) => n \in Range(g.undo),
           \A n \in Name : Reads(g, n) => Reads(Top(t), n) \/ fn[n] = g.id
    PROVE  PInv'
<1>1. PType /\ Stacked /\ Locked /\ Prepares /\ Owned /\ Unread /\ Unreplaced /\ Replacements
      BY DEF PInv
<1>2. entered' = entered
      BY DEF Retop
<1>3. frames' \in [Thread -> Seq(Frame)]
      BY <1>1, RetopShape
<1>4. PType'
      BY <1>1, <1>2, <1>3 DEF PType
<1>5. Stacked'
      BY <1>1, RetopStacked
<1>6. Locked'
      BY <1>1, RetopLocked
<1>7. Prepares'
      BY <1>1, RetopPrepares
<1>8. Owned'
      BY <1>1, RetopOwned
<1>9. Replacements'
      BY <1>1, RetopReplacements
<1>10. Unread' /\ Unreplaced'
       BY <1>1, <1>2 DEF Unread, Unreplaced
<1>11. QED BY <1>4, <1>5, <1>6, <1>7, <1>8, <1>9, <1>10 DEF PInv

-----------------------------------------------------------------------------
(* The steps of a context.                                                 *)

\* The body ends.
LEMMA LeaveKeeps == ASSUME PInv, NEW t \in Thread, NEW exc \in Outcome, Leave(t, exc) PROVE PInv'
<1> DEFINE f == Top(t)
           g == [f EXCEPT !.phase = "undo", !.exc = exc]
<1>1. PType /\ Prepares /\ frames[t] # << >> /\ f.phase = "body"
      BY DEF PInv, Leave, In, Top
<1>2. f \in Frame /\ Prepared(f)
      BY <1>1, TopOf DEF Prepares
<1>3. /\ g \in Frame /\ g.id = f.id /\ g.by = f.by /\ g.undo = f.undo /\ g.ours = f.ours
      /\ g.phase = "undo"
      BY <1>2 DEF Frame, Outcome
<1>4. SetTop(t, g) /\ UNCHANGED <<fn, orig, entered, lock, replaced, raced, cut>>
      BY DEF Leave
<1>5. ~f.ours
      BY <1>1, <1>2 DEF Prepared
<1> HIDE DEF g, f
<1>6. Retop(t, g)
      BY <1>1, <1>3, <1>4 DEF Retop, f
<1>7. Prepared(g) /\ \A n \in Name : ~Reads(g, n)
      BY <1>3, <1>5 DEF Prepared, Reads
<1>8. cut' \subseteq Name
      BY <1>1, <1>4 DEF PType
<1>9. QED BY <1>1, <1>3, <1>4, <1>6, <1>7, <1>8, RetopKeeps DEF f

\* An interrupt ends the set-up or the body.
LEMMA InterruptEnteredKeeps ==
    ASSUME PInv, NEW t \in Thread, InterruptEntered(t) PROVE PInv'
<1> DEFINE f == Top(t)
           g == [f EXCEPT !.phase = "undo", !.exc = "base"]
<1>1. PType /\ Prepares /\ frames[t] # << >> /\ f.phase \in {"setup", "body"}
      BY DEF PInv, InterruptEntered, In, Top
<1>2. f \in Frame /\ Prepared(f)
      BY <1>1, TopOf DEF Prepares
<1>3. /\ g \in Frame /\ g.id = f.id /\ g.by = f.by /\ g.undo = f.undo /\ g.ours = f.ours
      /\ g.phase = "undo"
      BY <1>2 DEF Frame
<1>4. SetTop(t, g) /\ UNCHANGED <<fn, orig, entered, lock, replaced, raced, cut>>
      BY DEF InterruptEntered
<1>5. ~f.ours
      BY <1>1, <1>2 DEF Prepared
<1> HIDE DEF g, f
<1>6. Retop(t, g)
      BY <1>1, <1>3, <1>4 DEF Retop, f
<1>7. Prepared(g) /\ \A n \in Name : ~Reads(g, n)
      BY <1>3, <1>5 DEF Prepared, Reads
<1>8. cut' \subseteq Name
      BY <1>1, <1>4 DEF PType
<1>9. QED BY <1>1, <1>3, <1>4, <1>6, <1>7, <1>8, RetopKeeps DEF f

\* The head and the tail of what a context has to restore.
LEMMA UndoParts ==
    ASSUME NEW s \in Seq(Name), s # << >>
    PROVE  /\ Head(s) \in Name /\ Head(s) \in Range(s) /\ Tail(s) \in Seq(Name)
           /\ \A n \in Range(s) : n = Head(s) \/ n \in Range(Tail(s))
<1>1. /\ Len(s) \in Nat \ {0} /\ DOMAIN s = 1..Len(s) /\ Head(s) = s[1] /\ s[1] \in Name
      /\ Tail(s) \in Seq(Name) /\ Len(Tail(s)) = Len(s) - 1
      /\ \A i \in 1..(Len(s) - 1) : Tail(s)[i] = s[i + 1]
      OBVIOUS
<1>2. 1 \in DOMAIN s /\ DOMAIN Tail(s) = 1..(Len(s) - 1)
      BY <1>1
<1>3. ASSUME NEW n \in Range(s), n # s[1] PROVE n \in Range(Tail(s))
  <2>1. PICK i \in 1..Len(s) : s[i] = n
        BY <1>1 DEF Range
  <2>2. i - 1 \in 1..(Len(s) - 1) /\ (i - 1) + 1 = i
        BY <1>1, <1>3, <2>1
  <2>3. Tail(s)[i - 1] = n
        BY <1>1, <2>1, <2>2
  <2>4. QED BY <1>2, <2>2, <2>3 DEF Range
<1>4. Head(s) \in Range(s)
      BY <1>1, <1>2 DEF Range
<1>5. QED BY <1>1, <1>3, <1>4

\* An interrupt in a restore.
LEMMA InterruptRestoreKeeps ==
    ASSUME PInv, NEW t \in Thread, InterruptRestore(t) PROVE PInv'
<1> DEFINE f == Top(t)
           g == [f EXCEPT !.undo = Tail(@), !.ours = FALSE, !.exc = "base"]
<1>1. PType /\ Prepares /\ frames[t] # << >> /\ f.phase = "undo" /\ f.undo # << >>
      BY DEF PInv, InterruptRestore, In, Top
<1>2. f \in Frame /\ f.undo \in Seq(Name)
      BY <1>1, TopOf, FrameParts
<1>3. /\ Head(f.undo) \in Name /\ Tail(f.undo) \in Seq(Name)
      /\ \A n \in Range(f.undo) : n = Head(f.undo) \/ n \in Range(Tail(f.undo))
      BY <1>1, <1>2, UndoParts
<1>4. /\ g \in Frame /\ g.id = f.id /\ g.by = f.by /\ g.undo = Tail(f.undo) /\ ~g.ours
      /\ g.phase = "undo"
      BY <1>1, <1>2, <1>3 DEF Frame
<1>5. SetTop(t, g) /\ UNCHANGED <<fn, orig, entered, lock, replaced, raced>>
      BY DEF InterruptRestore
<1>6. cut' = cut \cup {Head(f.undo)}
      BY DEF InterruptRestore
<1> HIDE DEF g
<1>7. Retop(t, g)
      BY <1>1, <1>4, <1>5 DEF Retop
<1>8. Prepared(g) /\ \A n \in Name : ~Reads(g, n)
      BY <1>4 DEF Prepared, Reads
<1>9. cut \subseteq cut' /\ cut' \subseteq Name
      BY <1>1, <1>3, <1>6 DEF PType
<1>10. \A n \in Name \ cut' : n \in Range(f.undo) => n \in Range(g.undo)
       BY <1>3, <1>4, <1>6
<1>11. QED BY <1>1, <1>4, <1>5, <1>7, <1>8, <1>9, <1>10, RetopKeeps

\* A restore is tested.
LEMMA RestoreTestKeeps == ASSUME PInv, NEW t \in Thread, RestoreTest(t) PROVE PInv'
<1> DEFINE f == Top(t)
           g == IF fn[Head(f.undo)] = f.id THEN [f EXCEPT !.ours = TRUE]
                                           ELSE [f EXCEPT !.undo = Tail(@)]
<1>1. PType /\ Prepares /\ frames[t] # << >> /\ f.phase = "undo" /\ f.undo # << >> /\ ~f.ours
      BY DEF PInv, RestoreTest, In, Top
<1>2. f \in Frame /\ f.undo \in Seq(Name)
      BY <1>1, TopOf, FrameParts
<1>3. /\ Head(f.undo) \in Name /\ Tail(f.undo) \in Seq(Name)
      /\ \A n \in Range(f.undo) : n = Head(f.undo) \/ n \in Range(Tail(f.undo))
      BY <1>1, <1>2, UndoParts
<1>4. /\ g \in Frame /\ g.id = f.id /\ g.by = f.by /\ g.phase = "undo"
      /\ \/ fn[Head(f.undo)] = f.id /\ g.undo = f.undo
         \/ fn[Head(f.undo)] # f.id /\ g.undo = Tail(f.undo) /\ ~g.ours
  <2>1. CASE fn[Head(f.undo)] = f.id
        BY <1>1, <1>2, <2>1 DEF Frame
  <2>2. CASE fn[Head(f.undo)] # f.id
        BY <1>1, <1>2, <1>3, <2>2 DEF Frame
  <2>3. QED BY <2>1, <2>2
<1>5. SetTop(t, g) /\ UNCHANGED <<fn, orig, entered, lock, replaced, raced, cut>>
      BY DEF RestoreTest
<1> HIDE DEF g
<1>6. Retop(t, g)
      BY <1>1, <1>4, <1>5 DEF Retop
<1>7. Prepared(g) /\ \A n \in Name : Reads(g, n) => fn[n] = g.id
      BY <1>1, <1>4 DEF Prepared, Reads
<1>8. cut' \subseteq Name
      BY <1>1, <1>5 DEF PType
<1>9. \A n \in Name \ cut' : fn[n] = g.id /\ n \in Range(f.undo) => n \in Range(g.undo)
      BY <1>3, <1>4
<1>10. QED BY <1>1, <1>4, <1>5, <1>6, <1>7, <1>8, <1>9, RetopKeeps

\* The names an undo list has after one more is registered.
LEMMA Registered ==
    ASSUME NEW s \in Seq(Name), NEW n \in Name
    PROVE  /\ <<n>> \o s \in Seq(Name) /\ Range(<<n>> \o s) = Range(s) \cup {n}
           /\ IsInjective(s) /\ n \notin Range(s) => IsInjective(<<n>> \o s)
<1>1. /\ Len(s) \in Nat /\ DOMAIN s = 1..Len(s)
      /\ <<n>> \o s \in Seq(Name) /\ Len(<<n>> \o s) = Len(s) + 1
      /\ DOMAIN (<<n>> \o s) = 1..(Len(s) + 1) /\ (<<n>> \o s)[1] = n
      /\ \A i \in 1..Len(s) : (<<n>> \o s)[i + 1] = s[i]
      OBVIOUS
<1>2. PICK r \in Seq(Name) : r = <<n>> \o s
      BY <1>1, Zenon
<1>3. /\ DOMAIN r = 1..(Len(s) + 1) /\ r[1] = n
      /\ \A i \in 1..Len(s) : r[i + 1] = s[i]
      BY <1>1, <1>2
<1>4. \A m \in Range(s) : m \in Range(r)
  <2>1. \A i \in 1..Len(s) : i + 1 \in 1..(Len(s) + 1)
        BY <1>1
  <2>2. QED BY <1>1, <1>3, <2>1 DEF Range
<1>5. n \in Range(r)
      BY <1>1, <1>3 DEF Range
<1>6. ASSUME NEW m \in Range(r) PROVE m \in Range(s) \/ m = n
  <2>1. PICK i \in 1..(Len(s) + 1) : r[i] = m
        BY <1>3 DEF Range
  <2>2. CASE i = 1
        BY <1>3, <2>1, <2>2
  <2>3. CASE i # 1
    <3>1. i - 1 \in 1..Len(s) /\ (i - 1) + 1 = i
          BY <1>1, <2>3
    <3>2. s[i - 1] = m
          BY <1>3, <2>1, <3>1
    <3>3. QED BY <1>1, <3>1, <3>2 DEF Range
  <2>4. QED BY <2>2, <2>3
<1>7. Range(r) = Range(s) \cup {n}
      BY <1>4, <1>5, <1>6
<1>8. ASSUME IsInjective(s), n \notin Range(s), NEW i \in DOMAIN r, NEW j \in DOMAIN r, r[i] = r[j]
      PROVE  i = j
  <2>1. \A k \in DOMAIN r : k # 1 => k - 1 \in DOMAIN s /\ r[k] = s[k - 1]
    <3>1. \A k \in 1..(Len(s) + 1) : k # 1 => k - 1 \in 1..Len(s) /\ (k - 1) + 1 = k
          BY <1>1
    <3>2. QED BY <1>1, <1>3, <3>1
  <2>2. \A k \in DOMAIN r : k # 1 => r[k] # n
        BY <1>8, <2>1 DEF Range
  <2>3. i # 1 /\ j # 1 => i - 1 = j - 1
        BY <1>8, <2>1 DEF IsInjective
  <2>4. i \in Int /\ j \in Int
        BY <1>3
  <2>5. QED BY <1>3, <1>8, <2>2, <2>3, <2>4
<1>9. IsInjective(s) /\ n \notin Range(s) => IsInjective(r)
      BY <1>8 DEF IsInjective
<1>10. QED BY <1>2, <1>7, <1>9, Zenon

\* A context f that executes an instruction becomes g.
Executed(f, g, op, n) ==
    /\ g \in Frame /\ g.id = f.id /\ g.by = f.by /\ g.phase \in {"setup", "body"} /\ ~g.ours
    /\ Prepared(g)
    /\ Range(g.undo) = IF op = "register" THEN Range(f.undo) \cup {n} ELSE Range(f.undo)
    /\ \A m \in Name : Reads(g, m) => Reads(f, m) \/ (op = "read" /\ m = n)
    /\ op = "read" => n \notin Range(f.undo)
    /\ op = "install" => n \in Range(f.undo) /\ Reads(f, n)
    /\ IsInjective(f.undo) => IsInjective(g.undo)
    /\ \A m \in Name : Holds(g, m) <=> Holds(f, m) \/ (op = "install" /\ m = n)

\* One instruction of the set-up.
LEMMA SetupExecutes ==
    ASSUME PType, Prepares, NEW t \in Thread, Setup(t)
    PROVE  \E g, op, n :
              /\ op \in {"read", "register", "install"} /\ n \in Name
              /\ Executed(Top(t), g, op, n) /\ SetTop(t, g)
              /\ \/ op = "read" /\ orig' = [orig EXCEPT ![Top(t).id][n] = fn[n]] /\ UNCHANGED fn
                 \/ op = "register" /\ UNCHANGED <<fn, orig>>
                 \/ op = "install" /\ fn' = [fn EXCEPT ![n] = Top(t).id] /\ UNCHANGED orig
<1>1. PICK f : f = Top(t)
      OBVIOUS
<1>2. f \in Frame /\ Prepared(f) /\ f.phase = "setup"
  <2>1. frames[t] # << >> /\ f.phase = "setup"
        BY <1>1 DEF Setup, In, Top
  <2>2. QED BY <1>1, <2>1, TopOf DEF Prepares
<1>3. PICK p : p = Program(f.kind)
      OBVIOUS
<1>4. f.kind \in {"shim", "audit"} /\ f.undo \in Seq(Name) /\ ~f.ours
      BY <1>2, FrameParts DEF Prepared
<1>5. /\ p \in Seq({"read", "register", "install"} \X Name) /\ Len(p) \in Nat \ {0}
      /\ \A i \in 1..Len(p), n \in Name :
            /\ p[i] = <<"read", n>> => \A j \in 1..(i - 1) : p[j] # <<"register", n>>
            /\ p[i] = <<"install", n>> => /\ \E j \in 1..(i - 1) : p[j] = <<"register", n>>
                                          /\ \E j \in 1..(i - 1) : p[j] = <<"read", n>>
            /\ p[i] = <<"register", n>> => /\ \A j \in 1..(i - 1) : p[j] # <<"register", n>>
                                           /\ \E j \in 1..Len(p) : p[j] = <<"install", n>>
  <2>1. InOrder(p)
        BY <1>3, <1>4, ProgramOrder
  <2>2. QED BY <2>1 DEF InOrder
<1>6. /\ f.pc \in 1..Len(p)
      /\ \A n \in Name : n \in Range(f.undo) <=> \E i \in 1..(f.pc - 1) : p[i] = <<"register", n>>
      BY <1>2, <1>3 DEF Prepared, Did
<1>7. PICK op \in {"read", "register", "install"}, n \in Name : p[f.pc] = <<op, n>>
  <2>1. p[f.pc] \in {"read", "register", "install"} \X Name
        BY <1>5, <1>6
  <2>2. QED BY <2>1
<1>8. op = p[f.pc][1] /\ n = p[f.pc][2]
      BY <1>7
<1>9. PICK g : g = [f EXCEPT !.pc = @ + 1,
                             !.undo = IF op = "register" THEN <<n>> \o @ ELSE @,
                             !.phase = IF f.pc = Len(p) THEN "body" ELSE @]
      OBVIOUS
<1>10. /\ SetTop(t, g)
       /\ \/ op = "read" /\ orig' = [orig EXCEPT ![f.id][n] = fn[n]] /\ UNCHANGED fn
          \/ op = "register" /\ UNCHANGED <<fn, orig>>
          \/ op = "install" /\ fn' = [fn EXCEPT ![n] = f.id] /\ UNCHANGED orig
       BY <1>1, <1>3, <1>8, <1>9 DEF Setup
<1>11. PICK undo \in Seq(Name) :
          /\ undo = IF op = "register" THEN <<n>> \o f.undo ELSE f.undo
          /\ Range(undo) = IF op = "register" THEN Range(f.undo) \cup {n} ELSE Range(f.undo)
          /\ IsInjective(f.undo) /\ (op = "register" => n \notin Range(f.undo)) => IsInjective(undo)
  <2>1. /\ <<n>> \o f.undo \in Seq(Name)
        /\ Range(<<n>> \o f.undo) = Range(f.undo) \cup {n}
        /\ IsInjective(f.undo) /\ n \notin Range(f.undo) => IsInjective(<<n>> \o f.undo)
        BY <1>4, Registered
  <2>2. CASE op = "register"
        BY <2>1, <2>2, Zenon
  <2>3. CASE op # "register"
        BY <1>4, <2>3, Zenon
  <2>4. QED BY <2>2, <2>3
<1>12. PICK phase \in {"setup", "body"} : phase = IF f.pc = Len(p) THEN "body" ELSE f.phase
       BY <1>2
<1>13. g = [f EXCEPT !.pc = f.pc + 1, !.undo = undo, !.phase = phase]
       BY <1>2, <1>9, <1>11, <1>12 DEF Frame
<1>14. /\ g \in Frame /\ g.id = f.id /\ g.by = f.by /\ g.kind = f.kind /\ ~g.ours
       /\ g.pc = f.pc + 1 /\ g.undo = undo /\ g.phase = phase
  <2>1. f.pc + 1 \in Nat
        BY <1>2, FrameParts
  <2>2. g \in Frame
        BY <1>2, <1>11, <1>12, <1>13, <2>1 DEF Frame
  <2>3. g.pc = f.pc + 1 /\ g.undo = undo /\ g.phase = phase
        BY <1>2, <1>13 DEF Frame
  <2>4. g.id = f.id /\ g.by = f.by /\ g.kind = f.kind /\ g.ours = f.ours
        BY <1>2, <1>13 DEF Frame
  <2>5. QED BY <1>4, <2>2, <2>3, <2>4
<1>15. \A o, m : Did(g, o, m) <=> Did(f, o, m) \/ <<o, m>> = <<op, n>>
  <2>1. TAKE o, m
  <2>2. /\ f.pc \in 1..((f.pc + 1) - 1)
        /\ \A i \in 1..((f.pc + 1) - 1) : i = f.pc \/ i \in 1..(f.pc - 1)
        /\ \A i \in 1..(f.pc - 1) : i \in 1..((f.pc + 1) - 1)
        BY <1>5, <1>6
  <2>3. (\E i \in 1..((f.pc + 1) - 1) : p[i] = <<o, m>>) <=>
           (\E i \in 1..(f.pc - 1) : p[i] = <<o, m>>) \/ <<o, m>> = <<op, n>>
        BY <1>7, <2>2
  <2>4. QED BY <1>3, <1>14, <2>3 DEF Did
<1>16. \A m : Installs(g, m) => Installs(f, m)
  <2>1. \A i \in (f.pc + 1)..Len(p) : i \in f.pc..Len(p)
        BY <1>5, <1>6
  <2>2. QED BY <1>3, <1>14, <2>1 DEF Installs
<1>17. Prepared(g)
  <2>1. g.phase = "setup" => g.pc \in 1..Len(p)
        BY <1>5, <1>6, <1>12, <1>14
  <2>2. \A m \in Name : m \in Range(g.undo) <=> Did(g, "register", m)
    <3>1. \A m \in Name : m \in Range(f.undo) <=> Did(f, "register", m)
          BY <1>2 DEF Prepared
    <3>2. CASE op = "register"
          BY <1>11, <1>14, <1>15, <3>1, <3>2
    <3>3. CASE op # "register"
          BY <1>11, <1>14, <1>15, <3>1, <3>3
    <3>4. QED BY <3>2, <3>3
  <2>3. g.phase # "wait" /\ ~g.ours
        BY <1>14
  <2>4. QED BY <1>3, <1>14, <2>1, <2>2, <2>3 DEF Prepared
<1>18. ASSUME NEW m \in Name, Reads(g, m) PROVE Reads(f, m) \/ (op = "read" /\ m = n)
  <2>1. Did(g, "read", m) /\ Installs(g, m)
        BY <1>14, <1>18 DEF Reads
  <2>2. Installs(f, m) /\ (Did(f, "read", m) \/ (op = "read" /\ m = n))
        BY <1>15, <1>16, <2>1
  <2>3. QED BY <1>2, <2>2 DEF Reads
<1>19. op = "read" => n \notin Range(f.undo)
  <2>1. op = "read" => p[f.pc] = <<"read", n>>
        BY <1>7
  <2>2. QED BY <1>5, <1>6, <2>1, Zenon
<1>20. ASSUME op = "install" PROVE n \in Range(f.undo) /\ Reads(f, n)
  <2>1. /\ \E j \in 1..(f.pc - 1) : p[j] = <<"register", n>>
        /\ \E j \in 1..(f.pc - 1) : p[j] = <<"read", n>>
    <3>1. p[f.pc] = <<"install", n>>
          BY <1>7, <1>20
    <3>2. QED BY <1>5, <1>6, <3>1, Zenon
  <2>2. n \in Range(f.undo) /\ Did(f, "read", n)
        BY <1>3, <1>6, <2>1 DEF Did
  <2>3. f.pc \in f.pc..Len(p)
        BY <1>5, <1>6
  <2>4. Installs(f, n)
        BY <1>3, <1>7, <1>20, <2>3 DEF Installs
  <2>5. QED BY <1>2, <2>2, <2>4 DEF Reads
<1>21. IsInjective(f.undo) => IsInjective(g.undo)
  <2>1. op = "register" => n \notin Range(f.undo)
    <3>1. op = "register" => p[f.pc] = <<"register", n>>
          BY <1>7
    <3>2. QED BY <1>5, <1>6, <3>1, Zenon
  <2>2. QED BY <1>11, <1>14, <2>1, Zenon
<1>22. ASSUME NEW m \in Name PROVE Holds(g, m) <=> Holds(f, m) \/ (op = "install" /\ m = n)
  <2>1. g.phase = "body" /\ m \in Range(g.undo) => Did(g, "install", m)
    <3>1. HAVE g.phase = "body" /\ m \in Range(g.undo)
    <3>2. f.pc = Len(p)
          BY <1>2, <1>12, <1>14, <3>1
    <3>3. \E i \in 1..Len(p) : p[i] = <<"register", m>>
      <4>1. m \in Range(f.undo) \/ (op = "register" /\ m = n)
            BY <1>11, <1>14, <3>1
      <4>2. \A i \in 1..(f.pc - 1) : i \in 1..Len(p)
            BY <1>5, <1>6
      <4>3. QED BY <1>6, <1>7, <4>1, <4>2
    <3>4. PICK j \in 1..Len(p) : p[j] = <<"install", m>>
          BY <1>5, <3>3
    <3>5. j \in 1..(g.pc - 1)
          BY <1>5, <1>14, <3>2
    <3>6. QED BY <1>3, <1>14, <3>4, <3>5 DEF Did
  <2>2. Holds(g, m) <=> m \in Range(g.undo) /\ Did(g, "install", m)
        BY <1>14, <2>1 DEF Holds
  <2>3. Holds(f, m) <=> m \in Range(f.undo) /\ Did(f, "install", m)
        BY <1>2 DEF Holds
  <2>4. Did(g, "install", m) <=> Did(f, "install", m) \/ (op = "install" /\ m = n)
        BY <1>15
  <2>5. Did(f, "install", m) => m \in Range(f.undo)
    <3>1. ASSUME NEW i \in 1..(f.pc - 1), p[i] = <<"install", m>> PROVE m \in Range(f.undo)
      <4>1. i \in 1..Len(p)
            BY <1>5, <1>6
      <4>2. PICK j \in 1..(i - 1) : p[j] = <<"register", m>>
            BY <1>5, <3>1, <4>1
      <4>3. j \in 1..(f.pc - 1)
            BY <1>5, <1>6
      <4>4. QED BY <1>6, <4>2, <4>3
    <3>2. QED BY <1>3, <3>1 DEF Did
  <2>6. op = "install" => n \in Range(f.undo)
        BY <1>20
  <2>7. m \in Range(g.undo) <=> m \in Range(f.undo) \/ (op = "register" /\ m = n)
        BY <1>11, <1>14
  <2>8. QED BY <2>2, <2>3, <2>4, <2>5, <2>6, <2>7
<1>23. Executed(f, g, op, n)
       BY <1>11, <1>14, <1>17, <1>18, <1>19, <1>20, <1>21, <1>22 DEF Executed
<1>24. QED BY <1>1, <1>10, <1>23

\* A context with something to restore has passed the lock.
LEMMA HoldsTheLock ==
    ASSUME PType, Locked, Stacked, Prepares, NEW u \in Thread, NEW j \in DOMAIN frames[u],
           frames[u][j].phase \in {"setup", "undo"} \/ Range(frames[u][j].undo) # {}
    PROVE  lock.by = u
<1>1. /\ Len(frames[u]) \in Nat \ {0} /\ DOMAIN frames[u] = 1..Len(frames[u])
      /\ frames[u] # << >>
  <2>1. frames[u] \in Seq(Frame)
        BY DEF PType
  <2>2. QED BY <2>1
<1>2. /\ Top(u) = frames[u][1] /\ 1 \in DOMAIN frames[u]
      BY <1>1, TopOf
<1>3. frames[u][j].phase # "wait"
  <2>1. frames[u][j].phase = "wait" => frames[u][j].undo = << >>
        BY DEF Prepares, Prepared
  <2>2. Range(<< >>) = {}
        BY DEF Range
  <2>3. QED BY <2>1, <2>2
<1>4. In(u, "wait") => Len(frames[u]) > 1
  <2>1. In(u, "wait") => frames[u][1].phase = "wait"
        BY <1>2 DEF In, Top
  <2>2. QED BY <1>1, <1>3, <2>1
<1>5. Passed(u) > 0
  <2>1. CASE In(u, "wait")
        BY <1>1, <1>4, <2>1 DEF Passed
  <2>2. CASE ~In(u, "wait")
        BY <1>1, <2>2 DEF Passed
  <2>3. QED BY <2>1, <2>2
<1>6. QED BY <1>5 DEF Locked

\* A context reads a name: what it falls back to is restored further out.
LEMMA ReadKeeps ==
    ASSUME PInv, NEW t \in Thread, NEW g, NEW n \in Name, Retop(t, g),
           Top(t).phase = "setup", Executed(Top(t), g, "read", n),
           orig' = [orig EXCEPT ![Top(t).id][n] = fn[n]],
           UNCHANGED <<fn, lock, replaced, raced, cut>>
    PROVE  PInv'
<1>1. PType /\ Stacked /\ Locked /\ Prepares /\ Owned /\ Unread /\ Unreplaced /\ Replacements
      BY DEF PInv
<1>2. PICK f \in Frame : /\ f = Top(t) /\ f = frames[t][1] /\ 1 \in DOMAIN frames[t]
                         /\ f.id \in Context /\ g.id = f.id /\ f.id # Other
  <2>1. frames[t] # << >> /\ g.id = Top(t).id
        BY DEF Retop
  <2>2. Top(t) \in Frame /\ Top(t) = frames[t][1] /\ 1 \in DOMAIN frames[t]
        BY <1>1, <2>1, TopOf
  <2>3. Top(t).id \in Context
        BY <2>2, FrameParts
  <2>4. QED BY <2>1, <2>2, <2>3, PatchingAssumption
<1>3. /\ g \in Frame /\ Prepared(g) /\ g.phase # "wait" /\ Range(g.undo) = Range(f.undo)
      /\ n \notin Range(f.undo)
      /\ \A m \in Name : Reads(g, m) => Reads(f, m) \/ m = n
      BY <1>2 DEF Executed
<1>4. /\ orig' \in [Context -> [Name -> Function]]
      /\ orig'[f.id][n] = fn[n]
      /\ \A c \in Context, m \in Name : c # f.id \/ m # n => orig'[c][m] = orig[c][m]
      BY <1>1, <1>2 DEF PType
<1>5. PType'
  <2>1. frames' \in [Thread -> Seq(Frame)]
        BY <1>1, <1>3, RetopShape
  <2>2. QED BY <1>1, <1>4, <2>1 DEF PType, Retop
<1>6. Stacked' /\ Locked' /\ Prepares'
      BY <1>1, <1>3, RetopStacked, RetopLocked, RetopPrepares
<1>7. ASSUME NEW u \in Thread, NEW i \in Nat, NEW c, NEW m, Restores(u, i, c, m)
      PROVE  \E j \in DOMAIN frames'[u] :
                j >= i /\ frames'[u][j].id = c /\ m \in Range(frames'[u][j].undo)
  <2>1. m \in Range(Top(t).undo) => m \in Range(g.undo)
        BY <1>2, <1>3
  <2>2. QED BY <1>1, <1>3, <1>7, <2>1, RetopRestores
<1>8. ASSUME NEW m \in Name \ cut, fn[m] \in Context
      PROVE  \E u \in Thread : Restores(u, 1, fn[m], m)'
  <2>1. PICK u \in Thread : Restores(u, 1, fn[m], m)
        BY <1>1, <1>8 DEF Owned
  <2>2. \E j \in DOMAIN frames'[u] :
           j >= 1 /\ frames'[u][j].id = fn[m] /\ m \in Range(frames'[u][j].undo)
        BY <1>7, <2>1
  <2>3. QED BY <2>2 DEF Restores
<1>9. ASSUME NEW m \in Name \ cut, NEW u \in Thread, NEW i \in DOMAIN frames'[u],
             orig'[frames'[u][i].id][m] \in Context
      PROVE  Restores(u, i + 1, orig[frames[u][i].id][m], m)' 
  <2>1. i \in DOMAIN frames[u] /\ frames'[u][i].id = frames[u][i].id
    <3>1. i \in DOMAIN frames[u]
          BY <1>1, <1>3, RetopShape
    <3>2. CASE u = t /\ i = 1
          BY <1>1, <1>2, <1>3, <3>1, <3>2, RetopShape
    <3>3. CASE u # t \/ i # 1
          BY <1>1, <1>3, <3>1, <3>3, RetopShape
    <3>4. QED BY <3>1, <3>2, <3>3
  <2>2. PICK d \in Context : d = frames[u][i].id
    <3>1. frames[u][i] \in Frame
          BY <1>1, <2>1 DEF PType
    <3>2. QED BY <3>1, FrameParts
  <2>3. PICK c \in Context : c = orig'[d][m]
        BY <1>9, <2>1, <2>2
  <2>4. PICK k \in Nat : k = i + 1
    <3>1. frames[u] \in Seq(Frame)
          BY <1>1 DEF PType
    <3>2. i \in Nat
          BY <2>1, <3>1
    <3>3. QED BY <3>2
  <2>5. Restores(u, k, c, m)
    <3>1. CASE d = f.id /\ m = n
      <4>1. c = fn[n]
            BY <1>4, <2>3, <3>1
      <4>0. PICK v \in Thread : Restores(v, 1, c, n)
            BY <1>1, <1>9, <3>1, <4>1 DEF Owned
      <4>2. PICK j \in DOMAIN frames[v] :
               frames[v][j].id = c /\ n \in Range(frames[v][j].undo)
            BY <4>0 DEF Restores
      <4>3. v = t
        <5>1. lock.by = v
              BY <1>1, <4>2, HoldsTheLock
        <5>2. lock.by = t
              BY <1>1, <1>2, HoldsTheLock
        <5>3. QED BY <5>1, <5>2
      <4>4. u = t /\ i = 1
        <5>1. PICK a \in 1..entered[u] : frames[u][i].id = <<u, a>>
              BY <1>1, <2>1 DEF Stacked
        <5>2. PICK b \in 1..entered[t] : frames[t][1].id = <<t, b>>
              BY <1>1, <1>2 DEF Stacked
        <5>3. frames[u][i].id = frames[t][1].id
              BY <1>2, <2>2, <3>1
        <5>4. u = t
              BY <5>1, <5>2, <5>3
        <5>5. frames[t][i].id = frames[t][1].id /\ i \in DOMAIN frames[t]
              BY <2>1, <5>3, <5>4
        <5>6. QED BY <1>1, <1>2, <5>4, <5>5 DEF Stacked
      <4>5. j # 1
            BY <1>2, <1>3, <4>2, <4>3
      <4>6. frames[t] \in Seq(Frame)
            BY <1>1 DEF PType
      <4>7. j >= k
            BY <2>4, <4>2, <4>3, <4>4, <4>5, <4>6
      <4>8. QED BY <3>1, <4>2, <4>3, <4>4, <4>7 DEF Restores
    <3>2. CASE d # f.id \/ m # n
      <4>1. c = orig[d][m]
            BY <1>4, <2>3, <3>2
      <4>2. QED BY <1>1, <1>9, <2>1, <2>2, <2>4, <4>1 DEF Owned
    <3>3. QED BY <3>1, <3>2
  <2>6. \E j \in DOMAIN frames'[u] :
           j >= k /\ frames'[u][j].id = c /\ m \in Range(frames'[u][j].undo)
        BY <1>7, <2>5
  <2>7. QED BY <2>1, <2>2, <2>3, <2>4, <2>6 DEF Restores
<1>10. Owned'
       BY <1>8, <1>9 DEF Owned
<1>11. Unread'
  <2>1. PICK a \in 1..entered[t] : f.id = <<t, a>>
        BY <1>1, <1>2 DEF Stacked
  <2>2. ASSUME NEW u \in Thread, NEW k \in 1..MaxContexts, NEW m \in Name, k > entered[u]
        PROVE  orig'[<<u, k>>][m] = Real
    <3>1. <<u, k>> \in Context /\ orig[<<u, k>>][m] = Real
          BY <1>1, <2>2 DEF Unread, Context
    <3>2. <<u, k>> # f.id
      <4>1. entered[u] \in Nat /\ entered[t] \in Nat
            BY <1>1, PatchingAssumption DEF PType
      <4>2. QED BY <2>1, <2>2, <4>1
    <3>3. QED BY <1>4, <3>1, <3>2
  <2>3. QED BY <2>2 DEF Unread, Retop
<1>12. Unreplaced'
  <2>1. ASSUME NEW m \in Name \ replaced, NEW c \in Context PROVE orig'[c][m] # Other
    <3>1. CASE c = f.id /\ m = n
          BY <1>1, <1>4, <3>1 DEF Unreplaced
    <3>2. CASE c # f.id \/ m # n
          BY <1>1, <1>4, <3>2 DEF Unreplaced
    <3>3. QED BY <3>1, <3>2
  <2>2. QED BY <1>1, <2>1 DEF Unreplaced
<1>13. ASSUME NEW m \in replaced \ raced PROVE \E L \in SUBSET Context : Leads(m, L)'
  <2>1. PICK L \in SUBSET Context : Leads(m, L)
        BY <1>1, <1>13 DEF Replacements
  <2>2. m \in Name
        BY <1>1, <1>13 DEF PType
  <2>3. PICK M \in SUBSET Context : M = IF m = n THEN L \cup {f.id} ELSE L
        BY <1>2
  <2>4. fn[m] \in M \cup {Other}
        BY <2>1, <2>3 DEF Leads
  <2>5. ASSUME NEW c \in M PROVE orig'[c][m] \in M \cup {Other}
    <3>1. CASE c = f.id /\ m = n
          BY <1>4, <2>4, <3>1
    <3>2. CASE c # f.id \/ m # n
      <4>1. c \in L /\ orig'[c][m] = orig[c][m]
            BY <1>4, <2>2, <2>3, <3>2
      <4>2. QED BY <2>1, <2>3, <4>1 DEF Leads
    <3>3. QED BY <3>1, <3>2
  <2>6. ASSUME NEW u \in Thread, NEW i \in DOMAIN frames'[u], Reads(frames'[u][i], m)
        PROVE  frames'[u][i].id \in M
    <3>1. i \in DOMAIN frames[u]
          BY <1>1, <1>3, RetopShape
    <3>2. CASE u = t /\ i = 1
      <4>1. frames'[u][i] = g /\ frames[u][i] = f
            BY <1>1, <1>2, <1>3, <3>2, RetopShape
      <4>2. Reads(f, m) \/ m = n
            BY <1>3, <2>2, <2>6, <4>1
      <4>3. CASE Reads(f, m)
            BY <1>2, <2>1, <2>3, <3>1, <4>1, <4>3 DEF Leads
      <4>4. CASE m = n
            BY <1>2, <2>3, <4>1, <4>4
      <4>5. QED BY <4>2, <4>3, <4>4
    <3>3. CASE u # t \/ i # 1
      <4>1. frames'[u][i] = frames[u][i]
            BY <1>1, <1>3, <3>1, <3>3, RetopShape
      <4>2. QED BY <2>1, <2>3, <2>6, <3>1, <4>1 DEF Leads
    <3>4. QED BY <3>2, <3>3
  <2>7. Leads(m, M)'
        BY <2>4, <2>5, <2>6 DEF Leads, Reads, Did, Installs
  <2>8. QED BY <2>7
<1>14. Replacements'
       BY <1>13 DEF Replacements
<1>15. QED BY <1>5, <1>6, <1>10, <1>11, <1>12, <1>14 DEF PInv

\* A context writes a name, with its wrapper or with what it falls back to.
LEMMA WriteKeeps ==
    ASSUME PInv, NEW t \in Thread, NEW g \in Frame, NEW n \in Name, NEW v \in Function, Retop(t, g),
           Top(t).phase # "wait", g.phase # "wait", Prepared(g),
           fn' = [fn EXCEPT ![n] = v], UNCHANGED <<orig, lock, replaced, raced, cut>>,
           Reads(Top(t), n), (v = g.id /\ n \in Range(g.undo)) \/ v = orig[g.id][n],
           \A m \in Name : m # n /\ m \in Range(Top(t).undo) => m \in Range(g.undo),
           \A m \in Name : Reads(g, m) => Reads(Top(t), m)
    PROVE  PInv'
<1>1. PType /\ Stacked /\ Locked /\ Prepares /\ Owned /\ Unread /\ Unreplaced /\ Replacements
      BY DEF PInv
<1>2. PICK f \in Frame : /\ f = Top(t) /\ f = frames[t][1] /\ 1 \in DOMAIN frames[t]
                         /\ f.id \in Context /\ g.id = f.id /\ f.id # Other
  <2>1. frames[t] # << >> /\ g.id = Top(t).id
        BY DEF Retop
  <2>2. Top(t) \in Frame /\ Top(t) = frames[t][1] /\ 1 \in DOMAIN frames[t]
        BY <1>1, <2>1, TopOf
  <2>3. Top(t).id \in Context
        BY <2>2, FrameParts
  <2>4. QED BY <2>1, <2>2, <2>3, PatchingAssumption
<1>3. /\ fn' \in [Name -> Function] /\ fn'[n] = v
      /\ \A m \in Name : m # n => fn'[m] = fn[m]
      BY <1>1 DEF PType
<1>4. PType'
  <2>1. frames' \in [Thread -> Seq(Frame)]
        BY <1>1, RetopShape
  <2>2. QED BY <1>1, <1>3, <2>1 DEF PType, Retop
<1>5. Stacked' /\ Locked' /\ Prepares'
      BY <1>1, RetopStacked, RetopLocked, RetopPrepares
<1>6. ASSUME NEW u \in Thread, NEW k \in Nat, NEW c, NEW m \in Name, Restores(u, k, c, m),
             k > 1 \/ m # n
      PROVE  \E j \in DOMAIN frames'[u] :
                j >= k /\ frames'[u][j].id = c /\ m \in Range(frames'[u][j].undo)
  <2>1. u = t /\ k <= 1 /\ c = g.id /\ m \in Range(Top(t).undo) => m \in Range(g.undo)
        BY <1>6
  <2>2. QED BY <1>1, <1>6, <2>1, RetopRestores
<1>7. ASSUME NEW u \in Thread, NEW i \in DOMAIN frames[u], NEW m \in Name \ cut, NEW d, NEW c,
             d = frames[u][i].id, c = orig[d][m], c \in Context
      PROVE  \E j \in DOMAIN frames'[u] :
                j >= i + 1 /\ frames'[u][j].id = c /\ m \in Range(frames'[u][j].undo)
  <2>1. PICK k \in Nat : k = i + 1 /\ k > 1
    <3>1. frames[u] \in Seq(Frame)
          BY <1>1 DEF PType
    <3>2. i \in Nat \ {0}
          BY <3>1
    <3>3. QED BY <3>2
  <2>2. Restores(u, k, c, m)
        BY <1>1, <1>7, <2>1 DEF Owned
  <2>3. QED BY <1>6, <2>1, <2>2
<1>8. ASSUME NEW m \in Name \ cut, fn'[m] \in Context
      PROVE  \E u \in Thread : Restores(u, 1, fn[m], m)'
  <2>1. CASE m # n
    <3>1. PICK u \in Thread : Restores(u, 1, fn[m], m)
          BY <1>1, <1>3, <1>8, <2>1 DEF Owned
    <3>2. \E j \in DOMAIN frames'[u] :
             j >= 1 /\ frames'[u][j].id = fn[m] /\ m \in Range(frames'[u][j].undo)
          BY <1>6, <2>1, <3>1
    <3>3. fn'[m] = fn[m]
          BY <1>3, <2>1
    <3>4. QED BY <3>2, <3>3 DEF Restores
  <2>2. CASE m = n /\ v = g.id /\ n \in Range(g.undo)
    <3>1. 1 \in DOMAIN frames'[t] /\ frames'[t][1] = g /\ n \in Range(g.undo)
          BY <1>1, <1>2, <2>2, RetopShape
    <3>2. \E j \in DOMAIN frames'[t] :
             j >= 1 /\ frames'[t][j].id = v /\ m \in Range(frames'[t][j].undo)
          BY <2>2, <3>1
    <3>3. QED BY <1>3, <2>2, <3>2 DEF Restores
  <2>3. CASE m = n /\ v = orig[g.id][n]
    <3>1. v \in Context
          BY <1>3, <1>8, <2>3
    <3>2. \E j \in DOMAIN frames'[t] :
             j >= 1 + 1 /\ frames'[t][j].id = v /\ m \in Range(frames'[t][j].undo)
          BY <1>2, <1>7, <2>3, <3>1
    <3>3. frames'[t] \in Seq(Frame)
          BY <1>1, RetopShape
    <3>4. \E j \in DOMAIN frames'[t] :
             j >= 1 /\ frames'[t][j].id = v /\ m \in Range(frames'[t][j].undo)
          BY <3>2, <3>3
    <3>5. QED BY <1>3, <2>3, <3>4 DEF Restores
  <2>4. QED BY <2>1, <2>2, <2>3
<1>9. ASSUME NEW m \in Name \ cut, NEW u \in Thread, NEW i \in DOMAIN frames'[u],
             orig'[frames'[u][i].id][m] \in Context
      PROVE  Restores(u, i + 1, orig[frames[u][i].id][m], m)'
  <2>1. i \in DOMAIN frames[u] /\ frames'[u][i].id = frames[u][i].id
    <3>1. i \in DOMAIN frames[u]
          BY <1>1, RetopShape
    <3>2. CASE u = t /\ i = 1
          BY <1>1, <1>2, <3>1, <3>2, RetopShape
    <3>3. CASE u # t \/ i # 1
          BY <1>1, <3>1, <3>3, RetopShape
    <3>4. QED BY <3>1, <3>2, <3>3
  <2>2. PICK c : c = orig[frames[u][i].id][m]
        OBVIOUS
  <2>3. c = orig'[frames'[u][i].id][m] /\ c \in Context
        BY <1>9, <2>1, <2>2
  <2>4. \E j \in DOMAIN frames'[u] :
           j >= i + 1 /\ frames'[u][j].id = c /\ m \in Range(frames'[u][j].undo)
        BY <1>7, <2>1, <2>2, <2>3
  <2>5. QED BY <2>3, <2>4 DEF Restores
<1>10. Owned'
       BY <1>8, <1>9 DEF Owned
<1>11. Unread'
       BY <1>1 DEF Unread, Retop
<1>12. Unreplaced'
  <2>1. v = Other => n \in replaced
        BY <1>1, <1>2 DEF Unreplaced
  <2>2. \A m \in Name \ replaced : fn'[m] # Other
        BY <1>1, <1>3, <2>1 DEF Unreplaced
  <2>3. QED BY <1>1, <2>2 DEF Unreplaced
<1>13. ASSUME NEW m \in replaced \ raced PROVE \E L \in SUBSET Context : Leads(m, L)'
  <2>1. PICK L \in SUBSET Context : Leads(m, L)
        BY <1>1, <1>13 DEF Replacements
  <2>2. m \in Name
        BY <1>1, <1>13 DEF PType
  <2>3. fn'[m] \in L \cup {Other}
    <3>1. CASE m = n
      <4>1. g.id \in L
            BY <1>2, <2>1, <3>1 DEF Leads
      <4>2. v \in L \cup {Other}
            BY <2>1, <3>1, <4>1 DEF Leads
      <4>3. QED BY <1>3, <3>1, <4>2
    <3>2. CASE m # n
          BY <1>3, <2>1, <2>2, <3>2 DEF Leads
    <3>3. QED BY <3>1, <3>2
  <2>4. ASSUME NEW u \in Thread, NEW i \in DOMAIN frames'[u], Reads(frames'[u][i], m)
        PROVE  frames'[u][i].id \in L
    <3>1. i \in DOMAIN frames[u]
          BY <1>1, RetopShape
    <3>2. CASE u = t /\ i = 1
      <4>1. frames'[u][i] = g /\ frames[u][i] = f
            BY <1>1, <1>2, <3>2, RetopShape
      <4>2. Reads(f, m)
            BY <1>2, <2>2, <2>4, <4>1
      <4>3. QED BY <1>2, <2>1, <3>1, <4>1, <4>2 DEF Leads
    <3>3. CASE u # t \/ i # 1
      <4>1. frames'[u][i] = frames[u][i]
            BY <1>1, <3>1, <3>3, RetopShape
      <4>2. QED BY <2>1, <2>4, <3>1, <4>1 DEF Leads
    <3>4. QED BY <3>2, <3>3
  <2>5. Leads(m, L)'
        BY <2>1, <2>3, <2>4 DEF Leads, Reads, Did, Installs
  <2>6. QED BY <2>5
<1>14. Replacements'
       BY <1>13 DEF Replacements
<1>15. QED BY <1>4, <1>5, <1>10, <1>11, <1>12, <1>14 DEF PInv

\* One instruction of the set-up.
LEMMA SetupKeeps == ASSUME PInv, NEW t \in Thread, Setup(t) PROVE PInv'
<1>1. PType /\ Prepares /\ frames[t] # << >> /\ Top(t).phase = "setup"
      BY DEF PInv, Setup, In, Top
<1>2. PICK g, op, n :
         /\ op \in {"read", "register", "install"} /\ n \in Name
         /\ Executed(Top(t), g, op, n) /\ SetTop(t, g)
         /\ \/ op = "read" /\ orig' = [orig EXCEPT ![Top(t).id][n] = fn[n]] /\ UNCHANGED fn
            \/ op = "register" /\ UNCHANGED <<fn, orig>>
            \/ op = "install" /\ fn' = [fn EXCEPT ![n] = Top(t).id] /\ UNCHANGED orig
      BY <1>1, SetupExecutes
<1>3. UNCHANGED <<entered, lock, replaced, raced, cut>>
      BY DEF Setup
<1>4. /\ g \in Frame /\ g.id = Top(t).id /\ g.by = Top(t).by /\ g.phase # "wait" /\ Prepared(g)
      /\ Top(t) \in Frame /\ Top(t).id \in Function
  <2>1. Top(t) \in Frame /\ Top(t).id \in Context
        BY <1>1, TopOf, FrameParts
  <2>2. QED BY <1>2, <2>1 DEF Executed, Function
<1>5. Retop(t, g)
      BY <1>1, <1>2, <1>3, <1>4 DEF Retop
<1>6. CASE op = "read"
  <2>1. Executed(Top(t), g, "read", n)
        BY <1>2, <1>6
  <2>2. orig' = [orig EXCEPT ![Top(t).id][n] = fn[n]] /\ UNCHANGED fn
        BY <1>2, <1>6
  <2>3. QED BY <1>1, <1>2, <1>3, <1>5, <2>1, <2>2, ReadKeeps
<1>7. CASE op = "register"
  <2>1. /\ \A m : m \in Range(Top(t).undo) => m \in Range(g.undo)
        /\ \A m \in Name : Reads(g, m) => Reads(Top(t), m)
        BY <1>2, <1>7 DEF Executed
  <2>2. UNCHANGED <<fn, orig>>
        BY <1>2, <1>7
  <2>3. cut' \subseteq Name
        BY <1>1, <1>3 DEF PType
  <2>4. QED BY <1>1, <1>3, <1>4, <1>5, <2>1, <2>2, <2>3, RetopKeeps
<1>8. CASE op = "install"
  <2>1. /\ \A m : m \in Range(Top(t).undo) => m \in Range(g.undo)
        /\ \A m \in Name : Reads(g, m) => Reads(Top(t), m)
        /\ n \in Range(g.undo) /\ Reads(Top(t), n)
        BY <1>2, <1>8 DEF Executed
  <2>2. fn' = [fn EXCEPT ![n] = g.id] /\ UNCHANGED orig /\ g.id \in Function
        BY <1>2, <1>4, <1>8
  <2>3. QED BY <1>1, <1>2, <1>3, <1>4, <1>5, <2>1, <2>2, WriteKeeps
<1>9. QED BY <1>2, <1>6, <1>7, <1>8

\* A restore is carried out.
LEMMA RestoreSetKeeps == ASSUME PInv, NEW t \in Thread, RestoreSet(t) PROVE PInv'
<1> DEFINE f == Top(t)
           g == [f EXCEPT !.undo = Tail(@), !.ours = FALSE]
           n == Head(f.undo)
<1>1. PType /\ Prepares /\ frames[t] # << >> /\ f.phase = "undo" /\ f.undo # << >> /\ f.ours
      BY DEF PInv, RestoreSet, In, Top
<1>2. f \in Frame /\ f.undo \in Seq(Name) /\ f.id \in Context
      BY <1>1, TopOf, FrameParts
<1>3. /\ n \in Name /\ Tail(f.undo) \in Seq(Name)
      /\ \A m \in Range(f.undo) : m = n \/ m \in Range(Tail(f.undo))
      BY <1>1, <1>2, UndoParts
<1>4. /\ g \in Frame /\ g.id = f.id /\ g.by = f.by /\ g.phase = "undo"
      /\ g.undo = Tail(f.undo) /\ ~g.ours
      BY <1>1, <1>2, <1>3 DEF Frame
<1>5. /\ SetTop(t, g) /\ UNCHANGED <<orig, entered, lock, replaced, raced, cut>>
      /\ fn' = [fn EXCEPT ![n] = orig[f.id][n]]
      BY DEF RestoreSet
<1>6. Reads(f, n)
      BY <1>1 DEF Reads
<1> HIDE DEF g, n
<1>7. Retop(t, g)
      BY <1>1, <1>4, <1>5 DEF Retop
<1>8. Prepared(g) /\ \A m \in Name : ~Reads(g, m)
      BY <1>4 DEF Prepared, Reads
<1>9. orig[g.id][n] \in Function /\ fn' = [fn EXCEPT ![n] = orig[g.id][n]]
      BY <1>1, <1>2, <1>3, <1>4, <1>5 DEF PType
<1>10. \A m \in Name : m # n /\ m \in Range(f.undo) => m \in Range(g.undo)
       BY <1>3, <1>4
<1>11. QED BY <1>1, <1>3, <1>4, <1>5, <1>6, <1>7, <1>8, <1>9, <1>10, WriteKeeps

\* The contexts of a thread that is not waiting, or is, past the lock.
LEMMA PassedIs ==
    ASSUME PType, NEW t \in Thread
    PROVE  /\ Len(frames[t]) \in Nat
           /\ In(t, "wait") => Passed(t) = Len(frames[t]) - 1 /\ Len(frames[t]) > 0
           /\ ~In(t, "wait") => Passed(t) = Len(frames[t])
<1>1. frames[t] \in Seq(Frame)
      BY DEF PType
<1>2. Len(frames[t]) \in Nat /\ (frames[t] # << >> => Len(frames[t]) > 0)
      BY <1>1
<1>3. In(t, "wait") => frames[t] # << >>
      BY DEF In
<1>4. CASE In(t, "wait")
      BY <1>2, <1>3, <1>4 DEF Passed
<1>5. CASE ~In(t, "wait")
      BY <1>2, <1>5 DEF Passed
<1>6. QED BY <1>2, <1>4, <1>5

\* The other threads' part of the lock's account.
LEMMA OthersLocked ==
    ASSUME PType, Locked, NEW t \in Thread, lock' \in [by : Thread \cup {None}, count : 0..MaxContexts],
           \A u \in Thread : u # t => frames'[u] = frames[u],
           lock.by \in {None, t}, lock'.by \in {None, t},
           lock'.by = None => lock'.count = 0,
           lock'.by = t <=> Passed(t)' > 0, lock'.by = t => lock'.count = Passed(t)'
    PROVE  Locked'
<1>1. ASSUME NEW u \in Thread, u # t
      PROVE  /\ lock'.by = u <=> Passed(u)' > 0
             /\ lock'.by = u => lock'.count = Passed(u)'
  <2>1. Passed(u)' = Passed(u)
        BY <1>1 DEF Passed, In
  <2>2. ~(Passed(u) > 0)
        BY <1>1, PatchingAssumption DEF Locked
  <2>3. lock'.by # u
        BY <1>1, PatchingAssumption
  <2>4. QED BY <2>1, <2>2, <2>3
<1>2. QED BY <1>1 DEF Locked

\* A context takes the lock.
LEMMA AcquireKeeps == ASSUME PInv, NEW t \in Thread, Acquire(t) PROVE PInv'
<1> DEFINE f == Top(t)
           g == [f EXCEPT !.phase = "setup"]
<1>1. /\ PType /\ Stacked /\ Locked /\ Prepares /\ Owned /\ Unread /\ Unreplaced /\ Replacements
      /\ frames[t] # << >> /\ f.phase = "wait" /\ In(t, "wait") /\ lock.by \in {None, t}
      BY DEF PInv, Acquire, In, Top, Free
<1>2. f \in Frame /\ Prepared(f) /\ f.kind \in {"shim", "audit"} /\ f.undo = << >> /\ f.pc = 1
  <2>1. f \in Frame /\ Prepared(f)
        BY <1>1, TopOf DEF Prepares
  <2>2. QED BY <1>1, <2>1, FrameParts DEF Prepared
<1>3. /\ g \in Frame /\ g.id = f.id /\ g.by = f.by /\ g.undo = f.undo /\ g.ours = f.ours
      /\ g.phase = "setup" /\ g.pc = f.pc /\ g.kind = f.kind
      BY <1>2 DEF Frame
<1>4. /\ SetTop(t, g) /\ UNCHANGED <<fn, orig, entered, replaced, raced, cut>>
      /\ lock' = [by |-> t, count |-> lock.count + 1]
      BY DEF Acquire
<1>5. ~f.ours
      BY <1>1, <1>2 DEF Prepared
<1> HIDE DEF g, f
<1>6. Retop(t, g)
      BY <1>1, <1>3, <1>4 DEF Retop, f
<1>7. \A op, n : ~Did(g, op, n)
      BY <1>2, <1>3 DEF Did
<1>8. Prepared(g)
  <2>1. Len(Program(g.kind)) \in Nat \ {0}
        BY <1>2, <1>3, ProgramOrder DEF InOrder
  <2>2. g.pc \in 1..Len(Program(g.kind))
        BY <1>2, <1>3, <2>1
  <2>3. Range(g.undo) = {}
        BY <1>2, <1>3 DEF Range
  <2>4. QED BY <1>3, <1>5, <1>7, <2>2, <2>3 DEF Prepared
<1>9. \A n \in Name : ~Reads(g, n)
      BY <1>3, <1>5, <1>7 DEF Reads
<1>10. Passed(t)' = Passed(t) + 1 /\ Passed(t) \in Nat /\ Passed(t) + 1 = Len(frames[t])
  <2>1. Len(frames[t]) \in Nat \ {0} /\ Passed(t) = Len(frames[t]) - 1
        BY <1>1, PassedIs
  <2>2. Len(frames'[t]) = Len(frames[t]) /\ ~In(t, "wait")'
    <3>1. Top(t)' = g /\ Len(frames'[t]) = Len(frames[t])
          BY <1>1, <1>3, <1>6, RetopShape
    <3>2. QED BY <1>3, <3>1 DEF In, Top
  <2>3. Passed(t)' = Len(frames[t])
        BY <2>1, <2>2 DEF Passed
  <2>4. QED BY <2>1, <2>3
<1>11. lock.count = Passed(t)
  <2>1. lock.by = None => lock.count = 0 /\ ~(Passed(t) > 0)
        BY <1>1, PatchingAssumption DEF Locked
  <2>2. lock.by = t => lock.count = Passed(t)
        BY <1>1 DEF Locked
  <2>3. QED BY <1>1, <1>10, <2>1, <2>2
<1>12. lock' \in [by : Thread \cup {None}, count : 0..MaxContexts]
  <2>1. Len(frames[t]) <= entered[t] /\ entered[t] \in 0..MaxContexts
        BY <1>1 DEF Stacked, PType
  <2>2. lock.count + 1 \in 0..MaxContexts
        BY <1>10, <1>11, <2>1, PatchingAssumption
  <2>3. QED BY <1>4, <2>2
<1>13. Locked'
  <2>1. \A u \in Thread : u # t => frames'[u] = frames[u]
        BY <1>1, <1>3, <1>6, RetopShape
  <2>2. /\ lock'.by = t /\ lock'.by # None
        /\ lock'.count = Passed(t)' /\ Passed(t)' > 0
        BY <1>4, <1>10, <1>11, PatchingAssumption
  <2>3. QED BY <1>1, <1>12, <2>1, <2>2, OthersLocked
<1>14. PType'
  <2>1. frames' \in [Thread -> Seq(Frame)]
        BY <1>1, <1>3, <1>6, RetopShape
  <2>2. QED BY <1>1, <1>4, <1>12, <2>1 DEF PType
<1>15. Stacked' /\ Prepares'
       BY <1>1, <1>3, <1>6, <1>8, RetopStacked, RetopPrepares
<1>16. Owned'
  <2>1. \A n \in Name \ cut' : fn[n] = g.id /\ n \in Range(Top(t).undo) => n \in Range(g.undo)
        BY <1>3 DEF f
  <2>2. cut \subseteq cut' /\ UNCHANGED <<fn, orig>>
        BY <1>4
  <2>3. QED BY <1>1, <1>3, <1>6, <2>1, <2>2, RetopOwned
<1>17. Replacements'
       BY <1>1, <1>3, <1>4, <1>6, <1>9, RetopReplacements
<1>18. Unread' /\ Unreplaced'
       BY <1>1, <1>4 DEF Unread, Unreplaced
<1>19. QED BY <1>13, <1>14, <1>15, <1>16, <1>17, <1>18 DEF PInv

\* Code outside the library replaces a function: whoever is between reading
\* and writing the name is the exception.
LEMMA ReplaceKeeps == ASSUME PInv, NEW n \in Name, Replace(n) PROVE PInv'
<1>1. PType /\ Stacked /\ Locked /\ Prepares /\ Owned /\ Unread /\ Unreplaced /\ Replacements
      BY DEF PInv
<1>2. /\ fn' = [fn EXCEPT ![n] = Other] /\ replaced' = replaced \cup {n}
      /\ raced' = IF Reading(n) THEN raced \cup {n} ELSE raced
      /\ UNCHANGED <<orig, entered, lock, frames, cut>>
      BY DEF Replace
<1>3. /\ fn' \in [Name -> Function] /\ fn'[n] = Other
      /\ \A m \in Name : m # n => fn'[m] = fn[m]
      BY <1>1, <1>2 DEF PType, Function
<1>4. PType'
      BY <1>1, <1>2, <1>3 DEF PType
<1>5. Stacked' /\ Locked' /\ Prepares' /\ Unread'
  <2>1. Stacked' /\ Unread'
        BY <1>1, <1>2 DEF Stacked, Unread
  <2>2. \A u \in Thread : Passed(u)' = Passed(u)
        BY <1>2 DEF Passed, In
  <2>3. Locked'
        BY <1>1, <1>2, <2>2 DEF Locked
  <2>4. Prepares'
        BY <1>1, <1>2 DEF Prepares, Prepared, Did
  <2>5. QED BY <2>1, <2>3, <2>4
<1>6. Owned'
  <2>1. Other \notin Context
        BY PatchingAssumption
  <2>2. QED BY <1>1, <1>2, <1>3, <2>1 DEF Owned, Restores
<1>7. Unreplaced'
      BY <1>1, <1>2, <1>3 DEF Unreplaced
<1>8. ASSUME NEW m \in replaced' \ raced' PROVE \E L \in SUBSET Context : Leads(m, L)'
  <2>1. CASE m = n
    <3>1. ~Reading(n)
          BY <1>2, <1>8, <2>1
    <3>2. ASSUME NEW u \in Thread, NEW i \in DOMAIN frames[u] PROVE ~Reads(frames[u][i], n)
      <4>1. frames[u][i] \in Range(frames[u])
            BY DEF Range
      <4>2. QED BY <3>1, <4>1 DEF Reading, Reads, Did, Installs
    <3>3. Leads(n, {})'
          BY <1>2, <1>3, <3>2 DEF Leads, Reads, Did, Installs
    <3>4. QED BY <2>1, <3>3
  <2>2. CASE m # n
    <3>1. m \in replaced \ raced /\ m \in Name
          BY <1>1, <1>2, <1>8, <2>2 DEF PType
    <3>2. PICK L \in SUBSET Context : Leads(m, L)
          BY <1>1, <3>1 DEF Replacements
    <3>3. Leads(m, L)'
          BY <1>2, <1>3, <2>2, <3>1, <3>2 DEF Leads, Reads, Did, Installs
    <3>4. QED BY <3>3
  <2>3. QED BY <2>1, <2>2
<1>9. Replacements'
      BY <1>8 DEF Replacements
<1>10. QED BY <1>4, <1>5, <1>6, <1>7, <1>9 DEF PInv

\* Thread t enters context g.
Pushes(t, g) == frames' = [frames EXCEPT ![t] = <<g>> \o @]

\* What changes when a context is entered.
LEMMA PushShape ==
    ASSUME PType, NEW t \in Thread, NEW g \in Frame, Pushes(t, g)
    PROVE  /\ frames' \in [Thread -> Seq(Frame)]
           /\ \A u \in Thread : u # t => frames'[u] = frames[u]
           /\ Len(frames'[t]) = Len(frames[t]) + 1 /\ Len(frames[t]) \in Nat
           /\ DOMAIN frames[t] = 1..Len(frames[t]) /\ DOMAIN frames'[t] = 1..(Len(frames[t]) + 1)
           /\ frames'[t][1] = g /\ Top(t)' = g /\ frames'[t] # << >>
           /\ \A i \in DOMAIN frames[t] : frames'[t][i + 1] = frames[t][i]
           /\ \A i \in DOMAIN frames'[t] : i # 1 =>
                 i - 1 \in DOMAIN frames[t] /\ frames'[t][i] = frames[t][i - 1]
<1>1. PICK s \in Seq(Frame) : s = frames[t]
      BY DEF PType
<1>2. /\ <<g>> \o s \in Seq(Frame) /\ Len(<<g>> \o s) = Len(s) + 1 /\ Len(s) \in Nat
      /\ (<<g>> \o s)[1] = g /\ \A i \in 1..Len(s) : (<<g>> \o s)[i + 1] = s[i]
      /\ DOMAIN s = 1..Len(s)
      OBVIOUS
<1>3. PICK r \in Seq(Frame) : r = <<g>> \o s
      BY <1>2, Zenon
<1>4. /\ Len(r) = Len(s) + 1 /\ Len(s) \in Nat /\ r[1] = g
      /\ \A i \in 1..Len(s) : r[i + 1] = s[i]
      /\ DOMAIN s = 1..Len(s)
      BY <1>2, <1>3
<1>5. DOMAIN r = 1..(Len(s) + 1) /\ Head(r) = r[1] /\ r # << >>
      BY <1>4
<1>6. ASSUME NEW i \in DOMAIN r, i # 1 PROVE i - 1 \in DOMAIN s /\ r[i] = s[i - 1]
  <2>1. i - 1 \in 1..Len(s) /\ (i - 1) + 1 = i
        BY <1>4, <1>5, <1>6
  <2>2. QED BY <1>4, <2>1
<1>7. frames' = [frames EXCEPT ![t] = r]
      BY <1>1, <1>3 DEF Pushes
<1>8. /\ frames' \in [Thread -> Seq(Frame)] /\ frames'[t] = r
      /\ \A u \in Thread : u # t => frames'[u] = frames[u]
      BY <1>7 DEF PType
<1>9. Top(t)' = g
      BY <1>4, <1>5, <1>8 DEF Top
<1>10. QED BY <1>1, <1>4, <1>5, <1>6, <1>8, <1>9

\* Where the contexts of a stack are after one more was entered.
LEMMA PushRestores ==
    ASSUME PType, NEW t \in Thread, NEW g \in Frame, Pushes(t, g),
           NEW u \in Thread, NEW i \in Nat, NEW k \in Nat, NEW c, NEW n, Restores(u, i, c, n),
           k = IF u = t THEN i + 1 ELSE i
    PROVE  \E j \in DOMAIN frames'[u] :
              j >= k /\ frames'[u][j].id = c /\ n \in Range(frames'[u][j].undo)
<1>1. PICK j \in DOMAIN frames[u] : /\ j >= i /\ frames[u][j].id = c
                                    /\ n \in Range(frames[u][j].undo)
      BY DEF Restores
<1>2. CASE u = t
  <2>1. j + 1 \in DOMAIN frames'[u] /\ j + 1 >= k
        BY <1>1, <1>2, PushShape
  <2>2. frames'[u][j + 1] = frames[u][j]
        BY <1>1, <1>2, PushShape
  <2>3. QED BY <1>1, <2>1, <2>2
<1>3. CASE u # t
      BY <1>1, <1>3, PushShape
<1>4. QED BY <1>2, <1>3

\* A thread enters a context from outside every context or from a body.
LEMMA EnterKeeps ==
    ASSUME PInv, NEW t \in Thread, NEW kind \in {"shim", "audit"}, NEW by \in {"user", "run"},
           Enter(t, kind, by), frames[t] = << >> \/ In(t, "body")
    PROVE  PInv'
<1>1. PType /\ Stacked /\ Locked /\ Prepares /\ Owned /\ Unread /\ Unreplaced /\ Replacements
      BY DEF PInv
<1>2. PICK e \in 1..MaxContexts : e = entered[t] + 1
  <2>1. entered[t] \in 0..MaxContexts /\ entered[t] < MaxContexts
        BY <1>1 DEF PType, Enter
  <2>2. entered[t] + 1 \in 1..MaxContexts
        BY <2>1, PatchingAssumption
  <2>3. QED BY <2>2, Zenon
<1> DEFINE g == [id |-> <<t, e>>, by |-> by, kind |-> kind, phase |-> "wait", pc |-> 1,
                 undo |-> << >>, ours |-> FALSE, exc |-> "ok"]
<1>3. /\ g \in Frame /\ g.id = <<t, e>> /\ g.phase = "wait" /\ g.pc = 1 /\ g.undo = << >>
      /\ ~g.ours
  <2>1. <<t, e>> \in Context
        BY DEF Context
  <2>2. << >> \in Seq(Name)
        OBVIOUS
  <2>3. QED BY <2>1, <2>2 DEF Frame
<1>4. /\ Pushes(t, g) /\ entered' = [entered EXCEPT ![t] = e]
      /\ UNCHANGED <<fn, orig, lock, replaced, raced, cut>>
      BY <1>2 DEF Enter, Pushes
<1> HIDE DEF g
<1>5. /\ entered' \in [Thread -> 0..MaxContexts] /\ entered'[t] = e /\ e > entered[t]
      /\ entered[t] \in Nat
      /\ \A u \in Thread : u # t => entered'[u] = entered[u]
      BY <1>1, <1>2, <1>4, PatchingAssumption DEF PType
<1>6. PType'
  <2>1. frames' \in [Thread -> Seq(Frame)]
        BY <1>1, <1>3, <1>4, PushShape
  <2>2. QED BY <1>1, <1>4, <1>5, <2>1 DEF PType
<1>7. \A i \in DOMAIN frames[t] : frames[t][i].phase = "body"
  <2>1. ASSUME NEW i \in DOMAIN frames[t] PROVE frames[t][i].phase = "body"
    <3>1. frames[t] # << >>
          OBVIOUS
    <3>2. frames[t][1].phase = "body" /\ DOMAIN frames[t] = 1..Len(frames[t]) /\ Len(frames[t]) \in Nat
          BY <1>1, <3>1, TopOf DEF In, Top
    <3>3. i = 1 \/ i > 1
          BY <3>2
    <3>4. QED BY <1>1, <3>2, <3>3 DEF Stacked
  <2>2. QED BY <2>1
<1>8. Stacked'
  <2>1. ASSUME NEW u \in Thread, u # t
        PROVE  frames'[u] = frames[u] /\ entered'[u] = entered[u]
        BY <1>1, <1>3, <1>4, <1>5, <2>1, PushShape
  <2>2. Len(frames'[t]) <= entered'[t]
    <3>1. Len(frames[t]) <= entered[t] /\ Len(frames'[t]) = Len(frames[t]) + 1 /\ Len(frames[t]) \in Nat
          BY <1>1, <1>3, <1>4, PushShape DEF Stacked
    <3>2. QED BY <1>2, <1>5, <3>1
  <2>3. ASSUME NEW i \in DOMAIN frames'[t]
        PROVE  /\ \E k \in 1..entered'[t] : frames'[t][i].id = <<t, k>>
               /\ i > 1 => frames'[t][i].phase = "body"
               /\ i # 1 => frames'[t][i].id # g.id
    <3>1. CASE i = 1
      <4>1. frames'[t][i] = g
            BY <1>1, <1>3, <1>4, <3>1, PushShape
      <4>2. e \in 1..entered'[t]
            BY <1>5
      <4>3. QED BY <1>3, <3>1, <4>1, <4>2
    <3>2. CASE i # 1
      <4>1. i - 1 \in DOMAIN frames[t] /\ frames'[t][i] = frames[t][i - 1]
            BY <1>1, <1>3, <1>4, <3>2, PushShape
      <4>2. PICK k \in 1..entered[t] : frames[t][i - 1].id = <<t, k>>
            BY <1>1, <4>1 DEF Stacked
      <4>3. k \in 1..entered'[t] /\ k # e
            BY <1>5
      <4>4. QED BY <1>3, <1>7, <3>2, <4>1, <4>2, <4>3
    <3>3. QED BY <3>1, <3>2
  <2>4. ASSUME NEW i \in DOMAIN frames'[t], NEW j \in DOMAIN frames'[t],
               frames'[t][i].id = frames'[t][j].id
        PROVE  i = j
    <3>1. frames'[t][1] = g
          BY <1>1, <1>3, <1>4, PushShape
    <3>2. CASE i = 1 \/ j = 1
          BY <2>3, <2>4, <3>1, <3>2
    <3>3. CASE i # 1 /\ j # 1
      <4>1. /\ i - 1 \in DOMAIN frames[t] /\ frames'[t][i] = frames[t][i - 1]
            /\ j - 1 \in DOMAIN frames[t] /\ frames'[t][j] = frames[t][j - 1]
            BY <1>1, <1>3, <1>4, <3>3, PushShape
      <4>2. i - 1 = j - 1
            BY <1>1, <2>4, <4>1 DEF Stacked
      <4>3. i \in Nat /\ j \in Nat
            BY <1>1, <1>3, <1>4, PushShape
      <4>4. QED BY <4>2, <4>3
    <3>4. QED BY <3>2, <3>3
  <2>5. ASSUME NEW u \in Thread
        PROVE  /\ Len(frames'[u]) <= entered'[u]
               /\ \A i \in DOMAIN frames'[u] :
                     /\ \E k \in 1..entered'[u] : frames'[u][i].id = <<u, k>>
                     /\ i > 1 => frames'[u][i].phase = "body"
                     /\ \A j \in DOMAIN frames'[u] : frames'[u][i].id = frames'[u][j].id => i = j
    <3>1. CASE u = t
          BY <2>2, <2>3, <2>4, <3>1, Zenon
    <3>2. CASE u # t
      <4>1. frames'[u] = frames[u] /\ entered'[u] = entered[u]
            BY <2>1, <3>2
      <4>2. /\ Len(frames[u]) <= entered[u]
            /\ \A i \in DOMAIN frames[u] :
                  /\ \E k \in 1..entered[u] : frames[u][i].id = <<u, k>>
                  /\ i > 1 => frames[u][i].phase = "body"
                  /\ \A j \in DOMAIN frames[u] : frames[u][i].id = frames[u][j].id => i = j
            BY <1>1, Zenon DEF Stacked
      <4>3. QED BY <4>1, <4>2
    <3>3. QED BY <3>1, <3>2
  <2>6. QED BY <2>5, Zenon DEF Stacked
<1>9. Locked'
  <2>1. Passed(t)' = Passed(t)
    <3>1. ~In(t, "wait")
          BY DEF In
    <3>2. Passed(t) = Len(frames[t]) /\ Len(frames[t]) \in Nat
          BY <1>1, <3>1, PassedIs
    <3>3. In(t, "wait")' /\ Len(frames'[t]) = Len(frames[t]) + 1
      <4>1. Top(t)' = g /\ frames'[t] # << >>
            BY <1>1, <1>3, <1>4, PushShape
      <4>2. In(t, "wait")'
            BY <1>3, <4>1 DEF In, Top
      <4>3. QED BY <1>1, <1>3, <1>4, <4>2, PushShape
    <3>4. Passed(t)' = Len(frames[t])
          BY <3>2, <3>3 DEF Passed
    <3>5. QED BY <3>2, <3>4
  <2>2. ASSUME NEW u \in Thread, u # t PROVE Passed(u)' = Passed(u)
    <3>1. frames'[u] = frames[u]
          BY <1>1, <1>3, <1>4, <2>2, PushShape
    <3>2. QED BY <3>1 DEF Passed, In
  <2>3. \A u \in Thread : Passed(u)' = Passed(u)
        BY <2>1, <2>2
  <2>4. QED BY <1>1, <1>4, <2>3 DEF Locked
<1>10. \A n : ~Reads(g, n)
       BY <1>3 DEF Reads
<1>11. Prepares'
  <2>1. Prepared(g)
        BY <1>3 DEF Prepared
  <2>2. ASSUME NEW u \in Thread, NEW i \in DOMAIN frames'[u] PROVE Prepared(frames'[u][i])
    <3>1. CASE u = t /\ i = 1
          BY <1>1, <1>3, <1>4, <2>1, <3>1, PushShape
    <3>2. CASE u = t /\ i # 1
      <4>1. i - 1 \in DOMAIN frames[t] /\ frames'[t][i] = frames[t][i - 1]
            BY <1>1, <1>3, <1>4, <3>2, PushShape
      <4>2. Prepared(frames[t][i - 1])
            BY <1>1, <4>1 DEF Prepares
      <4>3. QED BY <3>2, <4>1, <4>2
    <3>3. CASE u # t
      <4>1. frames'[u] = frames[u]
            BY <1>1, <1>3, <1>4, <3>3, PushShape
      <4>2. QED BY <1>1, <4>1 DEF Prepares
    <3>4. QED BY <3>1, <3>2, <3>3
  <2>3. QED BY <2>2 DEF Prepares, Prepared, Did
<1>12. Owned'
  <2>1. ASSUME NEW n \in Name \ cut, fn[n] \in Context
        PROVE  \E u \in Thread : Restores(u, 1, fn[n], n)'
    <3>1. PICK u \in Thread : Restores(u, 1, fn[n], n)
          BY <1>1, <2>1 DEF Owned
    <3>2. PICK k \in Nat : k = (IF u = t THEN 1 + 1 ELSE 1) /\ k >= 1
          OBVIOUS
    <3>3. \E j \in DOMAIN frames'[u] :
             j >= k /\ frames'[u][j].id = fn[n] /\ n \in Range(frames'[u][j].undo)
          BY <1>1, <1>3, <1>4, <3>1, <3>2, PushRestores
    <3>4. frames'[u] \in Seq(Frame)
          BY <1>6 DEF PType
    <3>5. \E j \in DOMAIN frames'[u] :
             j >= 1 /\ frames'[u][j].id = fn[n] /\ n \in Range(frames'[u][j].undo)
          BY <3>2, <3>3, <3>4
    <3>6. QED BY <1>4, <3>5 DEF Restores
  <2>2. ASSUME NEW n \in Name \ cut, NEW u \in Thread, NEW i \in DOMAIN frames'[u], NEW c \in Context,
               c = orig'[frames'[u][i].id][n]
        PROVE  \E j \in DOMAIN frames'[u] :
                  j >= i + 1 /\ frames'[u][j].id = c /\ n \in Range(frames'[u][j].undo)
    <3>1. CASE u = t /\ i = 1
      <4>1. frames'[u][i].id = <<t, e>>
            BY <1>1, <1>3, <1>4, <3>1, PushShape
      <4>2. orig[<<t, e>>][n] = Real
            BY <1>1, <1>5 DEF Unread
      <4>3. QED BY <1>4, <2>2, <4>1, <4>2, PatchingAssumption
    <3>2. CASE u = t /\ i # 1
      <4>1. PICK h \in DOMAIN frames[t] : h = i - 1 /\ h \in Nat /\ i = h + 1
        <5>1. i - 1 \in DOMAIN frames[t] /\ i - 1 \in Nat /\ i = (i - 1) + 1
              BY <1>1, <1>3, <1>4, <3>2, PushShape
        <5>2. QED BY <5>1
      <4>2. frames'[t][i] = frames[t][h]
            BY <1>1, <1>3, <1>4, <3>2, <4>1, PushShape
      <4>3. Restores(t, i, c, n)
            BY <1>1, <1>4, <2>2, <3>2, <4>1, <4>2 DEF Owned
      <4>4. PICK k \in Nat : k = i + 1 /\ i \in Nat
            BY <4>1
      <4>5. QED BY <1>1, <1>3, <1>4, <3>2, <4>3, <4>4, PushRestores
    <3>3. CASE u # t
      <4>1. frames'[u] = frames[u]
            BY <1>1, <1>3, <1>4, <3>3, PushShape
      <4>2. Restores(u, i + 1, c, n)
            BY <1>1, <1>4, <2>2, <4>1 DEF Owned
      <4>3. QED BY <4>1, <4>2 DEF Restores
    <3>4. QED BY <3>1, <3>2, <3>3
  <2>3. ASSUME NEW n \in Name \ cut, NEW u \in Thread, NEW i \in DOMAIN frames'[u],
               orig'[frames'[u][i].id][n] \in Context
        PROVE  \E j \in DOMAIN frames'[u] :
                  /\ j >= i + 1 /\ frames'[u][j].id = orig'[frames'[u][i].id][n]
                  /\ n \in Range(frames'[u][j].undo)
        BY <2>2, <2>3
  <2>4. QED BY <1>4, <2>1, <2>3 DEF Owned, Restores
<1>13. Unread'
  <2>1. ASSUME NEW u \in Thread, NEW k \in 1..MaxContexts, k > entered'[u] PROVE k > entered[u]
    <3>1. k \in Nat /\ e \in Nat /\ entered[t] \in Nat
          BY <1>5, PatchingAssumption
    <3>2. CASE u = t
          BY <1>5, <2>1, <3>1, <3>2
    <3>3. CASE u # t
          BY <1>5, <2>1, <3>3
    <3>4. QED BY <3>2, <3>3
  <2>2. QED BY <1>1, <1>4, <2>1 DEF Unread
<1>14. Unreplaced'
       BY <1>1, <1>4 DEF Unreplaced
<1>15. ASSUME NEW n \in replaced \ raced PROVE \E L \in SUBSET Context : Leads(n, L)'
  <2>1. PICK L \in SUBSET Context : Leads(n, L)
        BY <1>1, <1>15 DEF Replacements
  <2>2. ASSUME NEW u \in Thread, NEW i \in DOMAIN frames'[u], Reads(frames'[u][i], n)
        PROVE  frames'[u][i].id \in L
    <3>1. CASE u = t /\ i = 1
          BY <1>1, <1>3, <1>4, <1>10, <2>2, <3>1, PushShape
    <3>2. CASE u = t /\ i # 1
      <4>1. i - 1 \in DOMAIN frames[t] /\ frames'[t][i] = frames[t][i - 1]
            BY <1>1, <1>3, <1>4, <3>2, PushShape
      <4>2. QED BY <2>1, <2>2, <3>2, <4>1 DEF Leads
    <3>3. CASE u # t
      <4>1. frames'[u] = frames[u]
            BY <1>1, <1>3, <1>4, <3>3, PushShape
      <4>2. QED BY <2>1, <2>2, <4>1 DEF Leads
    <3>4. QED BY <3>1, <3>2, <3>3
  <2>3. Leads(n, L)'
        BY <1>4, <2>1, <2>2 DEF Leads, Reads, Did, Installs
  <2>4. QED BY <2>3
<1>16. Replacements'
       BY <1>4, <1>15 DEF Replacements
<1>17. QED BY <1>6, <1>8, <1>9, <1>11, <1>12, <1>13, <1>14, <1>16 DEF PInv

\* Thread t's innermost context is over, and ended with exc.
Pops(t, exc) == frames[t] # << >> /\ frames' = [frames EXCEPT ![t] = Pop(@, exc)]

\* What stays of a context when the one inside it is over.
Outlives(f, g) ==
    /\ g.id = f.id /\ g.by = f.by /\ g.kind = f.kind
    /\ g.pc = f.pc /\ g.undo = f.undo /\ g.ours = f.ours

\* What changes when a context is left.
LEMMA PopShape ==
    ASSUME PType, NEW t \in Thread, NEW exc, Pops(t, exc)
    PROVE  /\ frames' \in [Thread -> Seq(Frame)]
           /\ \A u \in Thread : u # t => frames'[u] = frames[u]
           /\ Len(frames[t]) \in Nat \ {0} /\ Len(frames'[t]) = Len(frames[t]) - 1
           /\ DOMAIN frames[t] = 1..Len(frames[t]) /\ DOMAIN frames'[t] = 1..(Len(frames[t]) - 1)
           /\ \A i \in DOMAIN frames'[t] :
                 /\ i \in Nat \ {0} /\ i + 1 \in DOMAIN frames[t]
                 /\ Outlives(frames[t][i + 1], frames'[t][i])
                 /\ i # 1 \/ exc # "base" => frames'[t][i] = frames[t][i + 1]
                 /\ i = 1 /\ exc = "base" =>
                       frames'[t][i].phase = "undo" /\ frames'[t][i].exc = "base"
<1>1. PICK s \in Seq(Frame) : s = frames[t]
      BY DEF PType
<1>2. s # << >>
      BY <1>1 DEF Pops
<1>3. /\ Tail(s) \in Seq(Frame) /\ Len(s) \in Nat \ {0} /\ Len(Tail(s)) = Len(s) - 1
      /\ DOMAIN s = 1..Len(s)
      /\ \A i \in 1..(Len(s) - 1) : Tail(s)[i] = s[i + 1]
      BY <1>2
<1>4. PICK q \in Seq(Frame) : q = Tail(s)
      BY <1>3, Zenon
<1>5. /\ Len(q) = Len(s) - 1 /\ DOMAIN q = 1..(Len(s) - 1)
      /\ \A i \in DOMAIN q : q[i] = s[i + 1] /\ i \in Nat \ {0} /\ i + 1 \in DOMAIN s
      BY <1>3, <1>4
<1>6. ASSUME NEW r, r = Pop(s, exc)
      PROVE  /\ r \in Seq(Frame) /\ Len(r) = Len(s) - 1 /\ DOMAIN r = 1..(Len(s) - 1)
             /\ \A i \in DOMAIN r :
                   /\ Outlives(q[i], r[i])
                   /\ i # 1 \/ exc # "base" => r[i] = q[i]
                   /\ i = 1 /\ exc = "base" => r[i].phase = "undo" /\ r[i].exc = "base"
  <2>1. CASE q # << >> /\ exc = "base"
    <3> DEFINE g == [Head(q) EXCEPT !.phase = "undo", !.exc = "base"]
    <3>1. Head(q) \in Frame /\ Head(q) = q[1] /\ Tail(q) \in Seq(Frame) /\ Len(q) \in Nat \ {0}
          BY <2>1
    <3>2. g \in Frame /\ Outlives(q[1], g) /\ g.phase = "undo" /\ g.exc = "base"
          BY <3>1 DEF Frame, Outlives
    <3>3. r = <<g>> \o Tail(q)
          BY <1>4, <1>6, <2>1 DEF Pop
    <3> HIDE DEF g
    <3>4. /\ r \in Seq(Frame) /\ Len(r) = Len(q) /\ r[1] = g
          /\ \A i \in 1..Len(q) : i # 1 => r[i] = q[i]
          BY <2>1, <3>1, <3>2, <3>3
    <3>5. DOMAIN r = 1..Len(q)
          BY <3>4
    <3>6. ASSUME NEW i \in DOMAIN r, i # 1 PROVE r[i] = q[i] /\ Outlives(q[i], r[i])
          BY <3>4, <3>5, <3>6 DEF Outlives
    <3>7. QED BY <1>5, <2>1, <3>2, <3>4, <3>5, <3>6
  <2>2. CASE ~(q # << >> /\ exc = "base")
    <3>1. r = q
          BY <1>4, <1>6, <2>2 DEF Pop
    <3>2. \A i \in DOMAIN r : ~(exc = "base")
          BY <1>5, <2>2, <3>1
    <3>3. QED BY <1>5, <3>1, <3>2 DEF Outlives
  <2>3. QED BY <2>1, <2>2
<1>7. PICK r : r = Pop(s, exc)
      OBVIOUS
<1>8. frames' = [frames EXCEPT ![t] = r]
      BY <1>1, <1>7 DEF Pops
<1>9. r \in Seq(Frame)
      BY <1>6, <1>7
<1>10. /\ frames' \in [Thread -> Seq(Frame)] /\ frames'[t] = r
       /\ \A u \in Thread : u # t => frames'[u] = frames[u]
       BY <1>8, <1>9 DEF PType
<1>11. /\ Len(r) = Len(s) - 1 /\ DOMAIN r = 1..(Len(s) - 1)
       /\ \A i \in DOMAIN r :
             /\ Outlives(q[i], r[i])
             /\ i # 1 \/ exc # "base" => r[i] = q[i]
             /\ i = 1 /\ exc = "base" => r[i].phase = "undo" /\ r[i].exc = "base"
       BY <1>6, <1>7
<1>12. \A i \in DOMAIN r : q[i] = s[i + 1] /\ i \in Nat \ {0} /\ i + 1 \in DOMAIN s
       BY <1>5, <1>11
<1>13. QED BY <1>1, <1>3, <1>10, <1>11, <1>12

\* A context that has nothing left to restore, or nothing yet, is left.
LEMMA PopKeeps ==
    ASSUME PInv, NEW t \in Thread, NEW exc, Pops(t, exc), Top(t).undo = << >>,
           UNCHANGED <<fn, orig, entered, replaced, raced, cut>>,
           lock' \in [by : Thread \cup {None}, count : 0..MaxContexts], Locked'
    PROVE  PInv'
<1>1. PType /\ Stacked /\ Locked /\ Prepares /\ Owned /\ Unread /\ Unreplaced /\ Replacements
      BY DEF PInv
<1>2. PType'
  <2>1. frames' \in [Thread -> Seq(Frame)]
        BY <1>1, PopShape
  <2>2. QED BY <1>1, <2>1 DEF PType
<1>3. ASSUME NEW i \in DOMAIN frames'[t]
      PROVE  /\ i \in Nat \ {0} /\ i + 1 \in DOMAIN frames[t]
             /\ frames'[t][i].id = frames[t][i + 1].id
             /\ frames'[t][i].undo = frames[t][i + 1].undo
             /\ frames'[t][i].phase \in {"body", "undo"} /\ ~frames'[t][i].ours
             /\ i > 1 => frames'[t][i].phase = "body"
  <2>1. /\ i \in Nat \ {0} /\ i + 1 \in DOMAIN frames[t]
        /\ Outlives(frames[t][i + 1], frames'[t][i])
        /\ i # 1 \/ exc # "base" => frames'[t][i] = frames[t][i + 1]
        /\ i = 1 /\ exc = "base" => frames'[t][i].phase = "undo"
        BY <1>1, PopShape
  <2>2. frames[t][i + 1].phase = "body"
    <3>1. i + 1 > 1
          BY <2>1
    <3>2. QED BY <1>1, <2>1, <3>1 DEF Stacked
  <2>3. ~frames[t][i + 1].ours
    <3>1. Prepared(frames[t][i + 1])
          BY <1>1, <2>1 DEF Prepares
    <3>2. QED BY <2>2, <3>1 DEF Prepared
  <2>4. i > 1 => i # 1
        BY <2>1
  <2>5. QED BY <2>1, <2>2, <2>3, <2>4 DEF Outlives
<1>4. \A u \in Thread : u # t => frames'[u] = frames[u]
      BY <1>1, PopShape
<1>5. Stacked'
  <2>1. Len(frames'[t]) <= entered[t]
    <3>1. /\ Len(frames[t]) \in Nat \ {0} /\ Len(frames'[t]) = Len(frames[t]) - 1
          /\ Len(frames[t]) <= entered[t] /\ entered[t] \in Nat
          BY <1>1, PopShape, PatchingAssumption DEF Stacked, PType
    <3>2. QED BY <3>1
  <2>2. ASSUME NEW i \in DOMAIN frames'[t]
        PROVE  \E k \in 1..entered[t] : frames'[t][i].id = <<t, k>>
        BY <1>1, <1>3 DEF Stacked
  <2>3. ASSUME NEW i \in DOMAIN frames'[t], NEW j \in DOMAIN frames'[t],
               frames'[t][i].id = frames'[t][j].id
        PROVE  i = j
    <3>1. i + 1 = j + 1
          BY <1>1, <1>3, <2>3 DEF Stacked
    <3>2. QED BY <1>3, <3>1
  <2>4. \A i \in DOMAIN frames'[t] : i > 1 => frames'[t][i].phase = "body"
        BY <1>3
  <2>5. ASSUME NEW u \in Thread
        PROVE  /\ Len(frames'[u]) <= entered[u]
               /\ \A i \in DOMAIN frames'[u] :
                     /\ \E k \in 1..entered[u] : frames'[u][i].id = <<u, k>>
                     /\ i > 1 => frames'[u][i].phase = "body"
                     /\ \A j \in DOMAIN frames'[u] : frames'[u][i].id = frames'[u][j].id => i = j
    <3>1. CASE u = t
          BY <2>1, <2>2, <2>3, <2>4, <3>1
    <3>2. CASE u # t
      <4>1. frames'[u] = frames[u]
            BY <1>4, <3>2
      <4>2. QED BY <1>1, <4>1 DEF Stacked
    <3>3. QED BY <3>1, <3>2
  <2>6. QED BY <2>5 DEF Stacked
<1>6. \A i \in DOMAIN frames'[t] : Prepared(frames'[t][i]) /\ \A n : ~Reads(frames'[t][i], n)
      BY <1>3 DEF Prepared, Reads
<1>7. Prepares'
  <2>1. ASSUME NEW u \in Thread, NEW i \in DOMAIN frames'[u] PROVE Prepared(frames'[u][i])
        BY <1>1, <1>4, <1>6 DEF Prepares
  <2>2. QED BY <2>1 DEF Prepares, Prepared, Did
<1>8. ASSUME NEW u \in Thread, NEW i \in Nat, NEW k \in Nat, NEW c, NEW n, Restores(u, i, c, n),
             u = t => i = k + 1, u # t => i = k
      PROVE  \E j \in DOMAIN frames'[u] :
                j >= k /\ frames'[u][j].id = c /\ n \in Range(frames'[u][j].undo)
  <2>1. PICK j \in DOMAIN frames[u] : /\ j >= i /\ frames[u][j].id = c
                                      /\ n \in Range(frames[u][j].undo)
        BY <1>8 DEF Restores
  <2>2. CASE u = t
    <3>1. j # 1
      <4>1. Top(t) = frames[t][1]
            BY <1>1, TopOf DEF Pops
      <4>2. Range(Top(t).undo) = {}
            BY DEF Range
      <4>3. QED BY <2>1, <2>2, <4>1, <4>2
    <3>2. /\ DOMAIN frames[t] = 1..Len(frames[t]) /\ DOMAIN frames'[t] = 1..(Len(frames[t]) - 1)
          /\ Len(frames[t]) \in Nat \ {0}
          BY <1>1, PopShape
    <3>3. PICK h \in Nat : h \in DOMAIN frames'[t] /\ j = h + 1 /\ h >= k
      <4>1. j - 1 \in Nat /\ j - 1 \in DOMAIN frames'[t] /\ j = (j - 1) + 1 /\ j - 1 >= k
            BY <1>8, <2>1, <2>2, <3>1, <3>2
      <4>2. QED BY <4>1
    <3>4. QED BY <1>3, <2>1, <2>2, <3>3
  <2>3. CASE u # t
        BY <1>4, <1>8, <2>1, <2>3
  <2>4. QED BY <2>2, <2>3
<1>9. Owned'
  <2>1. ASSUME NEW n \in Name \ cut, fn[n] \in Context
        PROVE  \E u \in Thread : Restores(u, 1, fn[n], n)'
    <3>1. PICK u \in Thread : Restores(u, 1, fn[n], n)
          BY <1>1, <2>1 DEF Owned
    <3>2. PICK k \in Nat : (u = t => 1 = k + 1) /\ (u # t => 1 = k)
          OBVIOUS
    <3>3. \E j \in DOMAIN frames'[u] :
             j >= k /\ frames'[u][j].id = fn[n] /\ n \in Range(frames'[u][j].undo)
          BY <1>8, <3>1, <3>2
    <3>4. \A j \in DOMAIN frames'[u] : j >= 1
          BY <1>2 DEF PType
    <3>5. QED BY <3>3, <3>4 DEF Restores
  <2>2. ASSUME NEW n \in Name \ cut, NEW u \in Thread, NEW i \in DOMAIN frames'[u], NEW c \in Context,
               c = orig[frames'[u][i].id][n]
        PROVE  \E j \in DOMAIN frames'[u] :
                  j >= i + 1 /\ frames'[u][j].id = c /\ n \in Range(frames'[u][j].undo)
    <3>1. CASE u = t
      <4>1. i + 1 \in Nat /\ (i + 1) + 1 \in Nat
            BY <1>3, <3>1
      <4>2. Restores(t, (i + 1) + 1, c, n)
            BY <1>1, <1>3, <2>2, <3>1 DEF Owned
      <4>3. QED BY <1>8, <3>1, <4>1, <4>2
    <3>2. CASE u # t
      <4>1. frames'[u] = frames[u]
            BY <1>4, <3>2
      <4>2. Restores(u, i + 1, c, n)
            BY <1>1, <2>2, <4>1 DEF Owned
      <4>3. QED BY <4>1, <4>2 DEF Restores
    <3>3. QED BY <3>1, <3>2
  <2>3. ASSUME NEW n \in Name \ cut, NEW u \in Thread, NEW i \in DOMAIN frames'[u],
               orig[frames'[u][i].id][n] \in Context
        PROVE  \E j \in DOMAIN frames'[u] :
                  /\ j >= i + 1 /\ frames'[u][j].id = orig[frames'[u][i].id][n]
                  /\ n \in Range(frames'[u][j].undo)
        BY <2>2, <2>3
  <2>4. QED BY <2>1, <2>3 DEF Owned, Restores
<1>10. Unread' /\ Unreplaced'
       BY <1>1 DEF Unread, Unreplaced
<1>11. ASSUME NEW n \in replaced \ raced PROVE \E L \in SUBSET Context : Leads(n, L)'
  <2>1. PICK L \in SUBSET Context : Leads(n, L)
        BY <1>1, <1>11 DEF Replacements
  <2>2. ASSUME NEW u \in Thread, NEW i \in DOMAIN frames'[u], Reads(frames'[u][i], n)
        PROVE  frames'[u][i].id \in L
        BY <1>4, <1>6, <2>1, <2>2 DEF Leads
  <2>3. Leads(n, L)'
        BY <2>1, <2>2 DEF Leads, Reads, Did, Installs
  <2>4. QED BY <2>3
<1>12. Replacements'
       BY <1>11 DEF Replacements
<1>13. QED BY <1>2, <1>5, <1>7, <1>9, <1>10, <1>12 DEF PInv

\* When a context is left, all that remain have passed the lock.
LEMMA PopPassed ==
    ASSUME PInv, NEW t \in Thread, NEW exc, Pops(t, exc)
    PROVE  /\ Passed(t)' = Len(frames[t]) - 1 /\ Len(frames[t]) \in Nat \ {0}
           /\ \A u \in Thread : u # t => Passed(u)' = Passed(u)
<1>1. PType /\ Stacked
      BY DEF PInv
<1>2. /\ Len(frames[t]) \in Nat \ {0} /\ Len(frames'[t]) = Len(frames[t]) - 1
      /\ frames'[t] \in Seq(Frame) /\ DOMAIN frames'[t] = 1..(Len(frames[t]) - 1)
      BY <1>1, PopShape
<1>3. ~In(t, "wait")'
  <2>1. ASSUME frames'[t] # << >> PROVE Head(frames'[t]).phase # "wait"
    <3>1. 1 \in DOMAIN frames'[t] /\ Head(frames'[t]) = frames'[t][1]
          BY <1>2, <2>1
    <3>2. /\ 1 + 1 \in DOMAIN frames[t]
          /\ exc # "base" => frames'[t][1] = frames[t][1 + 1]
          /\ exc = "base" => frames'[t][1].phase = "undo"
          BY <1>1, <3>1, PopShape
    <3>3. frames[t][1 + 1].phase = "body"
          BY <1>1, <3>2 DEF Stacked
    <3>4. QED BY <3>1, <3>2, <3>3
  <2>2. QED BY <2>1 DEF In
<1>4. Passed(t)' = Len(frames[t]) - 1
      BY <1>2, <1>3 DEF Passed
<1>5. ASSUME NEW u \in Thread, u # t PROVE Passed(u)' = Passed(u)
  <2>1. frames'[u] = frames[u]
        BY <1>1, <1>5, PopShape
  <2>2. QED BY <2>1 DEF Passed, In
<1>6. QED BY <1>2, <1>4, <1>5

\* A context releases the lock.
LEMMA ReleaseKeeps == ASSUME PInv, NEW t \in Thread, Release(t) PROVE PInv'
<1>1. /\ PType /\ Stacked /\ Locked /\ frames[t] # << >> /\ Top(t).phase = "undo"
      /\ Top(t).undo = << >> /\ ~In(t, "wait")
      BY DEF PInv, Release, In, Top
<1>2. /\ Pops(t, Top(t).exc) /\ UNCHANGED <<fn, orig, entered, replaced, raced, cut>>
      /\ lock' = Unlock
      BY <1>1 DEF Release, Pops
<1>3. /\ Passed(t) = Len(frames[t]) /\ Len(frames[t]) \in Nat \ {0}
      /\ Passed(t)' = Len(frames[t]) - 1
      BY <1>1, <1>2, PassedIs, PopPassed
<1>4. lock.by = t /\ lock.count = Len(frames[t])
  <2>1. Passed(t) > 0
        BY <1>3
  <2>2. QED BY <1>1, <1>3, <2>1 DEF Locked
<1>5. /\ lock'.count = Len(frames[t]) - 1
      /\ lock'.by = IF Len(frames[t]) = 1 THEN None ELSE t
      BY <1>2, <1>4 DEF Unlock
<1>6. lock' \in [by : Thread \cup {None}, count : 0..MaxContexts]
  <2>1. Len(frames[t]) <= entered[t] /\ entered[t] \in 0..MaxContexts
        BY <1>1 DEF Stacked, PType
  <2>2. Len(frames[t]) - 1 \in 0..MaxContexts
        BY <1>3, <2>1, PatchingAssumption
  <2>3. QED BY <1>2, <1>4, <2>2 DEF Unlock
<1>7. Locked'
  <2>1. \A u \in Thread : u # t => frames'[u] = frames[u]
        BY <1>1, <1>2, PopShape
  <2>2. lock'.by \in {None, t} /\ None # t
        BY <1>5, PatchingAssumption
  <2>3. lock'.by = None => lock'.count = 0
        BY <1>3, <1>5, <2>2
  <2>4. lock'.by = t <=> Passed(t)' > 0
    <3>1. PICK n \in Nat, p \in Nat : n = Len(frames[t]) /\ n # 0 /\ p = n - 1
          BY <1>3
    <3>2. lock'.by = t <=> n # 1
          BY <1>5, <2>2, <3>1
    <3>3. p = n - 1 /\ n # 0
          BY <3>1
    <3>4. n # 1 <=> p > 0
          BY <3>3
    <3>5. Passed(t)' = p
          BY <1>3, <3>1
    <3>6. QED BY <3>2, <3>4, <3>5, Zenon
  <2>5. lock'.by = t => lock'.count = Passed(t)'
        BY <1>3, <1>5
  <2>6. QED BY <1>1, <1>4, <1>6, <2>1, <2>2, <2>3, <2>4, <2>5, OthersLocked
<1>8. QED BY <1>1, <1>2, <1>6, <1>7, PopKeeps

\* An interrupt hits a thread that waits for the lock.
LEMMA InterruptWaitKeeps == ASSUME PInv, NEW t \in Thread, InterruptWait(t) PROVE PInv'
<1>1. /\ PType /\ Locked /\ Prepares /\ frames[t] # << >> /\ Top(t).phase = "wait"
      /\ In(t, "wait")
      BY DEF PInv, InterruptWait, In, Top
<1>2. Pops(t, "base") /\ UNCHANGED <<fn, orig, entered, lock, replaced, raced, cut>>
      BY <1>1 DEF InterruptWait, Pops
<1>3. Top(t).undo = << >>
  <2>1. Prepared(Top(t))
        BY <1>1, TopOf DEF Prepares
  <2>2. QED BY <1>1, <2>1 DEF Prepared
<1>4. \A u \in Thread : Passed(u)' = Passed(u)
      BY <1>1, <1>2, PassedIs, PopPassed
<1>5. Locked'
      BY <1>1, <1>2, <1>4 DEF Locked
<1>6. lock' \in [by : Thread \cup {None}, count : 0..MaxContexts]
      BY <1>1, <1>2 DEF PType
<1>7. QED BY <1>2, <1>3, <1>5, <1>6, PopKeeps

-----------------------------------------------------------------------------
(* How the wrappers of a thread lie on each other.                         *)

\* The innermost context, or none, seen from the top of a stack.
LEMMA TopNests ==
    ASSUME NEW s \in Seq(Frame), s # << >>, NEW n, NEW w, NEW o
    PROVE  Nests(s, n, w, o) <=>
              /\ Holds(s[1], n) => w = s[1].id
              /\ ~Holds(s[1], n) => Innermost(s, 1, n, w)
              /\ \A k \in DOMAIN s :
                    Holds(s[k], n) \/ Reads(s[k], n) => Innermost(s, k, n, o[s[k].id][n])
<1>1. Len(s) \in Nat \ {0} /\ DOMAIN s = 1..Len(s)
      OBVIOUS
<1>2. 1 \in DOMAIN s /\ \A i \in DOMAIN s : i \in Int /\ i > 0 /\ (i > 1 <=> i # 1)
      BY <1>1
<1>3. CASE Holds(s[1], n)
  <2>1. ASSUME w = s[1].id, NEW i \in DOMAIN s, i > 0,
               \A j \in DOMAIN s : j > 0 /\ j < i => ~Holds(s[j], n)
        PROVE  w = s[i].id
    <3>1. i = 1 \/ (1 > 0 /\ 1 < i)
          BY <1>2
    <3>2. QED BY <1>2, <1>3, <2>1, <3>1
  <2>2. Innermost(s, 0, n, w) => w = s[1].id
    <3>1. \A j \in DOMAIN s : ~(j > 0 /\ j < 1)
          BY <1>2
    <3>2. QED BY <1>2, <1>3, <3>1 DEF Innermost
  <2>3. Innermost(s, 0, n, w) <=> w = s[1].id
        BY <2>1, <2>2 DEF Innermost
  <2>4. QED BY <1>3, <2>3 DEF Nests
<1>4. CASE ~Holds(s[1], n)
  <2>1. ASSUME NEW i \in DOMAIN s, Holds(s[i], n)
        PROVE  /\ i > 0 /\ i > 1
               /\ (\A j \in DOMAIN s : j > 0 /\ j < i => ~Holds(s[j], n)) <=>
                     \A j \in DOMAIN s : j > 1 /\ j < i => ~Holds(s[j], n)
    <3>1. i # 1
          BY <1>4, <2>1
    <3>2. QED BY <1>2, <1>4, <3>1
  <2>2. Innermost(s, 0, n, w) <=> Innermost(s, 1, n, w)
        BY <2>1 DEF Innermost
  <2>3. QED BY <1>4, <2>2 DEF Nests
<1>5. QED BY <1>3, <1>4

\* What is further out than place k is all that counts there.
LEMMA SameOutside ==
    ASSUME NEW s \in Seq(Frame), NEW r \in Seq(Frame), NEW k \in Nat \ {0}, NEW n, NEW g,
           DOMAIN r = DOMAIN s, \A i \in DOMAIN s : i # 1 => r[i] = s[i],
           Innermost(s, k, n, g)
    PROVE  Innermost(r, k, n, g)
<1>1. \A i \in DOMAIN s : i > k => i # 1
      OBVIOUS
<1>2. \A i \in DOMAIN s : i > k => r[i] = s[i]
      BY <1>1
<1>3. ASSUME NEW i \in DOMAIN r, i > k, Holds(r[i], n),
             \A j \in DOMAIN r : j > k /\ j < i => ~Holds(r[j], n)
      PROVE  g = r[i].id
  <2>1. Holds(s[i], n) /\ \A j \in DOMAIN s : j > k /\ j < i => ~Holds(s[j], n)
        BY <1>2, <1>3
  <2>2. QED BY <1>2, <1>3, <2>1 DEF Innermost
<1>4. QED BY <1>3 DEF Innermost

\* A stack whose innermost context has changed, and perhaps what is installed.
LEMMA RetopNests ==
    ASSUME PType, NEW t \in Thread, NEW g \in Frame, Retop(t, g), NEW n, NEW w, NEW o,
           Nests(frames[t], n, fn[n], orig),
           \A i \in DOMAIN frames[t] : i # 1 => o[frames[t][i].id][n] = orig[frames[t][i].id][n],
           Holds(g, n) => w = g.id,
           ~Holds(g, n) => Innermost(frames[t], 1, n, w),
           Holds(g, n) \/ Reads(g, n) => Innermost(frames[t], 1, n, o[g.id][n])
    PROVE  Nests(frames'[t], n, w, o)
<1>1. PICK s \in Seq(Frame), r \in Seq(Frame) :
         /\ s = frames[t] /\ r = frames'[t] /\ s # << >> /\ r # << >>
         /\ DOMAIN r = DOMAIN s /\ r[1] = g /\ 1 \in DOMAIN s
         /\ \A i \in DOMAIN s : i # 1 => r[i] = s[i]
  <2>1. frames[t] \in Seq(Frame) /\ frames'[t] \in Seq(Frame) /\ frames[t] # << >>
        BY RetopShape DEF PType, Retop
  <2>2. /\ DOMAIN frames'[t] = DOMAIN frames[t] /\ frames'[t][1] = g /\ 1 \in DOMAIN frames[t]
        /\ frames'[t] # << >>
        /\ \A i \in DOMAIN frames[t] : i # 1 => frames'[t][i] = frames[t][i]
        BY RetopShape
  <2>3. QED BY <2>1, <2>2, Zenon
<1>2. \A i \in DOMAIN s : i \in Nat \ {0}
      BY <1>1
<1>3. ASSUME NEW k \in DOMAIN s, Holds(r[k], n) \/ Reads(r[k], n)
      PROVE  Innermost(r, k, n, o[r[k].id][n])
  <2>1. CASE k = 1
    <3>1. Innermost(s, 1, n, o[g.id][n])
          BY <1>1, <1>3, <2>1
    <3>2. Innermost(r, 1, n, o[g.id][n])
          BY <1>1, <3>1, SameOutside
    <3>3. QED BY <1>1, <2>1, <3>2
  <2>2. CASE k # 1
    <3>1. r[k] = s[k]
          BY <1>1, <2>2
    <3>2. Innermost(s, k, n, orig[s[k].id][n])
          BY <1>1, <1>3, <3>1 DEF Nests
    <3>3. o[r[k].id][n] = orig[s[k].id][n]
          BY <1>1, <2>2, <3>1
    <3>4. Innermost(r, k, n, orig[s[k].id][n])
          BY <1>1, <1>2, <3>2, SameOutside
    <3>5. QED BY <3>3, <3>4
  <2>3. QED BY <2>1, <2>2
<1>4. ~Holds(g, n) => Innermost(r, 1, n, w)
      BY <1>1, SameOutside
<1>5. Nests(r, n, w, o)
      BY <1>1, <1>3, <1>4, TopNests
<1>6. QED BY <1>1, <1>5

\* A context that holds nothing is put on a stack.
LEMMA PushNests ==
    ASSUME NEW s \in Seq(Frame), NEW r \in Seq(Frame), NEW n, NEW w, NEW o,
           DOMAIN r = 1..(Len(s) + 1), \A i \in 1..Len(s) : r[i + 1] = s[i],
           ~Holds(r[1], n), ~Reads(r[1], n), Nests(s, n, w, o)
    PROVE  Nests(r, n, w, o)
<1>1. Len(s) \in Nat /\ DOMAIN s = 1..Len(s)
      OBVIOUS
<1>2. \A i \in DOMAIN r : i # 1 => i - 1 \in DOMAIN s /\ r[i] = s[i - 1]
  <2>1. \A i \in DOMAIN r : i # 1 => i - 1 \in 1..Len(s) /\ (i - 1) + 1 = i
        BY <1>1
  <2>2. QED BY <1>1, <2>1
<1>3. ASSUME NEW k \in Nat, NEW l \in Nat, l = k + 1, NEW g, Innermost(s, k, n, g)
      PROVE  Innermost(r, l, n, g)
  <2>1. SUFFICES ASSUME NEW i \in DOMAIN r, i > l, Holds(r[i], n),
                        \A j \in DOMAIN r : j > l /\ j < i => ~Holds(r[j], n)
                 PROVE  g = r[i].id
        BY DEF Innermost
  <2>2. PICK h \in DOMAIN s : h = i - 1 /\ r[i] = s[h] /\ h > k
    <3>1. i # 1 /\ i - 1 > k /\ i \in Nat
          BY <1>1, <1>3, <2>1
    <3>2. QED BY <1>2, <3>1
  <2>3. ASSUME NEW j \in DOMAIN s, j > k, j < h PROVE ~Holds(s[j], n)
    <3>1. j + 1 \in DOMAIN r /\ j + 1 > l /\ j + 1 < i /\ r[j + 1] = s[j]
      <4>1. j \in 1..Len(s) /\ h \in 1..Len(s) /\ i \in Int
            BY <1>1, <2>2
      <4>2. j + 1 \in 1..(Len(s) + 1) /\ j + 1 > l /\ j + 1 < i
            BY <1>1, <1>3, <2>2, <2>3, <4>1
      <4>3. QED BY <4>1, <4>2
    <3>2. ~Holds(r[j + 1], n)
          BY <2>1, <3>1
    <3>3. QED BY <3>1, <3>2
  <2>4. QED BY <1>3, <2>1, <2>2, <2>3 DEF Innermost
<1>4. Innermost(r, 1, n, w)
  <2>1. Innermost(s, 0, n, w)
        BY DEF Nests
  <2>2. QED BY <1>3, <2>1
<1>5. ASSUME NEW k \in DOMAIN r, Holds(r[k], n) \/ Reads(r[k], n)
      PROVE  Innermost(r, k, n, o[r[k].id][n])
  <2>1. k # 1
        BY <1>5
  <2>2. PICK l \in DOMAIN s : l = k - 1 /\ r[k] = s[l]
        BY <1>2, <2>1
  <2>3. l \in Nat /\ l + 1 = k
        BY <1>1, <2>2
  <2>4. Innermost(s, l, n, o[s[l].id][n])
        BY <1>5, <2>2 DEF Nests
  <2>5. QED BY <1>3, <2>2, <2>3, <2>4
<1>6. r # << >>
  <2>1. 1 \in DOMAIN r
        BY <1>1
  <2>2. QED BY <2>1
<1>7. QED BY <1>4, <1>5, <1>6, TopNests

\* A context that holds nothing is taken off a stack.
LEMMA PopNests ==
    ASSUME NEW s \in Seq(Frame), NEW r \in Seq(Frame), NEW n, NEW w, NEW o,
           s # << >>, DOMAIN r = 1..(Len(s) - 1), \A i \in DOMAIN r : r[i] = s[i + 1],
           ~Holds(s[1], n), Nests(s, n, w, o)
    PROVE  Nests(r, n, w, o)
<1>1. Len(s) \in Nat \ {0} /\ DOMAIN s = 1..Len(s)
      OBVIOUS
<1>2. \A i \in DOMAIN r : i \in Nat \ {0} /\ i + 1 \in DOMAIN s
      BY <1>1
<1>3. ASSUME NEW k \in Nat, NEW l \in Nat, l = k + 1, NEW g, Innermost(s, l, n, g)
      PROVE  Innermost(r, k, n, g)
  <2>1. SUFFICES ASSUME NEW i \in DOMAIN r, i > k, Holds(r[i], n),
                        \A j \in DOMAIN r : j > k /\ j < i => ~Holds(r[j], n)
                 PROVE  g = r[i].id
        BY DEF Innermost
  <2>2. i + 1 \in DOMAIN s /\ r[i] = s[i + 1] /\ i + 1 > l
        BY <1>2, <1>3, <2>1
  <2>3. ASSUME NEW j \in DOMAIN s, j > l, j < i + 1 PROVE ~Holds(s[j], n)
    <3>1. PICK m \in DOMAIN r : m = j - 1 /\ j = m + 1 /\ m > k /\ m < i
      <4>1. j - 1 \in 1..(Len(s) - 1) /\ j = (j - 1) + 1 /\ j - 1 > k /\ j - 1 < i
            BY <1>1, <1>2, <1>3, <2>1, <2>3
      <4>2. QED BY <4>1
    <3>2. ~Holds(r[m], n)
          BY <2>1, <3>1
    <3>3. QED BY <3>1, <3>2
  <2>4. QED BY <1>3, <2>1, <2>2, <2>3 DEF Innermost
<1>4. Innermost(r, 0, n, w)
  <2>1. Innermost(s, 1, n, w)
        BY TopNests
  <2>2. QED BY <1>3, <2>1
<1>5. ASSUME NEW k \in DOMAIN r, Holds(r[k], n) \/ Reads(r[k], n)
      PROVE  Innermost(r, k, n, o[r[k].id][n])
  <2>1. PICK l \in DOMAIN s : l = k + 1 /\ r[k] = s[l] /\ l \in Nat
        BY <1>2
  <2>2. Innermost(s, l, n, o[s[l].id][n])
        BY <1>5, <2>1 DEF Nests
  <2>3. QED BY <1>2, <1>3, <2>1, <2>2
<1>6. QED BY <1>4, <1>5 DEF Nests

\* While a thread patches, no other one holds a wrapper in place.
LEMMA OthersNest ==
    ASSUME PInv, Nested, NEW t \in Thread, \A u \in Thread : u # t => frames'[u] = frames[u],
           replaced \subseteq replaced', UNCHANGED <<fn, orig>> \/ lock.by = t,
           \A n \in Name \ replaced' : ~Aborting(t)' => Nests(frames'[t], n, fn'[n], orig')
    PROVE  Nested'
<1>1. PType /\ Stacked /\ Locked /\ Prepares
      BY DEF PInv
<1>2. ASSUME NEW u \in Thread, u # t, NEW n \in Name \ replaced', ~Aborting(u)'
      PROVE  Nests(frames'[u], n, fn'[n], orig')
  <2>1. frames'[u] = frames[u]
        BY <1>2
  <2>2. CASE UNCHANGED <<fn, orig>>
    <3>1. ~Aborting(u)
          BY <1>2, <2>1 DEF Aborting, In, Top
    <3>2. Nests(frames[u], n, fn[n], orig)
          BY <1>2, <3>1 DEF Nested
    <3>3. QED BY <2>1, <2>2, <3>2
  <2>3. CASE lock.by = t
    <3>1. ASSUME NEW j \in DOMAIN frames[u]
          PROVE  ~Holds(frames[u][j], n) /\ ~Reads(frames[u][j], n)
      <4>1. /\ frames[u][j].phase \notin {"setup", "undo"}
            /\ Range(frames[u][j].undo) = {}
            BY <1>1, <1>2, <2>3, HoldsTheLock
      <4>2. ~frames[u][j].ours
            BY <1>1, <4>1 DEF Prepares, Prepared
      <4>3. QED BY <4>1, <4>2 DEF Holds, Reads
    <3>2. QED BY <2>1, <3>1 DEF Nests, Innermost
  <2>4. QED BY <2>2, <2>3
<1>3. QED BY <1>2 DEF Nested

\* A step that only changes the innermost context, and perhaps what is
\* installed under the lock.
LEMMA RetopNested ==
    ASSUME PInv, NInv, NEW t \in Thread, NEW g \in Frame, Retop(t, g), IsInjective(g.undo),
           UNCHANGED replaced, UNCHANGED <<fn, orig>> \/ lock.by = t,
           ASSUME NEW n \in Name \ replaced, ~(g.phase = "undo" /\ g.exc = "base")
           PROVE  Nests(frames'[t], n, fn'[n], orig')
    PROVE  NInv'
<1>1. PType
      BY DEF PInv
<1>2. RestoredOnce'
  <2>1. ASSUME NEW u \in Thread, NEW i \in DOMAIN frames'[u] PROVE IsInjective(frames'[u][i].undo)
    <3>1. CASE u = t /\ i = 1
          BY <1>1, <3>1, RetopShape
    <3>2. CASE u # t \/ i # 1
      <4>1. i \in DOMAIN frames[u] /\ frames'[u][i] = frames[u][i]
            BY <1>1, <3>2, RetopShape
      <4>2. QED BY <4>1 DEF NInv, RestoredOnce
    <3>3. QED BY <3>1, <3>2
  <2>2. QED BY <2>1 DEF RestoredOnce, IsInjective
<1>3. \A u \in Thread : u # t => frames'[u] = frames[u]
      BY <1>1, RetopShape
<1>4. Aborting(t)' <=> g.phase = "undo" /\ g.exc = "base"
  <2>1. frames'[t] # << >> /\ Top(t)' = g
        BY <1>1, RetopShape
  <2>2. QED BY <2>1 DEF Aborting, In, Top
<1>5. Nested'
      BY <1>3, <1>4, OthersNest DEF NInv
<1>6. QED BY <1>2, <1>5 DEF NInv

\* Nothing is installed, and the innermost context holds what it held.
LEMMA QuietNested ==
    ASSUME PInv, NInv, NEW t \in Thread, NEW g \in Frame, Retop(t, g), IsInjective(g.undo),
           UNCHANGED <<fn, orig, replaced>>,
           ASSUME NEW n \in Name \ replaced, ~(g.phase = "undo" /\ g.exc = "base")
           PROVE  /\ ~Aborting(t)
                  /\ Holds(g, n) <=> Holds(Top(t), n)
                  /\ Reads(g, n) => Holds(Top(t), n) \/ Reads(Top(t), n)
    PROVE  NInv'
<1>1. PType /\ frames[t] # << >> /\ g.id = Top(t).id
      BY DEF PInv, Retop
<1>2. Top(t) = frames[t][1] /\ 1 \in DOMAIN frames[t] /\ frames[t] \in Seq(Frame)
      BY <1>1, TopOf DEF PType
<1>3. ASSUME NEW n \in Name \ replaced, ~(g.phase = "undo" /\ g.exc = "base")
      PROVE  Nests(frames'[t], n, fn'[n], orig')
  <2>1. /\ ~Aborting(t) /\ (Holds(g, n) <=> Holds(Top(t), n))
        /\ Reads(g, n) => Holds(Top(t), n) \/ Reads(Top(t), n)
        BY <1>3
  <2>2. Nests(frames[t], n, fn[n], orig)
        BY <2>1 DEF NInv, Nested
  <2>3. /\ Holds(g, n) => fn[n] = g.id
        /\ ~Holds(g, n) => Innermost(frames[t], 1, n, fn[n])
        /\ Holds(g, n) \/ Reads(g, n) => Innermost(frames[t], 1, n, orig[g.id][n])
        BY <1>1, <1>2, <2>1, <2>2, TopNests
  <2>4. Nests(frames'[t], n, fn[n], orig)
        BY <1>1, <2>2, <2>3, RetopNests
  <2>5. QED BY <2>4
<1>4. QED BY <1>3, RetopNested

\* The undo list of a thread's innermost context.
LEMMA TopRestoresOnce ==
    ASSUME PType, NInv, NEW t \in Thread, frames[t] # << >>
    PROVE  IsInjective(Top(t).undo)
<1>1. Top(t) = frames[t][1] /\ 1 \in DOMAIN frames[t]
      BY TopOf
<1>2. QED BY <1>1 DEF NInv, RestoredOnce

\* One restore less.
LEMMA TailOnce ==
    ASSUME NEW s \in Seq(Name), s # << >>, IsInjective(s)
    PROVE  IsInjective(Tail(s)) /\ Range(Tail(s)) = Range(s) \ {Head(s)}
<1>1. PICK r \in Seq(Name) : r = Tail(s)
  <2>1. Tail(s) \in Seq(Name)
        OBVIOUS
  <2>2. QED BY <2>1, Zenon
<1>2. /\ Len(s) \in Nat \ {0} /\ DOMAIN s = 1..Len(s) /\ Head(s) = s[1]
      /\ DOMAIN r = 1..(Len(s) - 1)
      /\ \A i \in 1..(Len(s) - 1) : r[i] = s[i + 1]
      BY <1>1
<1>3. \A i \in DOMAIN r : i \in Int /\ i + 1 \in DOMAIN s /\ i + 1 # 1 /\ r[i] = s[i + 1]
      BY <1>2
<1>4. ASSUME NEW i \in DOMAIN r, NEW j \in DOMAIN r, r[i] = r[j] PROVE i = j
  <2>1. i + 1 = j + 1
        BY <1>3, <1>4 DEF IsInjective
  <2>2. QED BY <1>3, <2>1
<1>5. 1 \in DOMAIN s
      BY <1>2
<1>6. ASSUME NEW n \in Range(r) PROVE n \in Range(s) /\ n # Head(s)
  <2>1. PICK i \in DOMAIN r : n = r[i]
        BY DEF Range
  <2>2. n = s[i + 1] /\ i + 1 \in DOMAIN s /\ i + 1 # 1
        BY <1>3, <2>1
  <2>3. QED BY <1>2, <1>5, <2>2 DEF Range, IsInjective
<1>7. ASSUME NEW n \in Range(s), n # Head(s) PROVE n \in Range(r)
      BY <1>1, <1>7, UndoParts
<1>8. IsInjective(r) /\ Range(r) = Range(s) \ {Head(s)}
      BY <1>4, <1>6, <1>7 DEF IsInjective
<1>9. QED BY <1>1, <1>8

\* The body ends.
LEMMA LeaveNested ==
    ASSUME PInv, NInv, NEW t \in Thread, NEW exc \in Outcome, Leave(t, exc) PROVE NInv'
<1> DEFINE f == Top(t)
           g == [f EXCEPT !.phase = "undo", !.exc = exc]
<1>1. PType /\ Prepares /\ frames[t] # << >> /\ f.phase = "body"
      BY DEF PInv, Leave, In, Top
<1>2. f \in Frame /\ Prepared(f)
      BY <1>1, TopOf DEF Prepares
<1>3. /\ g \in Frame /\ g.id = f.id /\ g.by = f.by /\ g.undo = f.undo /\ g.ours = f.ours
      /\ g.phase = "undo"
      BY <1>2 DEF Frame, Outcome
<1>4. SetTop(t, g) /\ UNCHANGED <<fn, orig, entered, replaced>>
      BY DEF Leave
<1>5. ~f.ours
      BY <1>1, <1>2 DEF Prepared
<1>6. ~Aborting(t)
      BY <1>1 DEF Aborting, In, Top
<1>7. IsInjective(f.undo)
      BY <1>1, TopRestoresOnce
<1> HIDE DEF g, f
<1>8. Retop(t, g)
      BY <1>1, <1>3, <1>4 DEF Retop, f
<1>9. \A n : (Holds(g, n) <=> Holds(f, n)) /\ ~Reads(g, n)
      BY <1>1, <1>3, <1>5 DEF Holds, Reads
<1>10. QED BY <1>3, <1>4, <1>6, <1>7, <1>8, <1>9, QuietNested DEF f

\* An interrupt ends the set-up or the body: from here on restores may be
\* skipped.
LEMMA InterruptEnteredNested ==
    ASSUME PInv, NInv, NEW t \in Thread, InterruptEntered(t) PROVE NInv'
<1> DEFINE f == Top(t)
           g == [f EXCEPT !.phase = "undo", !.exc = "base"]
<1>1. PType /\ frames[t] # << >>
      BY DEF PInv, InterruptEntered, In
<1>2. f \in Frame
      BY <1>1, TopOf
<1>3. /\ g \in Frame /\ g.id = f.id /\ g.by = f.by /\ g.undo = f.undo
      /\ g.phase = "undo" /\ g.exc = "base"
      BY <1>2 DEF Frame
<1>4. SetTop(t, g) /\ UNCHANGED <<fn, orig, entered, replaced>>
      BY DEF InterruptEntered
<1>5. IsInjective(f.undo)
      BY <1>1, TopRestoresOnce
<1> HIDE DEF g
<1>6. Retop(t, g)
      BY <1>1, <1>3, <1>4 DEF Retop
<1>7. QED BY <1>3, <1>4, <1>5, <1>6, RetopNested

\* An interrupt in a restore.
LEMMA InterruptRestoreNested ==
    ASSUME PInv, NInv, NEW t \in Thread, InterruptRestore(t) PROVE NInv'
<1> DEFINE f == Top(t)
           g == [f EXCEPT !.undo = Tail(@), !.ours = FALSE, !.exc = "base"]
<1>1. PType /\ frames[t] # << >> /\ f.phase = "undo" /\ f.undo # << >>
      BY DEF PInv, InterruptRestore, In, Top
<1>2. f \in Frame /\ f.undo \in Seq(Name) /\ IsInjective(f.undo)
      BY <1>1, TopOf, FrameParts, TopRestoresOnce
<1>3. Tail(f.undo) \in Seq(Name) /\ IsInjective(Tail(f.undo))
      BY <1>1, <1>2, UndoParts, TailOnce
<1>4. /\ g \in Frame /\ g.id = f.id /\ g.by = f.by /\ g.undo = Tail(f.undo)
      /\ g.phase = "undo" /\ g.exc = "base"
      BY <1>1, <1>2, <1>3 DEF Frame
<1>5. SetTop(t, g) /\ UNCHANGED <<fn, orig, entered, replaced>>
      BY DEF InterruptRestore
<1> HIDE DEF g
<1>6. Retop(t, g)
      BY <1>1, <1>4, <1>5 DEF Retop
<1>7. IsInjective(g.undo)
      BY <1>3, <1>4
<1>8. QED BY <1>4, <1>5, <1>6, <1>7, RetopNested

\* A context takes the lock: it holds nothing yet.
LEMMA AcquireNested == ASSUME PInv, NInv, NEW t \in Thread, Acquire(t) PROVE NInv'
<1> DEFINE f == Top(t)
           g == [f EXCEPT !.phase = "setup"]
<1>1. PType /\ Prepares /\ frames[t] # << >> /\ f.phase = "wait"
      BY DEF PInv, Acquire, In, Top
<1>2. f \in Frame /\ f.undo = << >> /\ f.pc = 1 /\ ~f.ours
  <2>1. f \in Frame /\ Prepared(f)
        BY <1>1, TopOf DEF Prepares
  <2>2. QED BY <1>1, <2>1 DEF Prepared
<1>3. /\ g \in Frame /\ g.id = f.id /\ g.by = f.by /\ g.undo = << >> /\ g.pc = 1 /\ ~g.ours
      /\ g.phase = "setup"
      BY <1>2 DEF Frame
<1>4. SetTop(t, g) /\ UNCHANGED <<fn, orig, entered, replaced>>
      BY DEF Acquire
<1>5. ~Aborting(t)
      BY <1>1 DEF Aborting, In, Top
<1>6. IsInjective(f.undo)
      BY <1>1, TopRestoresOnce
<1> HIDE DEF g, f
<1>7. Retop(t, g)
      BY <1>1, <1>3, <1>4 DEF Retop, f
<1>8. ASSUME NEW n PROVE ~Holds(g, n) /\ ~Holds(f, n) /\ ~Reads(g, n)
  <2>1. Range(<< >>) = {}
        BY DEF Range
  <2>2. ~Did(g, "read", n)
        BY <1>3 DEF Did
  <2>3. QED BY <1>2, <1>3, <2>1, <2>2 DEF Holds, Reads
<1>9. IsInjective(g.undo)
      BY <1>2, <1>3, <1>6
<1>10. QED BY <1>3, <1>4, <1>5, <1>7, <1>8, <1>9, QuietNested DEF f

\* A restore is tested: a name that nobody replaced has the context's wrapper.
LEMMA RestoreTestNested == ASSUME PInv, NInv, NEW t \in Thread, RestoreTest(t) PROVE NInv'
<1> DEFINE f == Top(t)
           g == IF fn[Head(f.undo)] = f.id THEN [f EXCEPT !.ours = TRUE]
                                           ELSE [f EXCEPT !.undo = Tail(@)]
<1>1. PType /\ frames[t] # << >> /\ f.phase = "undo" /\ f.undo # << >> /\ ~f.ours
      BY DEF PInv, RestoreTest, In, Top
<1>2. /\ f \in Frame /\ f.undo \in Seq(Name) /\ IsInjective(f.undo)
      /\ frames[t] \in Seq(Frame) /\ f = frames[t][1]
      BY <1>1, TopOf, FrameParts, TopRestoresOnce DEF PType
<1>3. /\ Head(f.undo) \in Name /\ Head(f.undo) \in Range(f.undo) /\ Tail(f.undo) \in Seq(Name)
      /\ IsInjective(Tail(f.undo)) /\ Range(Tail(f.undo)) = Range(f.undo) \ {Head(f.undo)}
      BY <1>1, <1>2, UndoParts, TailOnce
<1>4. /\ g \in Frame /\ g.id = f.id /\ g.by = f.by /\ g.phase = "undo" /\ g.exc = f.exc
      /\ \/ fn[Head(f.undo)] = f.id /\ g.undo = f.undo
         \/ fn[Head(f.undo)] # f.id /\ g.undo = Tail(f.undo) /\ ~g.ours
  <2>1. CASE fn[Head(f.undo)] = f.id
        BY <1>1, <1>2, <2>1 DEF Frame
  <2>2. CASE fn[Head(f.undo)] # f.id
        BY <1>1, <1>2, <1>3, <2>2 DEF Frame
  <2>3. QED BY <2>1, <2>2
<1>5. SetTop(t, g) /\ UNCHANGED <<fn, orig, entered, replaced>>
      BY DEF RestoreTest
<1> HIDE DEF g
<1>6. Retop(t, g)
      BY <1>1, <1>4, <1>5 DEF Retop
<1>7. IsInjective(g.undo)
      BY <1>2, <1>3, <1>4
<1>8. Aborting(t) <=> g.exc = "base"
      BY <1>1, <1>4 DEF Aborting, In, Top
<1>9. ASSUME NEW n \in Name \ replaced, ~(g.phase = "undo" /\ g.exc = "base")
      PROVE  /\ ~Aborting(t) /\ (Holds(g, n) <=> Holds(f, n))
             /\ Reads(g, n) => Holds(f, n) \/ Reads(f, n)
  <2>1. ~Aborting(t)
        BY <1>4, <1>8, <1>9
  <2>2. Nests(frames[t], n, fn[n], orig)
        BY <2>1 DEF NInv, Nested
  <2>3. Holds(f, n) => fn[n] = f.id
        BY <1>1, <1>2, <2>2, TopNests
  <2>4. Holds(f, n) <=> n \in Range(f.undo)
        BY <1>1 DEF Holds
  <2>5. Holds(g, n) <=> n \in Range(g.undo)
        BY <1>4 DEF Holds
  <2>6. Reads(g, n) => g.undo = f.undo /\ n = Head(f.undo)
        BY <1>4 DEF Reads
  <2>7. n \in Range(g.undo) <=> n \in Range(f.undo)
        BY <1>3, <1>4, <2>3, <2>4
  <2>8. QED BY <1>3, <2>1, <2>4, <2>5, <2>6, <2>7
<1>10. QED BY <1>4, <1>5, <1>6, <1>7, <1>9, QuietNested

\* One instruction of the set-up: what is read is what the next context
\* further out holds, and what is installed lies on it.
LEMMA SetupNested == ASSUME PInv, NInv, NEW t \in Thread, Setup(t) PROVE NInv'
<1> DEFINE f == Top(t)
<1>1. /\ PType /\ Stacked /\ Locked /\ Prepares /\ frames[t] # << >> /\ f.phase = "setup"
      BY DEF PInv, Setup, In, Top
<1>2. /\ f \in Frame /\ f.id \in Context /\ f = frames[t][1] /\ 1 \in DOMAIN frames[t]
      /\ frames[t] \in Seq(Frame) /\ IsInjective(f.undo)
      BY <1>1, TopOf, FrameParts, TopRestoresOnce DEF PType
<1>3. PICK g, op, n :
         /\ op \in {"read", "register", "install"} /\ n \in Name
         /\ Executed(f, g, op, n) /\ SetTop(t, g)
         /\ \/ op = "read" /\ orig' = [orig EXCEPT ![f.id][n] = fn[n]] /\ UNCHANGED fn
            \/ op = "register" /\ UNCHANGED <<fn, orig>>
            \/ op = "install" /\ fn' = [fn EXCEPT ![n] = f.id] /\ UNCHANGED orig
      BY <1>1, SetupExecutes
<1>4. UNCHANGED <<entered, replaced>>
      BY DEF Setup
<1>5. lock.by = t /\ ~Aborting(t)
  <2>1. frames[t][1].phase \in {"setup", "undo"}
        BY <1>1, <1>2
  <2>2. lock.by = t
        BY <1>1, <1>2, <2>1, HoldsTheLock
  <2>3. QED BY <1>1, <2>2 DEF Aborting, In, Top
<1> HIDE DEF f
<1>6. /\ g \in Frame /\ g.id = f.id /\ g.by = f.by /\ IsInjective(g.undo)
      /\ \A m \in Name : /\ Holds(g, m) <=> Holds(f, m) \/ (op = "install" /\ m = n)
                         /\ Reads(g, m) => Reads(f, m) \/ (op = "read" /\ m = n)
      /\ op = "read" => ~Holds(f, n)
      /\ op = "install" => Reads(f, n)
      BY <1>2, <1>3 DEF Executed, Holds
<1>7. Retop(t, g)
      BY <1>1, <1>3, <1>4, <1>6 DEF Retop, f
<1>8. ASSUME NEW m \in Name \ replaced
      PROVE  Nests(frames'[t], m, fn'[m], orig')
  <2>1. Nests(frames[t], m, fn[m], orig)
        BY <1>5 DEF NInv, Nested
  <2>2. /\ Holds(f, m) => fn[m] = f.id
        /\ ~Holds(f, m) => Innermost(frames[t], 1, m, fn[m])
        /\ Holds(f, m) \/ Reads(f, m) => Innermost(frames[t], 1, m, orig[f.id][m])
        BY <1>1, <1>2, <2>1, TopNests
  <2>3. ASSUME NEW i \in DOMAIN frames[t], i # 1
        PROVE  orig'[frames[t][i].id][m] = orig[frames[t][i].id][m]
    <3>1. frames[t][i].id # f.id
          BY <1>1, <1>2, <2>3 DEF Stacked
    <3>2. frames[t][i].id \in Context
          BY <1>2, FrameParts
    <3>3. QED BY <1>1, <1>2, <1>3, <3>1, <3>2 DEF PType
  <2>4. CASE op = "read" /\ m = n
    <3>1. fn'[m] = fn[m] /\ orig'[g.id][m] = fn[m]
          BY <1>1, <1>2, <1>3, <1>6, <2>4 DEF PType
    <3>2. ~Holds(f, m) /\ ~Holds(g, m)
          BY <1>6, <2>4
    <3>3. QED BY <1>1, <1>6, <1>7, <2>1, <2>2, <2>3, <3>1, <3>2, RetopNests
  <2>5. CASE op = "install" /\ m = n
    <3>1. fn'[m] = g.id /\ orig'[g.id][m] = orig[f.id][m]
          BY <1>1, <1>2, <1>3, <1>6, <2>5 DEF PType
    <3>2. Holds(g, m) /\ Reads(f, m)
          BY <1>6, <2>5
    <3>3. QED BY <1>1, <1>6, <1>7, <2>1, <2>2, <2>3, <3>1, <3>2, RetopNests
  <2>6. CASE op = "register" \/ m # n
    <3>1. fn'[m] = fn[m] /\ orig'[g.id][m] = orig[f.id][m]
          BY <1>1, <1>2, <1>3, <1>6, <2>6 DEF PType
    <3>2. (Holds(g, m) <=> Holds(f, m)) /\ (Reads(g, m) => Reads(f, m))
          BY <1>6, <2>6
    <3>3. QED BY <1>1, <1>6, <1>7, <2>1, <2>2, <2>3, <3>1, <3>2, RetopNests
  <2>7. QED BY <1>3, <2>4, <2>5, <2>6
<1>9. QED BY <1>4, <1>5, <1>6, <1>7, <1>8, RetopNested

\* A restore puts back what the next context further out holds.
LEMMA RestoreSetNested == ASSUME PInv, NInv, NEW t \in Thread, RestoreSet(t) PROVE NInv'
<1> DEFINE f == Top(t)
           g == [f EXCEPT !.undo = Tail(@), !.ours = FALSE]
           n == Head(f.undo)
<1>1. /\ PType /\ Stacked /\ Locked /\ Prepares /\ frames[t] # << >>
      /\ f.phase = "undo" /\ f.undo # << >>
      BY DEF PInv, RestoreSet, In, Top
<1>2. /\ f \in Frame /\ f.undo \in Seq(Name) /\ f.id \in Context /\ IsInjective(f.undo)
      /\ f = frames[t][1] /\ 1 \in DOMAIN frames[t] /\ frames[t] \in Seq(Frame)
      BY <1>1, TopOf, FrameParts, TopRestoresOnce DEF PType
<1>3. /\ n \in Name /\ n \in Range(f.undo) /\ Tail(f.undo) \in Seq(Name)
      /\ IsInjective(Tail(f.undo)) /\ Range(Tail(f.undo)) = Range(f.undo) \ {n}
      BY <1>1, <1>2, UndoParts, TailOnce
<1>4. /\ g \in Frame /\ g.id = f.id /\ g.by = f.by /\ g.phase = "undo" /\ g.exc = f.exc
      /\ g.undo = Tail(f.undo) /\ ~g.ours
      BY <1>1, <1>2, <1>3 DEF Frame
<1>5. /\ SetTop(t, g) /\ UNCHANGED <<orig, entered, replaced>>
      /\ fn' = [fn EXCEPT ![n] = orig[f.id][n]]
      BY DEF RestoreSet
<1>6. lock.by = t
  <2>1. frames[t][1].phase \in {"setup", "undo"}
        BY <1>1, <1>2
  <2>2. QED BY <1>1, <1>2, <2>1, HoldsTheLock
<1> HIDE DEF g, n
<1>7. Retop(t, g)
      BY <1>1, <1>4, <1>5 DEF Retop
<1>8. Aborting(t) <=> g.exc = "base"
      BY <1>1, <1>4 DEF Aborting, In, Top
<1>9. IsInjective(g.undo)
      BY <1>3, <1>4
<1>10. ASSUME NEW m \in Name \ replaced, ~(g.phase = "undo" /\ g.exc = "base")
       PROVE  Nests(frames'[t], m, fn'[m], orig')
  <2>1. Nests(frames[t], m, fn[m], orig)
        BY <1>4, <1>8, <1>10 DEF NInv, Nested
  <2>2. /\ Holds(f, m) => fn[m] = f.id
        /\ ~Holds(f, m) => Innermost(frames[t], 1, m, fn[m])
        /\ Holds(f, m) => Innermost(frames[t], 1, m, orig[f.id][m])
        BY <1>1, <1>2, <2>1, TopNests
  <2>3. /\ Holds(f, m) <=> m \in Range(f.undo)
        /\ Holds(g, m) <=> m \in Range(f.undo) /\ m # n
        /\ ~Reads(g, m)
        BY <1>1, <1>3, <1>4 DEF Holds, Reads
  <2>4. CASE m = n
    <3>1. fn'[m] = orig[f.id][m]
          BY <1>1, <1>3, <1>5, <2>4 DEF PType
    <3>2. ~Holds(g, m) /\ Innermost(frames[t], 1, m, fn'[m])
          BY <1>3, <2>2, <2>3, <2>4, <3>1
    <3>3. Nests(frames'[t], m, fn'[m], orig)
          BY <1>1, <1>4, <1>7, <2>1, <2>3, <3>2, RetopNests
    <3>4. QED BY <1>5, <3>3
  <2>5. CASE m # n
    <3>1. fn'[m] = fn[m]
          BY <1>1, <1>5, <2>5 DEF PType
    <3>2. Nests(frames'[t], m, fn[m], orig)
          BY <1>1, <1>4, <1>7, <2>1, <2>2, <2>3, <2>5, RetopNests
    <3>3. QED BY <1>5, <3>1, <3>2
  <2>6. QED BY <2>4, <2>5
<1>11. QED BY <1>4, <1>5, <1>6, <1>7, <1>9, <1>10, RetopNested

\* A context that restores nothing is left.
LEMMA PopNested ==
    ASSUME PInv, NInv, NEW t \in Thread, NEW exc, Pops(t, exc), Top(t).undo = << >>,
           exc # "base" => ~Aborting(t), UNCHANGED <<fn, orig, replaced>>
    PROVE  NInv'
<1>1. PType /\ frames[t] # << >>
      BY DEF PInv, Pops
<1>2. /\ frames' \in [Thread -> Seq(Frame)]
      /\ \A u \in Thread : u # t => frames'[u] = frames[u]
      /\ DOMAIN frames'[t] = 1..(Len(frames[t]) - 1)
      /\ \A i \in DOMAIN frames'[t] :
            /\ i + 1 \in DOMAIN frames[t]
            /\ Outlives(frames[t][i + 1], frames'[t][i])
            /\ exc # "base" => frames'[t][i] = frames[t][i + 1]
            /\ i = 1 /\ exc = "base" => frames'[t][i].phase = "undo" /\ frames'[t][i].exc = "base"
      BY <1>1, PopShape
<1>3. RestoredOnce'
  <2>1. ASSUME NEW u \in Thread, NEW i \in DOMAIN frames'[u] PROVE IsInjective(frames'[u][i].undo)
    <3>1. CASE u = t
          BY <1>2, <3>1 DEF NInv, RestoredOnce, Outlives
    <3>2. CASE u # t
          BY <1>2, <3>2 DEF NInv, RestoredOnce
    <3>3. QED BY <3>1, <3>2
  <2>2. QED BY <2>1 DEF RestoredOnce, IsInjective
<1>4. PICK s \in Seq(Frame), r \in Seq(Frame) : s = frames[t] /\ r = frames'[t] /\ s # << >>
      BY <1>1, <1>2 DEF PType
<1>5. ASSUME NEW n \in Name \ replaced, ~Aborting(t)'
      PROVE  Nests(frames'[t], n, fn[n], orig)
  <2>1. CASE exc = "base"
    <3>1. r = << >>
      <4>1. ASSUME r # << >> PROVE FALSE
        <5>1. 1 \in DOMAIN r /\ Head(r) = r[1]
              BY <1>4, <4>1
        <5>2. Head(frames'[t]).phase = "undo" /\ Head(frames'[t]).exc = "base"
              BY <1>2, <1>4, <2>1, <5>1
        <5>3. QED BY <1>4, <1>5, <4>1, <5>2 DEF Aborting, In, Top
      <4>2. QED BY <4>1
    <3>2. DOMAIN r = {}
          BY <3>1
    <3>3. QED BY <1>4, <3>2 DEF Nests, Innermost
  <2>2. CASE exc # "base"
    <3>1. Nests(s, n, fn[n], orig)
          BY <1>4, <2>2 DEF NInv, Nested
    <3>2. ~Holds(s[1], n)
      <4>1. s[1].undo = << >>
            BY <1>1, <1>4, TopOf
      <4>2. QED BY <4>1 DEF Holds, Range
    <3>3. DOMAIN r = 1..(Len(s) - 1) /\ \A i \in DOMAIN r : r[i] = s[i + 1]
          BY <1>2, <1>4, <2>2
    <3>4. QED BY <1>4, <3>1, <3>2, <3>3, PopNests
  <2>3. QED BY <2>1, <2>2
<1>6. Nested'
      BY <1>2, <1>5, OthersNest DEF NInv
<1>7. QED BY <1>3, <1>6 DEF NInv

\* A context releases the lock.
LEMMA ReleaseNested == ASSUME PInv, NInv, NEW t \in Thread, Release(t) PROVE NInv'
<1>1. /\ Pops(t, Top(t).exc) /\ Top(t).undo = << >> /\ UNCHANGED <<fn, orig, replaced>>
      BY DEF Release, Pops, In
<1>2. Top(t).exc # "base" => ~Aborting(t)
      BY DEF Aborting
<1>3. QED BY <1>1, <1>2, PopNested

\* An interrupt hits a thread that waits for the lock.
LEMMA InterruptWaitNested == ASSUME PInv, NInv, NEW t \in Thread, InterruptWait(t) PROVE NInv'
<1>1. PType /\ Prepares /\ frames[t] # << >> /\ Top(t).phase = "wait"
      BY DEF PInv, InterruptWait, In, Top
<1>2. Pops(t, "base") /\ UNCHANGED <<fn, orig, replaced>>
      BY <1>1 DEF InterruptWait, Pops
<1>3. Top(t).undo = << >>
  <2>1. Prepared(Top(t))
        BY <1>1, TopOf DEF Prepares
  <2>2. QED BY <1>1, <2>1 DEF Prepared
<1>4. QED BY <1>2, <1>3, PopNested

\* A thread enters a context from outside every context or from a body.
LEMMA EnterNested ==
    ASSUME PInv, NInv, NEW t \in Thread, NEW kind \in {"shim", "audit"}, NEW by \in {"user", "run"},
           Enter(t, kind, by), frames[t] = << >> \/ In(t, "body")
    PROVE  NInv'
<1>1. PType
      BY DEF PInv
<1>2. PICK e \in 1..MaxContexts : e = entered[t] + 1
  <2>1. entered[t] \in 0..MaxContexts /\ entered[t] < MaxContexts
        BY <1>1 DEF PType, Enter
  <2>2. entered[t] + 1 \in 1..MaxContexts
        BY <2>1, PatchingAssumption
  <2>3. QED BY <2>2, Zenon
<1> DEFINE g == [id |-> <<t, e>>, by |-> by, kind |-> kind, phase |-> "wait", pc |-> 1,
                 undo |-> << >>, ours |-> FALSE, exc |-> "ok"]
<1>3. g \in Frame /\ g.phase = "wait" /\ g.undo = << >> /\ ~g.ours
  <2>1. <<t, e>> \in Context
        BY DEF Context
  <2>2. << >> \in Seq(Name)
        OBVIOUS
  <2>3. QED BY <2>1, <2>2 DEF Frame
<1>4. Pushes(t, g) /\ UNCHANGED <<fn, orig, replaced>>
      BY <1>2 DEF Enter, Pushes
<1> HIDE DEF g
<1>5. /\ frames' \in [Thread -> Seq(Frame)]
      /\ \A u \in Thread : u # t => frames'[u] = frames[u]
      /\ DOMAIN frames[t] = 1..Len(frames[t]) /\ DOMAIN frames'[t] = 1..(Len(frames[t]) + 1)
      /\ frames'[t][1] = g
      /\ \A i \in DOMAIN frames[t] : frames'[t][i + 1] = frames[t][i]
      /\ \A i \in DOMAIN frames'[t] : i # 1 =>
            i - 1 \in DOMAIN frames[t] /\ frames'[t][i] = frames[t][i - 1]
      BY <1>1, <1>3, <1>4, PushShape
<1>6. IsInjective(g.undo) /\ \A n : ~Holds(g, n) /\ ~Reads(g, n)
      BY <1>3 DEF IsInjective, Holds, Reads, Range
<1>7. RestoredOnce'
  <2>1. ASSUME NEW u \in Thread, NEW i \in DOMAIN frames'[u] PROVE IsInjective(frames'[u][i].undo)
    <3>1. CASE u = t /\ i = 1
          BY <1>5, <1>6, <3>1
    <3>2. CASE u = t /\ i # 1
          BY <1>5, <3>2 DEF NInv, RestoredOnce
    <3>3. CASE u # t
          BY <1>5, <3>3 DEF NInv, RestoredOnce
    <3>4. QED BY <3>1, <3>2, <3>3
  <2>2. QED BY <2>1 DEF RestoredOnce, IsInjective
<1>8. ~Aborting(t)
      BY DEF Aborting, In
<1>9. ASSUME NEW n \in Name \ replaced PROVE Nests(frames'[t], n, fn[n], orig)
  <2>1. PICK s \in Seq(Frame), r \in Seq(Frame) : s = frames[t] /\ r = frames'[t]
        BY <1>1, <1>5 DEF PType
  <2>2. Nests(s, n, fn[n], orig)
        BY <1>8, <2>1 DEF NInv, Nested
  <2>3. /\ DOMAIN r = 1..(Len(s) + 1) /\ \A i \in 1..Len(s) : r[i + 1] = s[i]
        /\ ~Holds(r[1], n) /\ ~Reads(r[1], n)
        BY <1>5, <1>6, <2>1
  <2>4. QED BY <2>1, <2>2, <2>3, PushNests
<1>10. Nested'
       BY <1>4, <1>5, <1>9, OthersNest DEF NInv
<1>11. QED BY <1>7, <1>10 DEF NInv

\* A step that leaves the stacks alone and installs nothing under a name that
\* is not replaced then.
LEMMA StacksStay ==
    ASSUME PInv, NInv, UNCHANGED <<orig, frames>>, replaced \subseteq replaced',
           \A n \in Name \ replaced' : fn'[n] = fn[n]
    PROVE  NInv'
<1>1. ASSUME NEW u \in Thread, NEW n \in Name \ replaced', ~Aborting(u)'
      PROVE  Nests(frames'[u], n, fn'[n], orig')
  <2>1. ~Aborting(u)
        BY <1>1 DEF Aborting, In, Top
  <2>2. Nests(frames[u], n, fn[n], orig)
        BY <1>1, <2>1 DEF NInv, Nested
  <2>3. QED BY <1>1, <2>2
<1>2. RestoredOnce'
      BY DEF NInv, RestoredOnce
<1>3. QED BY <1>1, <1>2 DEF NInv, Nested

-----------------------------------------------------------------------------
(* The steps of the checks.                                                *)

\* A step that leaves the patches alone.
LEMMA PatchesStay ==
    ASSUME PInv, UNCHANGED <<fn, orig, entered, lock, frames, replaced, raced, cut>>
    PROVE  PInv'
<1>1. PType' /\ Stacked' /\ Unread' /\ Unreplaced'
      BY DEF PInv, PType, Stacked, Unread, Unreplaced
<1>2. Locked'
  <2>1. \A u \in Thread : Passed(u)' = Passed(u)
        BY DEF Passed, In
  <2>2. QED BY <2>1 DEF PInv, Locked
<1>3. Prepares'
      BY DEF PInv, Prepares, Prepared, Did
<1>4. Owned'
      BY DEF PInv, Owned, Restores
<1>5. Replacements'
  <2>1. ASSUME NEW n \in replaced \ raced PROVE \E L \in SUBSET Context : Leads(n, L)'
    <3>1. PICK L \in SUBSET Context : Leads(n, L)
          BY <2>1 DEF PInv, Replacements
    <3>2. Leads(n, L)'
          BY <3>1 DEF Leads, Reads, Did, Installs
    <3>3. QED BY <3>2
  <2>2. QED BY <2>1 DEF Replacements
<1>6. QED BY <1>1, <1>2, <1>3, <1>4, <1>5 DEF PInv

\* The runs of a thread when its innermost context moves on.
LEMMA RetopRuns ==
    ASSUME PType, NEW t \in Thread, NEW g \in Frame, Retop(t, g)
    PROVE  /\ OneRun(t) => OneRun(t)'
           /\ Running(t)' <=> Running(t)
           /\ Aborting(t)' <=> g.phase = "undo" /\ g.exc = "base"
<1>1. /\ DOMAIN frames'[t] = DOMAIN frames[t] /\ Len(frames'[t]) = Len(frames[t])
      /\ Top(t)' = g /\ frames[t] # << >> /\ frames'[t] \in Seq(Frame)
      BY RetopShape DEF Retop
<1>2. ASSUME NEW i \in DOMAIN frames[t] PROVE frames'[t][i].by = frames[t][i].by
  <2>1. CASE i = 1
    <3>1. frames'[t][1] = g /\ Top(t) = frames[t][1]
          BY <1>1, RetopShape, TopOf
    <3>2. QED BY <2>1, <3>1 DEF Retop
  <2>2. CASE i # 1
        BY <2>2, RetopShape
  <2>3. QED BY <2>1, <2>2
<1>3. frames'[t] # << >>
  <2>1. frames[t] \in Seq(Frame)
        BY DEF PType
  <2>2. QED BY <1>1, <2>1
<1>4. OneRun(t) => OneRun(t)'
      BY <1>1, <1>2 DEF OneRun
<1>5. Running(t)' <=> Running(t)
      BY <1>1, <1>2 DEF Running
<1>6. Aborting(t)' <=> g.phase = "undo" /\ g.exc = "base"
      BY <1>1, <1>3 DEF Aborting, In, Top
<1>7. QED BY <1>4, <1>5, <1>6

\* The runs of a thread when a context is entered.
LEMMA PushRuns ==
    ASSUME PType, NEW t \in Thread, NEW g \in Frame, Pushes(t, g), OneRun(t)
    PROVE  /\ g.by = "user" => OneRun(t)' /\ (Running(t)' <=> Running(t))
           /\ g.by = "run" /\ ~Running(t) => OneRun(t)' /\ Running(t)'
<1>1. /\ DOMAIN frames[t] = 1..Len(frames[t]) /\ DOMAIN frames'[t] = 1..(Len(frames[t]) + 1)
      /\ Len(frames[t]) \in Nat /\ frames'[t][1] = g
      /\ \A i \in DOMAIN frames[t] : frames'[t][i + 1] = frames[t][i]
      /\ \A i \in DOMAIN frames'[t] : i # 1 =>
            i - 1 \in DOMAIN frames[t] /\ frames'[t][i] = frames[t][i - 1]
      BY PushShape
<1>2. 1 \in DOMAIN frames'[t] /\ \A i \in DOMAIN frames[t] : i + 1 \in DOMAIN frames'[t]
      BY <1>1
<1>3. ASSUME NEW i \in DOMAIN frames'[t], NEW j \in DOMAIN frames'[t], i # 1, j # 1,
             frames'[t][i].by = "run", frames'[t][j].by = "run"
      PROVE  i = j
  <2>1. i - 1 = j - 1
        BY <1>1, <1>3 DEF OneRun
  <2>2. i \in Nat /\ j \in Nat
        BY <1>1
  <2>3. QED BY <2>1, <2>2
<1>4. ASSUME g.by = "user" PROVE OneRun(t)' /\ (Running(t)' <=> Running(t))
  <2>1. \A i \in DOMAIN frames'[t] : frames'[t][i].by = "run" => i # 1
        BY <1>1, <1>4
  <2>2. OneRun(t)'
        BY <1>3, <2>1 DEF OneRun
  <2>3. Running(t)' => Running(t)
        BY <1>1, <2>1 DEF Running
  <2>4. Running(t) => Running(t)'
        BY <1>1, <1>2 DEF Running
  <2>5. QED BY <2>2, <2>3, <2>4
<1>5. ASSUME g.by = "run", ~Running(t) PROVE OneRun(t)' /\ Running(t)'
  <2>1. \A i \in DOMAIN frames'[t] : frames'[t][i].by = "run" => i = 1
        BY <1>1, <1>5 DEF Running
  <2>2. QED BY <1>1, <1>2, <1>5, <2>1 DEF OneRun, Running
<1>6. QED BY <1>4, <1>5

\* The runs of a thread when a context is left: an exception that is no
\* Exception goes on to a run further out, and after any other the thread is
\* back in the body of the context around.
LEMMA PopRuns ==
    ASSUME PType, Stacked, NEW t \in Thread, NEW exc, Pops(t, exc), OneRun(t)
    PROVE  /\ OneRun(t)'
           /\ Top(t).by = "run" => Running(t) /\ ~Running(t)'
           /\ Top(t).by # "run" => (Running(t)' <=> Running(t)) /\ (exc = "base" /\ Running(t) => Aborting(t)')
           /\ exc # "base" => Quiet(t)'
<1>1. /\ Len(frames[t]) \in Nat \ {0} /\ DOMAIN frames[t] = 1..Len(frames[t])
      /\ DOMAIN frames'[t] = 1..(Len(frames[t]) - 1) /\ Len(frames'[t]) = Len(frames[t]) - 1
      /\ frames'[t] \in Seq(Frame)
      BY PopShape
<1>2. ASSUME NEW i \in DOMAIN frames'[t]
      PROVE  /\ i \in Nat \ {0} /\ i + 1 \in DOMAIN frames[t]
             /\ frames'[t][i].by = frames[t][i + 1].by
             /\ i # 1 \/ exc # "base" => frames'[t][i] = frames[t][i + 1]
             /\ i = 1 /\ exc = "base" => frames'[t][i].phase = "undo" /\ frames'[t][i].exc = "base"
      BY PopShape DEF Outlives
<1>3. 1 \in DOMAIN frames[t] /\ Top(t) = frames[t][1]
      BY TopOf DEF Pops
<1>4. OneRun(t)'
  <2>1. ASSUME NEW i \in DOMAIN frames'[t], NEW j \in DOMAIN frames'[t],
               frames'[t][i].by = "run", frames'[t][j].by = "run"
        PROVE  i = j
    <3>1. i + 1 = j + 1
          BY <1>2, <2>1 DEF OneRun
    <3>2. QED BY <1>2, <3>1
  <2>2. QED BY <2>1 DEF OneRun
<1>5. ASSUME Top(t).by = "run" PROVE Running(t) /\ ~Running(t)'
  <2>1. ASSUME NEW i \in DOMAIN frames'[t] PROVE frames'[t][i].by # "run"
    <3>1. i + 1 # 1
          BY <1>2
    <3>2. frames[t][i + 1].by # "run"
          BY <1>2, <1>3, <1>5, <3>1 DEF OneRun
    <3>3. QED BY <1>2, <3>2
  <2>2. QED BY <1>3, <1>5, <2>1 DEF Running
<1>6. ASSUME frames'[t] # << >>
      PROVE  1 \in DOMAIN frames'[t] /\ Top(t)' = frames'[t][1]
  <2>1. PICK q \in Seq(Frame) : q = frames'[t]
        BY <1>1
  <2>2. q # << >>
        BY <1>6, <2>1
  <2>3. Head(q) = q[1] /\ 1 \in DOMAIN q
        BY <2>2
  <2>4. QED BY <2>1, <2>3 DEF Top
<1>7. ASSUME Top(t).by # "run"
      PROVE  (Running(t)' <=> Running(t)) /\ (exc = "base" /\ Running(t) => Aborting(t)')
  <2>1. Running(t)' => Running(t)
        BY <1>2 DEF Running
  <2>2. ASSUME Running(t) PROVE Running(t)' /\ frames'[t] # << >>
    <3>1. PICK i \in DOMAIN frames[t] : frames[t][i].by = "run"
          BY <2>2 DEF Running
    <3>2. PICK h \in DOMAIN frames'[t] : i = h + 1
      <4>1. i # 1
            BY <1>3, <1>7, <3>1
      <4>2. i - 1 \in DOMAIN frames'[t] /\ i = (i - 1) + 1
            BY <1>1, <4>1
      <4>3. QED BY <4>2
    <3>3. frames'[t][h].by = "run"
          BY <1>2, <3>1, <3>2
    <3>4. QED BY <3>3 DEF Running
  <2>3. ASSUME Running(t), exc = "base" PROVE Aborting(t)'
    <3>1. 1 \in DOMAIN frames'[t] /\ Top(t)' = frames'[t][1] /\ frames'[t] # << >>
          BY <1>6, <2>2, <2>3
    <3>2. frames'[t][1].phase = "undo" /\ frames'[t][1].exc = "base"
          BY <1>2, <2>3, <3>1
    <3>3. QED BY <3>1, <3>2 DEF Aborting, In, Top
  <2>4. QED BY <2>1, <2>2, <2>3
<1>8. ASSUME exc # "base" PROVE Quiet(t)'
  <2>1. ASSUME frames'[t] # << >> PROVE Top(t)'.phase = "body"
    <3>1. 1 \in DOMAIN frames'[t] /\ Top(t)' = frames'[t][1]
          BY <1>6, <2>1
    <3>2. frames'[t][1] = frames[t][1 + 1] /\ 1 + 1 \in DOMAIN frames[t]
          BY <1>2, <1>8, <3>1
    <3>3. QED BY <3>1, <3>2 DEF Stacked
  <2>2. QED BY <2>1 DEF Quiet, In, Top
<1>9. QED BY <1>4, <1>5, <1>7, <1>8

\* The parts of a check().
LEMMA CheckParts ==
    ASSUME NEW s \in Check
    PROVE  /\ s.checked \in Nat /\ s.ended \in Seq(Outcome) /\ Len(s.ended) \in Nat
           /\ s.at \in {"idle", "loop", "run", "over"} /\ s.world \in BOOLEAN
BY DEF Check

\* If all runs of a check() passed, so did the last.
LEMMA LastOfOk ==
    ASSUME NEW s \in Check, \A i \in DOMAIN s.ended : s.ended[i] = "ok", s.ended # << >>
    PROVE  Last(s.ended) = "ok"
<1>1. s.ended \in Seq(Outcome)
      BY CheckParts
<1>2. Len(s.ended) \in DOMAIN s.ended
      BY <1>1
<1>3. QED BY <1>2 DEF Last

\* What check() makes of the outcome of a run.
LEMMA AfterIs ==
    ASSUME NEW s \in Check, NEW exc \in Outcome, NEW r, r = After(s, exc),
           \A i \in DOMAIN s.ended : s.ended[i] = "ok", s.seed = None,
           s.checked = Len(s.ended) + 1
    PROVE  /\ r \in Check /\ ~r.world /\ Len(r.ended) = s.checked /\ r.checked = s.checked
           /\ \A i \in 1..(Len(r.ended) - 1) : r.ended[i] = "ok"
           /\ r.at = "loop" <=> exc = "ok"
           /\ r.at = "over" <=> exc # "ok"
           /\ exc = "ok" => r.seed = None /\ \A i \in DOMAIN r.ended : r.ended[i] = "ok"
           /\ exc # "ok" =>
                 /\ r.ended # << >> /\ Last(r.ended) = exc
                 /\ Tagged(r, exc) =>
                       /\ r.result = IF r.call = "return" THEN "returned" ELSE "raised"
                       /\ r.seed = r.checked
                 /\ ~Tagged(r, exc) => r.result = "untagged" /\ r.seed = None
<1>1. /\ s.checked \in Nat /\ s.ended \in Seq(Outcome) /\ Len(s.ended) \in Nat
      BY CheckParts
<1>2. PICK q \in Seq(Outcome) : q = Append(s.ended, exc)
  <2>1. Append(s.ended, exc) \in Seq(Outcome)
        BY <1>1
  <2>2. QED BY <2>1, Zenon
<1>3. /\ Len(q) = Len(s.ended) + 1 /\ DOMAIN q = 1..(Len(s.ended) + 1)
      /\ \A i \in 1..Len(s.ended) : q[i] = s.ended[i]
      /\ q[Len(s.ended) + 1] = exc /\ DOMAIN s.ended = 1..Len(s.ended)
      BY <1>1, <1>2
<1>4. /\ Last(q) = exc /\ Len(q) = s.checked /\ q # << >>
      /\ \A i \in 1..(Len(q) - 1) : q[i] = "ok"
      /\ exc = "ok" => \A i \in DOMAIN q : q[i] = "ok"
  <2>1. Last(q) = exc /\ Len(q) = s.checked /\ q # << >>
        BY <1>1, <1>3 DEF Last
  <2>2. \A i \in 1..(Len(q) - 1) : i \in 1..Len(s.ended)
        BY <1>1, <1>3
  <2>3. \A i \in DOMAIN q : i \in 1..Len(s.ended) \/ i = Len(s.ended) + 1
        BY <1>1, <1>3
  <2>4. QED BY <1>3, <2>1, <2>2, <2>3
<1> DEFINE ran == [s EXCEPT !.world = FALSE, !.ended = q]
<1>5. /\ ran \in Check /\ ~ran.world /\ ran.ended = q /\ ran.checked = s.checked
      /\ ran.seed = None /\ ran.call = s.call
      BY DEF Check
<1>6. r = IF exc = "ok" THEN [ran EXCEPT !.at = "loop"]
          ELSE IF ~Tagged(s, exc) THEN [ran EXCEPT !.at = "over", !.result = "untagged"]
          ELSE [ran EXCEPT !.at = "over", !.seed = s.checked,
                           !.result = IF s.call = "return" THEN "returned" ELSE "raised"]
      BY <1>2 DEF After
<1> HIDE DEF ran
<1>7. CASE exc = "ok"
  <2>1. r = [ran EXCEPT !.at = "loop"]
        BY <1>6, <1>7
  <2>2. r \in Check /\ r.at = "loop" /\ ~r.world /\ r.ended = q /\ r.checked = s.checked /\ r.seed = None
        BY <1>5, <2>1 DEF Check
  <2>3. QED BY <1>4, <1>7, <2>2
<1>8. CASE exc # "ok" /\ ~Tagged(s, exc)
  <2>1. r = [ran EXCEPT !.at = "over", !.result = "untagged"]
        BY <1>6, <1>8
  <2>2. /\ r \in Check /\ r.at = "over" /\ ~r.world /\ r.ended = q /\ r.checked = s.checked
        /\ r.seed = None /\ r.result = "untagged" /\ r.call = s.call
        BY <1>5, <2>1 DEF Check
  <2>3. ~Tagged(r, exc)
        BY <1>8, <2>2 DEF Tagged
  <2>4. QED BY <1>4, <1>8, <2>2, <2>3
<1>9. CASE exc # "ok" /\ Tagged(s, exc)
  <2>1. r = [ran EXCEPT !.at = "over", !.seed = s.checked,
                        !.result = IF s.call = "return" THEN "returned" ELSE "raised"]
        BY <1>6, <1>9
  <2>2. /\ r \in Check /\ r.at = "over" /\ ~r.world /\ r.ended = q /\ r.checked = s.checked
        /\ r.seed = s.checked /\ r.call = s.call
        /\ r.result = IF s.call = "return" THEN "returned" ELSE "raised"
        BY <1>1, <1>5, <2>1 DEF Check
  <2>3. Tagged(r, exc)
        BY <1>9, <2>2 DEF Tagged
  <2>4. QED BY <1>4, <1>9, <2>2, <2>3
<1>10. QED BY <1>7, <1>8, <1>9

\* A step of thread t, whose check() becomes s, changes no other's books.
LEMMA SInvFrom ==
    ASSUME SInv, NEW t \in Thread, NEW s \in Check, sweep' = [sweep EXCEPT ![t] = s],
           \A u \in Thread : u # t => frames'[u] = frames[u],
           \A u \in Thread : u # t => (u \in hit' <=> u \in hit),
           interrupts' \in 0..MaxInterrupts, replaces' \in 0..MaxReplaced,
           byHand' \in 0..MaxUser, hit' \subseteq Interruptible,
           Kept(t, s)', Reported(t, s)'
    PROVE  SInv'
<1>1. SType'
      BY DEF SInv, SType
<1>2. /\ sweep'[t] = s
      /\ \A u \in Thread : u # t => sweep'[u] = sweep[u]
      BY DEF SInv, SType
<1>3. ASSUME NEW u \in Thread PROVE Kept(u, sweep[u])' /\ Reported(u, sweep[u])'
  <2>1. CASE u = t
    <3>1. sweep'[u] = s /\ Kept(u, s)' /\ Reported(u, s)'
          BY <1>2, <2>1
    <3>2. Kept(u, sweep[u])'
          BY <3>1, Zenon DEF Kept
    <3>3. Reported(u, sweep[u])'
          BY <3>1, Zenon DEF Reported
    <3>4. QED BY <3>2, <3>3
  <2>2. CASE u # t
    <3>1. Kept(u, sweep[u]) /\ Reported(u, sweep[u])
          BY DEF SInv
    <3>2. frames'[u] = frames[u] /\ sweep'[u] = sweep[u] /\ (u \in hit' <=> u \in hit)
          BY <1>2, <2>2
    <3>3. /\ OneRun(u)' <=> OneRun(u)
          /\ Running(u)' <=> Running(u)
          /\ Quiet(u)' <=> Quiet(u)
          /\ Aborting(u)' <=> Aborting(u)
          BY <3>2 DEF OneRun, Running, Quiet, Aborting, In, Top
    <3>4. Kept(u, sweep[u])'
      <4>1. PICK c : c = sweep[u]
            OBVIOUS
      <4>2. Kept(u, c) /\ sweep'[u] = c
            BY <3>1, <3>2, <4>1
      <4>3. Kept(u, c)'
        <5>1. OneRun(u)' /\ (c.at = "run" <=> Running(u)') /\ (c.at = "loop" => Quiet(u)')
              BY <3>3, <4>2, Zenon DEF Kept
        <5>2. u \in hit' => (c.at = "run" /\ Aborting(u)') \/ c.at = "over"
              BY <3>2, <3>3, <4>2, Zenon DEF Kept
        <5>3. QED BY <4>2, <5>1, <5>2, Zenon DEF Kept
      <4>4. QED BY <4>2, <4>3, Zenon DEF Kept
    <3>5. Reported(u, sweep[u])'
          BY <3>1, <3>2 DEF Reported
    <3>6. QED BY <3>4, <3>5
  <2>3. QED BY <2>1, <2>2
<1>4. QED BY <1>1, <1>3 DEF SInv

\* A step of thread t that is none of check()'s.
LEMMA ChecksStay ==
    ASSUME SInv, NEW t \in Thread, UNCHANGED <<sweep, hit>>,
           \A u \in Thread : u # t => frames'[u] = frames[u],
           interrupts' \in 0..MaxInterrupts, replaces' \in 0..MaxReplaced, byHand' \in 0..MaxUser,
           OneRun(t)', Running(t)' <=> Running(t), sweep[t].at = "loop" => Quiet(t)',
           t \in hit /\ sweep[t].at = "run" => Aborting(t)'
    PROVE  SInv'
<1>1. PICK s \in Check : s = sweep[t]
      BY DEF SInv, SType
<1>2. Kept(t, s) /\ Reported(t, s)
      BY <1>1 DEF SInv
<1>3. sweep' = [sweep EXCEPT ![t] = s]
      BY <1>1 DEF SInv, SType
<1>4. Reported(t, s)'
      BY <1>2 DEF Reported
<1>5. Kept(t, s)'
      BY <1>1, <1>2 DEF Kept
<1>6. hit' \subseteq Interruptible
      BY DEF SInv, SType
<1>7. QED BY <1>3, <1>4, <1>5, <1>6, SInvFrom

\* What a thread enters.
LEMMA Entered ==
    ASSUME PType, NEW t \in Thread, NEW kind \in {"shim", "audit"}, NEW by \in {"user", "run"},
           Enter(t, kind, by)
    PROVE  \E g \in Frame : Pushes(t, g) /\ g.by = by
<1> DEFINE g == [id |-> <<t, entered[t] + 1>>, by |-> by, kind |-> kind, phase |-> "wait",
                 pc |-> 1, undo |-> << >>, ours |-> FALSE, exc |-> "ok"]
<1>1. entered[t] \in 0..MaxContexts /\ entered[t] < MaxContexts
      BY DEF PType, Enter
<1>2. <<t, entered[t] + 1>> \in Context
      BY <1>1, PatchingAssumption DEF Context
<1>3. << >> \in Seq(Name)
      OBVIOUS
<1>4. g \in Frame /\ g.by = by
      BY <1>2, <1>3 DEF Frame
<1>5. Pushes(t, g)
      BY DEF Enter, Pushes
<1> HIDE DEF g
<1>6. QED BY <1>4, <1>5

\* What the invariant says of one thread and its check().
LEMMA OfThread ==
    ASSUME IInv, NEW t \in Thread
    PROVE  /\ PInv /\ SInv /\ PType /\ Stacked /\ sweep[t] \in Check
           /\ Kept(t, sweep[t]) /\ Reported(t, sweep[t])
           /\ interrupts \in 0..MaxInterrupts /\ replaces \in 0..MaxReplaced
           /\ byHand \in 0..MaxUser /\ hit \subseteq Interruptible
BY DEF IInv, PInv, SInv, SType

\* The thread is in one phase at a time.
LEMMA OnePhase ==
    ASSUME NEW t \in Thread
    PROVE  /\ In(t, "body") => ~In(t, "undo") /\ ~In(t, "wait") /\ ~In(t, "setup")
           /\ In(t, "wait") \/ In(t, "setup") \/ In(t, "undo") => ~Quiet(t)
           /\ In(t, "wait") \/ In(t, "setup") => ~In(t, "undo")
           /\ Quiet(t) => ~In(t, "undo")
BY DEF In, Quiet

\* A context entered by hand.
LEMMA EnterByHandKeeps ==
    ASSUME IInv, NEW t \in Thread, NEW kind \in {"shim", "audit"}, EnterByHand(t, kind)
    PROVE  IInv'
<1>1. /\ PInv /\ SInv /\ PType /\ Kept(t, sweep[t])
      /\ interrupts \in 0..MaxInterrupts /\ replaces \in 0..MaxReplaced /\ byHand \in 0..MaxUser
      BY OfThread
<1>2. /\ sweep[t].at # "loop" /\ (frames[t] = << >> \/ In(t, "body")) /\ Enter(t, kind, "user")
      /\ byHand' = byHand + 1 /\ byHand < MaxUser /\ UNCHANGED <<sweep, hit, interrupts, replaces>>
      BY DEF EnterByHand, InUserCode, Enter
<1>3. PInv'
      BY <1>1, <1>2, EnterKeeps
<1>4. PICK g \in Frame : Pushes(t, g) /\ g.by = "user"
      BY <1>1, <1>2, Entered
<1>5. OneRun(t)' /\ (Running(t)' <=> Running(t))
      BY <1>1, <1>4, PushRuns DEF Kept
<1>6. \A u \in Thread : u # t => frames'[u] = frames[u]
      BY <1>1, <1>4, PushShape
<1>7. ~(t \in hit /\ sweep[t].at = "run")
  <2>1. Quiet(t)
        BY <1>2 DEF Quiet
  <2>2. ~Aborting(t)
        BY <2>1, OnePhase DEF Aborting
  <2>3. QED BY <1>1, <2>2 DEF Kept
<1>8. byHand' \in 0..MaxUser
      BY <1>1, <1>2, SweepAssumption
<1>9. SInv'
      BY <1>1, <1>2, <1>5, <1>6, <1>7, <1>8, ChecksStay
<1>10. QED BY <1>3, <1>9 DEF IInv

\* check() begins.
LEMMA BeginKeeps ==
    ASSUME IInv, NEW t \in Thread, NEW option \in Options[t], Begin(t, option)
    PROVE  IInv'
<1>1. /\ PInv /\ SInv /\ sweep[t] \in Check /\ Kept(t, sweep[t])
      /\ interrupts \in 0..MaxInterrupts /\ replaces \in 0..MaxReplaced /\ byHand \in 0..MaxUser
      /\ hit \subseteq Interruptible
      BY OfThread
<1>2. PICK s \in Check : s = sweep[t]
      BY <1>1
<1>2a. PICK r : r = [s EXCEPT !.at = "loop", !.call = option[1], !.kind = option[2]]
      OBVIOUS
<1>3. /\ s.at = "idle" /\ Quiet(t) /\ sweep' = [sweep EXCEPT ![t] = r]
      /\ UNCHANGED <<pvars, byHand, hit>>
      BY <1>2, <1>2a DEF Begin, Set, InUserCode, Quiet
<1>4. option[1] \in {"raise", "return", "replay", "given"} /\ option[2] \in {"shim", "audit"}
      BY SweepAssumption
<1>5. /\ r \in Check /\ r.at = "loop" /\ r.world = s.world /\ r.seed = s.seed
      /\ r.ended = s.ended /\ r.checked = s.checked
      BY <1>2, <1>2a, <1>4 DEF Check
<1>6. PInv'
      BY <1>1, <1>3, PatchesStay DEF pvars
<1>7. Kept(t, s)
      BY <1>1, <1>2
<1>8. Kept(t, r)'
  <2>1. OneRun(t) /\ ~Running(t) /\ ~r.world /\ t \notin hit
        BY <1>3, <1>5, <1>7 DEF Kept
  <2>2. /\ r.seed = None /\ \A i \in DOMAIN r.ended : r.ended[i] = "ok"
        /\ r.checked = Len(r.ended) + 0
        BY <1>3, <1>5, <1>7 DEF Kept
  <2>3. OneRun(t)' /\ ~Running(t)' /\ Quiet(t)' /\ t \notin hit'
        BY <1>3, <2>1 DEF pvars, OneRun, Running, Quiet, In
  <2>4. QED BY <1>5, <2>1, <2>2, <2>3 DEF Kept
<1>9. Reported(t, r)'
      BY <1>5 DEF Reported
<1>10. SInv'
       BY <1>1, <1>3, <1>5, <1>8, <1>9, SInvFrom DEF pvars
<1>11. QED BY <1>6, <1>10 DEF IInv

\* The next seed.
LEMMA NextSeedKeeps == ASSUME IInv, NEW t \in Thread, NextSeed(t) PROVE IInv'
<1>1. /\ PInv /\ SInv /\ PType /\ sweep[t] \in Check /\ Kept(t, sweep[t])
      /\ interrupts \in 0..MaxInterrupts /\ replaces \in 0..MaxReplaced /\ byHand \in 0..MaxUser
      /\ hit \subseteq Interruptible
      BY OfThread
<1>2. PICK s \in Check : s = sweep[t]
      BY <1>1
<1>2a. PICK r : r = [s EXCEPT !.at = "run", !.checked = @ + 1, !.world = TRUE]
      OBVIOUS
<1>3. /\ s.at = "loop" /\ sweep' = [sweep EXCEPT ![t] = r] /\ Enter(t, s.kind, "run")
      /\ UNCHANGED <<interrupts, replaces, byHand, hit>>
      BY <1>2, <1>2a DEF NextSeed, Set, Enter
<1>4. /\ s.checked \in Nat /\ s.ended \in Seq(Outcome) /\ Len(s.ended) \in Nat
      /\ s.kind \in {"shim", "audit"}
      BY DEF Check
<1>5. /\ r \in Check /\ r.at = "run" /\ r.world /\ r.seed = s.seed
      /\ r.ended = s.ended /\ r.checked = s.checked + 1
  <2>1. PICK c \in Nat : c = s.checked + 1
        BY <1>4
  <2>2. r = [s EXCEPT !.at = "run", !.checked = c, !.world = TRUE]
        BY <1>2, <1>2a, <2>1
  <2>3. QED BY <2>1, <2>2 DEF Check
<1>6. Kept(t, s)
      BY <1>1, <1>2
<1>7. OneRun(t) /\ ~Running(t) /\ (frames[t] = << >> \/ In(t, "body")) /\ t \notin hit
      BY <1>3, <1>6 DEF Kept, Quiet
<1>8. PInv'
      BY <1>1, <1>3, <1>4, <1>7, EnterKeeps
<1>9. PICK g \in Frame : Pushes(t, g) /\ g.by = "run"
      BY <1>1, <1>3, <1>4, Entered
<1>10. OneRun(t)' /\ Running(t)'
       BY <1>1, <1>7, <1>9, PushRuns
<1>11. Kept(t, r)'
  <2>1. /\ r.seed = None /\ \A i \in DOMAIN r.ended : r.ended[i] = "ok"
        /\ r.checked = Len(r.ended) + 1
        BY <1>3, <1>4, <1>5, <1>6 DEF Kept
  <2>2. t \notin hit'
        BY <1>3, <1>7
  <2>3. QED BY <1>5, <1>10, <2>1, <2>2 DEF Kept
<1>12. Reported(t, r)'
       BY <1>5 DEF Reported
<1>13. \A u \in Thread : u # t => frames'[u] = frames[u]
       BY <1>1, <1>9, PushShape
<1>14. SInv'
       BY <1>1, <1>3, <1>5, <1>11, <1>12, <1>13, SInvFrom
<1>15. QED BY <1>8, <1>14 DEF IInv

\* All seeds have passed.
LEMMA AllPassedKeeps == ASSUME IInv, NEW t \in Thread, AllPassed(t) PROVE IInv'
<1>1. /\ PInv /\ SInv /\ sweep[t] \in Check /\ Kept(t, sweep[t])
      /\ interrupts \in 0..MaxInterrupts /\ replaces \in 0..MaxReplaced /\ byHand \in 0..MaxUser
      /\ hit \subseteq Interruptible
      BY OfThread
<1>2. PICK s \in Check : s = sweep[t]
      BY <1>1
<1>2a. PICK r : r = [s EXCEPT !.at = "over", !.result = "passed"]
      OBVIOUS
<1>3. /\ s.at = "loop" /\ s.checked = Count(s) /\ sweep' = [sweep EXCEPT ![t] = r]
      /\ UNCHANGED <<pvars, byHand, hit>>
      BY <1>2, <1>2a DEF AllPassed, Set
<1>4. /\ r \in Check /\ r.at = "over" /\ r.world = s.world /\ r.seed = s.seed /\ r.result = "passed"
      /\ r.ended = s.ended /\ r.checked = s.checked /\ r.call = s.call
      BY <1>2, <1>2a DEF Check
<1>5. PInv'
      BY <1>1, <1>3, PatchesStay DEF pvars
<1>6. Kept(t, s)
      BY <1>1, <1>2
<1>7. /\ OneRun(t) /\ ~Running(t) /\ ~r.world /\ t \notin hit
      /\ \A i \in DOMAIN r.ended : r.ended[i] = "ok"
      /\ s.checked = Len(r.ended) + 0
      BY <1>3, <1>4, <1>6 DEF Kept
<1>8. OneRun(t)' /\ ~Running(t)' /\ t \notin hit'
      BY <1>3, <1>7 DEF pvars, OneRun, Running
<1>9. Kept(t, r)'
      BY <1>4, <1>7, <1>8 DEF Kept
<1>10. Reported(t, r)'
  <2>1. /\ r.ended \in Seq(Outcome) /\ Len(r.ended) \in Nat /\ DOMAIN r.ended = 1..Len(r.ended)
        BY <1>4, CheckParts
  <2>2. \A i \in 1..(Len(r.ended) - 1) : i \in DOMAIN r.ended
        BY <2>1
  <2>3. Len(r.ended) = Count(r)
        BY <1>3, <1>4, <1>7, <2>1 DEF Count
  <2>4. r.ended # << >> => Last(r.ended) = "ok"
        BY <1>4, <1>7, LastOfOk
  <2>5. QED BY <1>4, <1>7, <1>8, <2>2, <2>3, <2>4 DEF Reported
<1>11. SInv'
       BY <1>1, <1>3, <1>4, <1>9, <1>10, SInvFrom DEF pvars
<1>12. QED BY <1>5, <1>11 DEF IInv

\* A step of the patches: set-up and restores.
LEMMA PatchStepKeeps == ASSUME IInv, NEW t \in Thread, PatchStep(t) PROVE IInv'
<1>1. /\ PInv /\ SInv /\ PType /\ Kept(t, sweep[t])
      /\ interrupts \in 0..MaxInterrupts /\ replaces \in 0..MaxReplaced /\ byHand \in 0..MaxUser
      BY OfThread
<1>2. /\ Acquire(t) \/ Setup(t) \/ RestoreTest(t) \/ RestoreSet(t)
      /\ UNCHANGED <<sweep, byHand, hit>>
      BY DEF PatchStep
<1>3. PInv'
      BY <1>1, <1>2, AcquireKeeps, SetupKeeps, RestoreTestKeeps, RestoreSetKeeps
<1>4. UNCHANGED <<interrupts, replaces, entered>>
      BY <1>2 DEF Acquire, Setup, RestoreTest, RestoreSet
<1>5. /\ frames[t] # << >> /\ ~Quiet(t)
      /\ \E g \in Frame :
            /\ SetTop(t, g) /\ g.id = Top(t).id /\ g.by = Top(t).by
            /\ In(t, "undo") => g.phase = "undo" /\ g.exc = Top(t).exc
  <2>1. CASE Acquire(t)
    <3>1. frames[t] # << >> /\ In(t, "wait")
          BY <2>1 DEF Acquire, In
    <3>2. Top(t) \in Frame
          BY <1>1, <3>1, TopOf
    <3>3. PICK g : g = [Top(t) EXCEPT !.phase = "setup"]
          OBVIOUS
    <3>4. g \in Frame /\ g.id = Top(t).id /\ g.by = Top(t).by
          BY <3>2, <3>3 DEF Frame
    <3>5. SetTop(t, g)
          BY <2>1, <3>3 DEF Acquire
    <3>6. QED BY <3>1, <3>4, <3>5, OnePhase
  <2>2. CASE Setup(t)
    <3>1. frames[t] # << >> /\ In(t, "setup") /\ Top(t).phase = "setup"
          BY <2>2 DEF Setup, In, Top
    <3>2. Top(t) \in Frame /\ PType /\ Prepares
          BY <1>1, <3>1, TopOf DEF PInv
    <3>3. PICK g, op, n : Executed(Top(t), g, op, n) /\ SetTop(t, g)
          BY <2>2, <3>1, <3>2, SetupExecutes
    <3>4. g \in Frame /\ g.id = Top(t).id /\ g.by = Top(t).by
          BY <3>3 DEF Executed
    <3>5. QED BY <3>1, <3>3, <3>4, OnePhase
  <2>3. CASE RestoreTest(t)
    <3>1. frames[t] # << >> /\ In(t, "undo") /\ Top(t).phase = "undo" /\ Top(t).undo # << >>
          BY <2>3 DEF RestoreTest, In, Top
    <3>2. Top(t) \in Frame
          BY <1>1, <3>1, TopOf
    <3>3. Tail(Top(t).undo) \in Seq(Name)
          BY <3>1, <3>2, FrameParts
    <3>4. PICK g : g = IF fn[Head(Top(t).undo)] = Top(t).id THEN [Top(t) EXCEPT !.ours = TRUE]
                                                             ELSE [Top(t) EXCEPT !.undo = Tail(@)]
          OBVIOUS
    <3>5. /\ g \in Frame /\ g.id = Top(t).id /\ g.by = Top(t).by
          /\ g.phase = "undo" /\ g.exc = Top(t).exc
      <4>1. CASE g = [Top(t) EXCEPT !.ours = TRUE]
            BY <3>1, <3>2, <4>1 DEF Frame
      <4>2. CASE g = [Top(t) EXCEPT !.undo = Tail(@)]
            BY <3>1, <3>2, <3>3, <4>2 DEF Frame
      <4>3. QED BY <3>4, <4>1, <4>2
    <3>6. SetTop(t, g)
          BY <2>3, <3>4 DEF RestoreTest
    <3>7. QED BY <3>1, <3>5, <3>6, OnePhase
  <2>4. CASE RestoreSet(t)
    <3>1. frames[t] # << >> /\ In(t, "undo") /\ Top(t).phase = "undo" /\ Top(t).undo # << >>
          BY <2>4 DEF RestoreSet, In, Top
    <3>2. Top(t) \in Frame
          BY <1>1, <3>1, TopOf
    <3>3. Tail(Top(t).undo) \in Seq(Name)
          BY <3>1, <3>2, FrameParts
    <3>4. PICK g : g = [Top(t) EXCEPT !.undo = Tail(@), !.ours = FALSE]
          OBVIOUS
    <3>5. /\ g \in Frame /\ g.id = Top(t).id /\ g.by = Top(t).by
          /\ g.phase = "undo" /\ g.exc = Top(t).exc
          BY <3>1, <3>2, <3>3, <3>4 DEF Frame
    <3>6. SetTop(t, g)
          BY <2>4, <3>4 DEF RestoreSet
    <3>7. QED BY <3>1, <3>5, <3>6, OnePhase
  <2>5. QED BY <1>2, <2>1, <2>2, <2>3, <2>4
<1>6. PICK g \in Frame :
         /\ Retop(t, g)
         /\ In(t, "undo") => g.phase = "undo" /\ g.exc = Top(t).exc
      BY <1>4, <1>5 DEF Retop
<1>7. \A u \in Thread : u # t => frames'[u] = frames[u]
      BY <1>1, <1>6, RetopShape
<1>8. /\ OneRun(t)' /\ (Running(t)' <=> Running(t))
      /\ Aborting(t)' <=> g.phase = "undo" /\ g.exc = "base"
      BY <1>1, <1>6, RetopRuns DEF Kept
<1>9. sweep[t].at # "loop"
      BY <1>1, <1>5 DEF Kept
<1>10. t \in hit /\ sweep[t].at = "run" => Aborting(t)'
  <2>1. HAVE t \in hit /\ sweep[t].at = "run"
  <2>2. Aborting(t)
        BY <1>1, <2>1 DEF Kept
  <2>3. QED BY <1>6, <1>8, <2>2 DEF Aborting
<1>11. SInv'
       BY <1>1, <1>2, <1>4, <1>7, <1>8, <1>9, <1>10, ChecksStay
<1>12. QED BY <1>3, <1>11 DEF IInv

\* A body ends.
LEMMA BodyEndsKeeps ==
    ASSUME IInv, NEW t \in Thread, NEW exc \in Outcome, BodyEnds(t, exc)
    PROVE  IInv'
<1>1. /\ PInv /\ SInv /\ PType /\ Kept(t, sweep[t])
      /\ interrupts \in 0..MaxInterrupts /\ replaces \in 0..MaxReplaced /\ byHand \in 0..MaxUser
      BY OfThread
<1>2. /\ sweep[t].at # "loop" /\ In(t, "body") /\ Leave(t, exc) /\ frames[t] # << >>
      /\ UNCHANGED <<sweep, byHand, hit, interrupts, replaces, entered>>
      BY DEF BodyEnds, InUserCode, Leave, In
<1>3. PInv'
      BY <1>1, <1>2, LeaveKeeps
<1>4. PICK g \in Frame : Retop(t, g)
  <2>1. Top(t) \in Frame
        BY <1>1, <1>2, TopOf
  <2>2. PICK g : g = [Top(t) EXCEPT !.phase = "undo", !.exc = exc]
        OBVIOUS
  <2>3. g \in Frame /\ g.id = Top(t).id /\ g.by = Top(t).by
        BY <2>1, <2>2 DEF Frame, Outcome
  <2>4. SetTop(t, g)
        BY <1>2, <2>2 DEF Leave
  <2>5. QED BY <1>2, <2>3, <2>4 DEF Retop
<1>5. \A u \in Thread : u # t => frames'[u] = frames[u]
      BY <1>1, <1>4, RetopShape
<1>6. OneRun(t)' /\ (Running(t)' <=> Running(t))
      BY <1>1, <1>4, RetopRuns DEF Kept
<1>7. ~(t \in hit /\ sweep[t].at = "run")
  <2>1. ~Aborting(t)
        BY <1>2, OnePhase DEF Aborting
  <2>2. QED BY <1>1, <2>1 DEF Kept
<1>8. SInv'
      BY <1>1, <1>2, <1>5, <1>6, <1>7, ChecksStay
<1>9. QED BY <1>3, <1>8 DEF IInv

\* What a run comes to: its context is left with exc, and check() goes on.
LEMMA RunOver ==
    ASSUME IInv, NEW t \in Thread, NEW exc \in Outcome, Pops(t, exc), Top(t).by = "run",
           NEW r, r = After(sweep[t], exc),
           t \in hit' => exc = "base"
    PROVE  r \in Check /\ Kept(t, r)' /\ Reported(t, r)' /\ sweep[t].at = "run"
<1>1. PType /\ Stacked /\ sweep[t] \in Check /\ Kept(t, sweep[t])
      BY OfThread
<1>2. PICK s \in Check : s = sweep[t] /\ Kept(t, s) /\ r = After(s, exc)
      BY <1>1
<1>3. OneRun(t)' /\ Running(t) /\ ~Running(t)' /\ (exc # "base" => Quiet(t)')
  <2>1. OneRun(t)
        BY <1>2 DEF Kept
  <2>2. QED BY <1>1, <2>1, PopRuns
<1>4. /\ s.at = "run" /\ s.seed = None
      /\ \A i \in DOMAIN s.ended : s.ended[i] = "ok"
      /\ s.checked = Len(s.ended) + 1
      BY <1>2, <1>3 DEF Kept
<1>5. /\ r \in Check /\ ~r.world /\ Len(r.ended) = s.checked /\ r.checked = s.checked
      /\ \A i \in 1..(Len(r.ended) - 1) : r.ended[i] = "ok"
      /\ r.at = "loop" <=> exc = "ok"
      /\ r.at = "over" <=> exc # "ok"
      /\ exc = "ok" => r.seed = None /\ \A i \in DOMAIN r.ended : r.ended[i] = "ok"
      /\ exc # "ok" =>
            /\ r.ended # << >> /\ Last(r.ended) = exc
            /\ Tagged(r, exc) =>
                  /\ r.result = IF r.call = "return" THEN "returned" ELSE "raised"
                  /\ r.seed = r.checked
            /\ ~Tagged(r, exc) => r.result = "untagged" /\ r.seed = None
      BY <1>2, <1>4, AfterIs
<1>6. r.at # "run" /\ s.checked \in Nat
      BY <1>5, CheckParts
<1>7. Kept(t, r)'
  <2>1. CASE exc = "ok"
    <3>1. t \notin hit' /\ Quiet(t)' /\ r.at = "loop"
          BY <1>3, <1>5, <2>1
    <3>2. r.checked = Len(r.ended) + 0
          BY <1>5, <1>6
    <3>3. QED BY <1>3, <1>5, <1>6, <2>1, <3>1, <3>2 DEF Kept
  <2>2. CASE exc # "ok"
    <3>1. r.at = "over"
          BY <1>5, <2>2
    <3>2. QED BY <1>3, <1>5, <3>1 DEF Kept
  <2>3. QED BY <2>1, <2>2
<1>8. Reported(t, r)'
  <2>1. Tagged(r, exc) <=> exc = "fail" /\ r.call # "replay"
        BY DEF Tagged
  <2>2. CASE exc = "ok"
        BY <1>5, <2>2 DEF Reported
  <2>3. CASE exc # "ok" /\ Tagged(r, exc)
    <3>1. t \notin hit' /\ r.result \notin {"passed", "untagged"}
          BY <1>5, <2>1, <2>3
    <3>2. QED BY <1>5, <2>1, <2>3, <3>1 DEF Reported
  <2>4. CASE exc # "ok" /\ ~Tagged(r, exc)
        BY <1>5, <2>1, <2>4 DEF Reported
  <2>5. QED BY <2>2, <2>3, <2>4
<1>9. QED BY <1>2, <1>4, <1>5, <1>7, <1>8

\* A context is over.
LEMMA ContextEndsKeeps == ASSUME IInv, NEW t \in Thread, ContextEnds(t) PROVE IInv'
<1>1. /\ PInv /\ SInv /\ PType /\ Stacked /\ sweep[t] \in Check /\ Kept(t, sweep[t])
      /\ interrupts \in 0..MaxInterrupts /\ replaces \in 0..MaxReplaced /\ byHand \in 0..MaxUser
      /\ hit \subseteq Interruptible
      BY OfThread
<1>2. /\ Release(t) /\ In(t, "undo") /\ frames[t] # << >>
      /\ UNCHANGED <<byHand, hit, interrupts, replaces>>
      BY DEF ContextEnds, Release, In
<1>3. PInv'
      BY <1>1, <1>2, ReleaseKeeps
<1>4. PICK exc \in Outcome : exc = Top(t).exc
  <2>1. Top(t) \in Frame
        BY <1>1, <1>2, TopOf
  <2>2. Top(t).exc \in Outcome
        BY <2>1, FrameParts DEF Outcome
  <2>3. QED BY <2>2, Zenon
<1>5. Pops(t, exc)
      BY <1>2, <1>4 DEF Release, Pops
<1>6. \A u \in Thread : u # t => frames'[u] = frames[u]
      BY <1>1, <1>5, PopShape
<1>7. CASE Top(t).by = "run"
  <2>1. PICK r : r = After(sweep[t], exc)
        OBVIOUS
  <2>2. sweep' = [sweep EXCEPT ![t] = r]
        BY <1>4, <1>7, <2>1 DEF ContextEnds, Set
  <2>3. t \in hit' => exc = "base"
    <3>1. OneRun(t)
          BY <1>1 DEF Kept
    <3>2. Running(t)
          BY <1>1, <1>5, <1>7, <3>1, PopRuns
    <3>3. t \in hit => Aborting(t)
          BY <1>1, <3>2 DEF Kept
    <3>4. QED BY <1>2, <1>4, <3>3 DEF Aborting
  <2>4. r \in Check /\ Kept(t, r)' /\ Reported(t, r)'
        BY <1>5, <1>7, <2>1, <2>3, RunOver
  <2>5. SInv'
        BY <1>1, <1>2, <1>6, <2>2, <2>4, SInvFrom
  <2>6. QED BY <1>3, <2>5 DEF IInv
<1>8. CASE Top(t).by # "run"
  <2>1. UNCHANGED sweep
        BY <1>8 DEF ContextEnds
  <2>2. OneRun(t)
        BY <1>1 DEF Kept
  <2>3. /\ OneRun(t)' /\ (Running(t)' <=> Running(t))
        /\ exc = "base" /\ Running(t) => Aborting(t)'
        BY <1>1, <1>5, <1>8, <2>2, PopRuns
  <2>4. sweep[t].at # "loop"
        BY <1>1, <1>2, OnePhase DEF Kept
  <2>5. t \in hit /\ sweep[t].at = "run" => Aborting(t)'
    <3>1. HAVE t \in hit /\ sweep[t].at = "run"
    <3>2. Aborting(t) /\ Running(t)
          BY <1>1, <3>1 DEF Kept
    <3>3. QED BY <1>4, <2>3, <3>2 DEF Aborting
  <2>6. SInv'
        BY <1>1, <1>2, <1>6, <2>1, <2>3, <2>4, <2>5, ChecksStay
  <2>7. QED BY <1>3, <2>6 DEF IInv
<1>9. QED BY <1>7, <1>8

\* An interrupt in a set-up, a body or a restore.
LEMMA InterruptInsideKeeps ==
    ASSUME IInv, NEW t \in Thread, Interrupt(t), InterruptEntered(t) \/ InterruptRestore(t),
           IF sweep[t].at = "loop"
           THEN Set(t, [sweep[t] EXCEPT !.at = "over", !.result = "untagged"])
           ELSE UNCHANGED sweep
    PROVE  IInv'
<1>1. /\ PInv /\ SInv /\ PType /\ sweep[t] \in Check /\ Kept(t, sweep[t])
      /\ Reported(t, sweep[t])
      /\ interrupts \in 0..MaxInterrupts /\ replaces \in 0..MaxReplaced /\ byHand \in 0..MaxUser
      /\ hit \subseteq Interruptible
      BY OfThread
<1>2. /\ t \in Interruptible /\ interrupts' \in 0..MaxInterrupts /\ UNCHANGED <<byHand, replaces, entered>>
      /\ hit' = IF sweep[t].at \in {"loop", "run"} THEN hit \cup {t} ELSE hit
  <2>1. interrupts < MaxInterrupts /\ interrupts' = interrupts + 1
        BY DEF Interrupt
  <2>2. interrupts' \in 0..MaxInterrupts
        BY <1>1, <2>1, PatchingAssumption
  <2>3. t \in Interruptible /\ UNCHANGED byHand
        BY DEF Interrupt
  <2>4. hit' = IF sweep[t].at \in {"loop", "run"} THEN hit \cup {t} ELSE hit
        BY DEF Interrupt
  <2>5. UNCHANGED <<replaces, entered>>
        BY DEF InterruptEntered, InterruptRestore
  <2>6. QED BY <2>2, <2>3, <2>4, <2>5
<1>3. PInv'
      BY <1>1, InterruptEnteredKeeps, InterruptRestoreKeeps
<1>4. PICK g \in Frame : Retop(t, g) /\ g.phase = "undo" /\ g.exc = "base"
  <2>1. CASE InterruptEntered(t)
    <3>1. frames[t] # << >> /\ SetTop(t, [Top(t) EXCEPT !.phase = "undo", !.exc = "base"])
          BY <2>1 DEF InterruptEntered, In
    <3>2. Top(t) \in Frame
          BY <1>1, <3>1, TopOf
    <3>3. PICK g : g = [Top(t) EXCEPT !.phase = "undo", !.exc = "base"]
          OBVIOUS
    <3>4. /\ g \in Frame /\ g.id = Top(t).id /\ g.by = Top(t).by /\ g.phase = "undo"
          /\ g.exc = "base"
          BY <3>2, <3>3 DEF Frame
    <3>5. QED BY <1>2, <3>1, <3>3, <3>4 DEF Retop
  <2>2. CASE InterruptRestore(t)
    <3>1. /\ frames[t] # << >> /\ Top(t).phase = "undo" /\ Top(t).undo # << >>
          /\ SetTop(t, [Top(t) EXCEPT !.undo = Tail(@), !.ours = FALSE, !.exc = "base"])
          BY <2>2 DEF InterruptRestore, In, Top
    <3>2. Top(t) \in Frame
          BY <1>1, <3>1, TopOf
    <3>3. Tail(Top(t).undo) \in Seq(Name)
          BY <3>1, <3>2, FrameParts
    <3>4. PICK g : g = [Top(t) EXCEPT !.undo = Tail(@), !.ours = FALSE, !.exc = "base"]
          OBVIOUS
    <3>5. /\ g \in Frame /\ g.id = Top(t).id /\ g.by = Top(t).by /\ g.phase = "undo"
          /\ g.exc = "base"
          BY <3>1, <3>2, <3>3, <3>4 DEF Frame
    <3>6. QED BY <1>2, <3>1, <3>4, <3>5 DEF Retop
  <2>3. QED BY <2>1, <2>2
<1>5. \A u \in Thread : u # t => frames'[u] = frames[u] /\ (u \in hit' <=> u \in hit)
  <2>1. \A u \in Thread : u # t => frames'[u] = frames[u]
        BY <1>1, <1>4, RetopShape
  <2>2. \A u \in Thread : u # t => (u \in hit' <=> u \in hit)
        BY <1>2
  <2>3. QED BY <2>1, <2>2
<1>6. OneRun(t)' /\ (Running(t)' <=> Running(t)) /\ Aborting(t)'
      BY <1>1, <1>4, RetopRuns DEF Kept
<1>7. hit' \subseteq Interruptible
      BY <1>1, <1>2
<1>8. PICK s \in Check : s = sweep[t] /\ Kept(t, s) /\ Reported(t, s)
      BY <1>1
<1>9. replaces' \in 0..MaxReplaced /\ byHand' \in 0..MaxUser
      BY <1>1, <1>2
<1>10. CASE s.at = "loop"
  <2>1. PICK r : r = [s EXCEPT !.at = "over", !.result = "untagged"]
        OBVIOUS
  <2>2. /\ r \in Check /\ r.at = "over" /\ r.world = s.world /\ r.seed = s.seed
        /\ r.result = "untagged" /\ r.ended = s.ended
        BY <2>1 DEF Check
  <2>3. sweep' = [sweep EXCEPT ![t] = r]
        BY <1>8, <1>10, <2>1 DEF Set
  <2>4. ~Running(t) /\ ~r.world /\ r.seed = None /\ \A i \in DOMAIN r.ended : r.ended[i] = "ok"
        BY <1>8, <1>10, <2>2 DEF Kept
  <2>5. Kept(t, r)'
        BY <1>6, <2>2, <2>4 DEF Kept
  <2>6. Reported(t, r)'
    <3>1. \A i \in 1..(Len(r.ended) - 1) : i \in DOMAIN r.ended
          BY <2>2, CheckParts
    <3>2. r.ended # << >> => Last(r.ended) = "ok"
          BY <2>2, <2>4, LastOfOk
    <3>3. QED BY <2>2, <2>4, <3>1, <3>2 DEF Reported
  <2>7. SInv'
        BY <1>1, <1>2, <1>5, <1>7, <1>9, <2>2, <2>3, <2>5, <2>6, SInvFrom
  <2>8. QED BY <1>3, <2>7 DEF IInv
<1>11. CASE s.at # "loop"
  <2>1. sweep' = [sweep EXCEPT ![t] = s]
    <3>1. UNCHANGED sweep
          BY <1>8, <1>11
    <3>2. QED BY <1>1, <1>8, <3>1 DEF SInv, SType
  <2>2. t \in hit' => s.at = "run" \/ t \in hit
        BY <1>2, <1>8, <1>11
  <2>3. Kept(t, s)'
    <3>1. t \in hit' => (s.at = "run" /\ Aborting(t)') \/ s.at = "over"
          BY <1>6, <1>8, <2>2 DEF Kept
    <3>2. QED BY <1>6, <1>8, <1>11, <3>1 DEF Kept
  <2>4. Reported(t, s)'
        BY <1>8, <2>2 DEF Reported
  <2>5. SInv'
        BY <1>1, <1>2, <1>5, <1>7, <1>9, <2>1, <2>3, <2>4, SInvFrom
  <2>6. QED BY <1>3, <2>5 DEF IInv
<1>12. QED BY <1>10, <1>11

\* An interrupt while a thread waits for the lock.
LEMMA InterruptWaitingKeeps ==
    ASSUME IInv, NEW t \in Thread, Interrupt(t), InterruptWait(t),
           IF Top(t).by = "run" THEN Set(t, After(sweep[t], "base")) ELSE UNCHANGED sweep
    PROVE  IInv'
<1>1. /\ PInv /\ SInv /\ PType /\ Stacked /\ sweep[t] \in Check /\ Kept(t, sweep[t])
      /\ Reported(t, sweep[t])
      /\ interrupts \in 0..MaxInterrupts /\ replaces \in 0..MaxReplaced /\ byHand \in 0..MaxUser
      /\ hit \subseteq Interruptible
      BY OfThread
<1>2. /\ t \in Interruptible /\ interrupts' \in 0..MaxInterrupts /\ UNCHANGED <<byHand, replaces>>
      /\ hit' = IF sweep[t].at \in {"loop", "run"} THEN hit \cup {t} ELSE hit
  <2>1. interrupts < MaxInterrupts /\ interrupts' = interrupts + 1
        BY DEF Interrupt
  <2>2. interrupts' \in 0..MaxInterrupts
        BY <1>1, <2>1, PatchingAssumption
  <2>3. t \in Interruptible /\ UNCHANGED byHand
        BY DEF Interrupt
  <2>4. hit' = IF sweep[t].at \in {"loop", "run"} THEN hit \cup {t} ELSE hit
        BY DEF Interrupt
  <2>5. UNCHANGED replaces
        BY DEF InterruptWait
  <2>6. QED BY <2>2, <2>3, <2>4, <2>5
<1>3. PInv'
      BY <1>1, InterruptWaitKeeps
<1>4. Pops(t, "base") /\ In(t, "wait")
      BY DEF InterruptWait, Pops, In
<1>5. \A u \in Thread : u # t => frames'[u] = frames[u] /\ (u \in hit' <=> u \in hit)
  <2>1. \A u \in Thread : u # t => frames'[u] = frames[u]
        BY <1>1, <1>4, PopShape
  <2>2. \A u \in Thread : u # t => (u \in hit' <=> u \in hit)
        BY <1>2
  <2>3. QED BY <2>1, <2>2
<1>6. hit' \subseteq Interruptible /\ replaces' \in 0..MaxReplaced /\ byHand' \in 0..MaxUser
      BY <1>1, <1>2
<1>7. CASE Top(t).by = "run"
  <2>1. PICK r : r = After(sweep[t], "base")
        OBVIOUS
  <2>2. sweep' = [sweep EXCEPT ![t] = r]
        BY <1>7, <2>1 DEF Set
  <2>3. r \in Check /\ Kept(t, r)' /\ Reported(t, r)'
    <3>1. "base" \in Outcome
          BY DEF Outcome
    <3>2. QED BY <1>4, <1>7, <2>1, <3>1, RunOver
  <2>4. SInv'
        BY <1>1, <1>2, <1>5, <1>6, <2>2, <2>3, SInvFrom
  <2>5. QED BY <1>3, <2>4 DEF IInv
<1>8. CASE Top(t).by # "run"
  <2>1. PICK s \in Check : s = sweep[t] /\ Kept(t, s) /\ Reported(t, s)
        BY <1>1
  <2>2. sweep' = [sweep EXCEPT ![t] = s]
    <3>1. UNCHANGED sweep
          BY <1>8
    <3>2. QED BY <1>1, <2>1, <3>1 DEF SInv, SType
  <2>3. OneRun(t)' /\ (Running(t)' <=> Running(t)) /\ (Running(t) => Aborting(t)')
    <3>1. OneRun(t)
          BY <2>1 DEF Kept
    <3>2. QED BY <1>1, <1>4, <1>8, <3>1, PopRuns
  <2>4. s.at # "loop"
        BY <1>4, <2>1, OnePhase DEF Kept
  <2>5. t \in hit' => s.at = "run" \/ t \in hit
        BY <1>2, <2>1, <2>4
  <2>6. Kept(t, s)'
    <3>1. t \in hit' => (s.at = "run" /\ Aborting(t)') \/ s.at = "over"
          BY <2>1, <2>3, <2>5 DEF Kept
    <3>2. QED BY <2>1, <2>3, <2>4, <3>1 DEF Kept
  <2>7. Reported(t, s)'
        BY <2>1, <2>5 DEF Reported
  <2>8. SInv'
        BY <1>1, <1>2, <1>5, <1>6, <2>2, <2>6, <2>7, SInvFrom
  <2>9. QED BY <1>3, <2>8 DEF IInv
<1>9. QED BY <1>7, <1>8

\* An interrupt in check()'s loop, outside every context.
LEMMA InterruptLoopKeeps ==
    ASSUME IInv, NEW t \in Thread, Interrupt(t), sweep[t].at = "loop", frames[t] = << >>,
           Set(t, [sweep[t] EXCEPT !.at = "over", !.result = "untagged"]),
           UNCHANGED <<fn, orig, entered, lock, frames, replaces, replaced, raced, cut>>
    PROVE  IInv'
<1>1. /\ PInv /\ SInv /\ sweep[t] \in Check /\ Kept(t, sweep[t])
      /\ interrupts \in 0..MaxInterrupts /\ replaces \in 0..MaxReplaced /\ byHand \in 0..MaxUser
      /\ hit \subseteq Interruptible
      BY OfThread
<1>2. /\ t \in Interruptible /\ interrupts' \in 0..MaxInterrupts /\ UNCHANGED byHand
      /\ hit' = hit \cup {t}
  <2>1. interrupts < MaxInterrupts /\ interrupts' = interrupts + 1
        BY DEF Interrupt
  <2>2. interrupts' \in 0..MaxInterrupts
        BY <1>1, <2>1, PatchingAssumption
  <2>3. t \in Interruptible /\ UNCHANGED byHand /\ hit' = hit \cup {t}
        BY DEF Interrupt
  <2>4. QED BY <2>2, <2>3
<1>3. PInv'
      BY <1>1, PatchesStay
<1>4. PICK s \in Check : s = sweep[t] /\ Kept(t, s) /\ s.at = "loop"
      BY <1>1
<1>4a. PICK r : r = [s EXCEPT !.at = "over", !.result = "untagged"]
      OBVIOUS
<1>5. /\ r \in Check /\ r.at = "over" /\ r.world = s.world /\ r.seed = s.seed
      /\ r.result = "untagged" /\ r.ended = s.ended
      BY <1>4, <1>4a DEF Check
<1>6. sweep' = [sweep EXCEPT ![t] = r]
      BY <1>4, <1>4a DEF Set
<1>7. /\ OneRun(t) /\ ~Running(t) /\ ~r.world /\ r.seed = None
      /\ \A i \in DOMAIN r.ended : r.ended[i] = "ok"
      BY <1>4, <1>4a, <1>5 DEF Kept
<1>8. OneRun(t)' /\ ~Running(t)'
      BY <1>7 DEF OneRun, Running
<1>9. Kept(t, r)'
      BY <1>5, <1>7, <1>8 DEF Kept
<1>10. Reported(t, r)'
  <2>1. \A i \in 1..(Len(r.ended) - 1) : i \in DOMAIN r.ended
        BY <1>5, CheckParts
  <2>2. r.ended # << >> => Last(r.ended) = "ok"
        BY <1>5, <1>7, LastOfOk
  <2>3. QED BY <1>5, <1>7, <2>1, <2>2 DEF Reported
<1>11. SInv'
       BY <1>1, <1>2, <1>5, <1>6, <1>9, <1>10, SInvFrom
<1>12. QED BY <1>3, <1>11 DEF IInv

\* Other code replaces a function.
LEMMA ReplacementKeeps == ASSUME IInv, Replacement PROVE IInv'
<1>1. /\ PInv /\ SInv
      BY DEF IInv
<1>2. PICK n \in Name : Replace(n)
      BY DEF Replacement
<1>3. PInv'
      BY <1>1, <1>2, ReplaceKeeps
<1>4. UNCHANGED <<sweep, byHand, hit, frames, interrupts>>
      BY <1>2 DEF Replacement, Replace
<1>5. replaces' \in 0..MaxReplaced
      BY <1>1, <1>2, PatchingAssumption DEF SInv, SType, Replace
<1>6. SType'
      BY <1>1, <1>4, <1>5 DEF SInv, SType
<1>7. ASSUME NEW u \in Thread PROVE Kept(u, sweep[u])' /\ Reported(u, sweep[u])'
  <2>1. Kept(u, sweep[u]) /\ Reported(u, sweep[u])
        BY <1>1 DEF SInv
  <2>2. Kept(u, sweep[u])'
        BY <1>4, <2>1 DEF Kept, OneRun, Running, Quiet, Aborting, In, Top
  <2>3. Reported(u, sweep[u])'
        BY <1>4, <2>1 DEF Reported
  <2>4. QED BY <2>2, <2>3
<1>8. SInv'
      BY <1>6, <1>7 DEF SInv
<1>9. QED BY <1>3, <1>8 DEF IInv

-----------------------------------------------------------------------------
(* The theorems.                                                           *)

\* The invariant holds at first: nothing is patched and no check() runs.
LEMMA InvInit == ASSUME Init PROVE IInv
<1>1. /\ fn = [n \in Name |-> Real] /\ orig = [c \in Context |-> [n \in Name |-> Real]]
      /\ entered = [t \in Thread |-> 0] /\ lock = [by |-> None, count |-> 0]
      /\ frames = [t \in Thread |-> << >>] /\ interrupts = 0 /\ replaces = 0
      /\ replaced = {} /\ raced = {} /\ cut = {} /\ byHand = 0 /\ hit = {}
      BY DEF Init, PInit
<1>2. \A t \in Thread : /\ frames[t] = << >> /\ entered[t] = 0 /\ DOMAIN frames[t] = {}
                        /\ Len(frames[t]) = 0 /\ \A phase : ~In(t, phase)
      BY <1>1 DEF In
<1>3. /\ Real \notin Context /\ Other \notin Context \cup {Real} /\ None \notin Thread
      /\ MaxContexts \in Nat /\ MaxInterrupts \in Nat /\ MaxReplaced \in Nat /\ MaxUser \in Nat
      BY PatchingAssumption, SweepAssumption
<1>4. PType
  <2>1. frames \in [Thread -> Seq(Frame)]
    <3>1. << >> \in Seq(Frame)
          OBVIOUS
    <3>2. QED BY <1>1, <3>1
  <2>2. Real \in Function
        BY DEF Function
  <2>3. fn \in [Name -> Function] /\ orig \in [Context -> [Name -> Function]]
        BY <1>1, <2>2
  <2>4. entered \in [Thread -> 0..MaxContexts] /\ 0 \in 0..MaxContexts
        BY <1>1, <1>3
  <2>5. lock \in [by : Thread \cup {None}, count : 0..MaxContexts]
        BY <1>1, <2>4
  <2>6. QED BY <1>1, <2>1, <2>3, <2>4, <2>5 DEF PType
<1>5. Stacked
      BY <1>2 DEF Stacked
<1>6. Locked
  <2>1. \A t \in Thread : Passed(t) = 0 /\ t # None
        BY <1>2, <1>3 DEF Passed
  <2>2. lock.by = None /\ lock.count = 0
        BY <1>1
  <2>3. QED BY <2>1, <2>2 DEF Locked
<1>7. Prepares
      BY <1>2 DEF Prepares
<1>8. Owned
  <2>1. \A n \in Name : fn[n] \notin Context
        BY <1>1, <1>3
  <2>2. QED BY <1>2, <2>1 DEF Owned
<1>9. Unread /\ Unreplaced
  <2>1. \A c \in Context, n \in Name : orig[c][n] = Real /\ fn[n] = Real
        BY <1>1
  <2>2. \A t \in Thread, k \in 1..MaxContexts : <<t, k>> \in Context
        BY DEF Context
  <2>3. Unread
    <3>1. ASSUME NEW t \in Thread, NEW k \in 1..MaxContexts, NEW n \in Name
          PROVE  orig[<<t, k>>][n] = Real
          BY <2>1, <2>2, Zenon
    <3>2. QED BY <3>1, Zenon DEF Unread
  <2>4. Unreplaced
    <3>1. Real # Other
          BY <1>3
    <3>2. ASSUME NEW n \in Name
          PROVE  fn[n] # Other /\ \A c \in Context : orig[c][n] # Other
      <4>1. fn[n] = Real
            BY <1>1
      <4>2. \A c \in Context : orig[c][n] = Real
            BY <2>1, Zenon
      <4>3. QED BY <3>1, <4>1, <4>2
    <3>3. QED BY <3>2 DEF Unreplaced
  <2>5. QED BY <2>3, <2>4
<1>10. Replacements
       BY <1>1 DEF Replacements
<1>11. PInv
       BY <1>4, <1>5, <1>6, <1>7, <1>8, <1>9, <1>10 DEF PInv
<1> DEFINE s == [at |-> "idle", call |-> "raise", kind |-> "shim", checked |-> 0,
                 world |-> FALSE, ended |-> << >>, result |-> "none", seed |-> None]
<1>12. s \in Check
  <2>1. << >> \in Seq(Outcome) /\ 0 \in Nat
        OBVIOUS
  <2>2. QED BY <2>1 DEF Check
<1>13. sweep = [t \in Thread |-> s]
       BY DEF Init
<1>14. SType
       BY <1>1, <1>3, <1>12, <1>13 DEF SType
<1>15. ASSUME NEW t \in Thread PROVE Kept(t, sweep[t]) /\ Reported(t, sweep[t])
  <2>1. /\ s.at = "idle" /\ s.ended = << >> /\ s.checked = 0 /\ ~s.world /\ s.seed = None
        OBVIOUS
  <2>2. sweep[t] = s
        BY <1>13
  <2> HIDE DEF s
  <2>3. OneRun(t) /\ ~Running(t) /\ t \notin hit
        BY <1>1, <1>2 DEF OneRun, Running
  <2>4. s.checked = Len(s.ended) + 0 /\ DOMAIN s.ended = {}
        BY <2>1
  <2>5. Kept(t, s) /\ Reported(t, s)
        BY <2>1, <2>3, <2>4 DEF Kept, Reported
  <2>6. QED BY <2>2, <2>5
<1>16. QED BY <1>11, <1>14, <1>15 DEF IInv, SInv

\* Every step keeps the invariant.
LEMMA InvNext == ASSUME IInv, [Next]_vars PROVE IInv'
<1>1. CASE UNCHANGED vars
  <2>1. PInv'
        BY <1>1, PatchesStay DEF IInv, vars, pvars
  <2>2. UNCHANGED <<sweep, byHand, hit, frames, interrupts, replaces>>
        BY <1>1 DEF vars, pvars
  <2>3. SType'
        BY <2>2 DEF IInv, SInv, SType
  <2>4. ASSUME NEW u \in Thread PROVE Kept(u, sweep[u])' /\ Reported(u, sweep[u])'
    <3>1. Kept(u, sweep[u]) /\ Reported(u, sweep[u])
          BY DEF IInv, SInv
    <3>2. Kept(u, sweep[u])'
          BY <2>2, <3>1 DEF Kept, OneRun, Running, Quiet, Aborting, In, Top
    <3>3. Reported(u, sweep[u])'
          BY <2>2, <3>1 DEF Reported
    <3>4. QED BY <3>2, <3>3
  <2>5. QED BY <2>1, <2>3, <2>4 DEF IInv, SInv
<1>2. CASE \E t \in Thread : \E kind \in {"shim", "audit"} : EnterByHand(t, kind)
      BY <1>2, EnterByHandKeeps
<1>3. CASE \E t \in Thread : \E option \in Options[t] : Begin(t, option)
      BY <1>3, BeginKeeps
<1>4. CASE \E t \in Thread : Proceed(t)
  <2>1. PICK t \in Thread : Proceed(t)
        BY <1>4
  <2>2. \/ NextSeed(t) \/ AllPassed(t) \/ PatchStep(t) \/ ContextEnds(t)
        \/ \E exc \in Outcome : BodyEnds(t, exc)
        BY <2>1 DEF Proceed
  <2>3. QED BY <2>2, NextSeedKeeps, AllPassedKeeps, PatchStepKeeps, ContextEndsKeeps, BodyEndsKeeps
<1>5. CASE \E t \in Thread : Interrupt(t)
  <2>1. PICK t \in Thread : Interrupt(t)
        BY <1>5
  <2>2. CASE /\ InterruptEntered(t) \/ InterruptRestore(t)
             /\ IF sweep[t].at = "loop"
                THEN Set(t, [sweep[t] EXCEPT !.at = "over", !.result = "untagged"])
                ELSE UNCHANGED sweep
        BY <2>1, <2>2, InterruptInsideKeeps
  <2>3. CASE /\ InterruptWait(t)
             /\ IF Top(t).by = "run" THEN Set(t, After(sweep[t], "base")) ELSE UNCHANGED sweep
        BY <2>1, <2>3, InterruptWaitingKeeps
  <2>4. CASE /\ sweep[t].at = "loop" /\ frames[t] = << >>
             /\ Set(t, [sweep[t] EXCEPT !.at = "over", !.result = "untagged"])
             /\ UNCHANGED <<fn, orig, entered, lock, frames, replaces, replaced, raced, cut>>
        BY <2>1, <2>4, InterruptLoopKeeps
  <2>5. QED BY <2>1, <2>2, <2>3, <2>4, Zenon DEF Interrupt
<1>6. CASE Replacement
      BY <1>6, ReplacementKeeps
<1>7. QED BY <1>1, <1>2, <1>3, <1>4, <1>5, <1>6, Zenon DEF Next

\* The invariant holds in every reachable state.
THEOREM Invariance == Spec => []IInv
<1>1. Init => IInv
      BY InvInit
<1>2. IInv /\ [Next]_vars => IInv'
      BY InvNext
<1>3. QED BY <1>1, <1>2, PTL DEF Spec

\* Every step keeps the order of the wrappers.
LEMMA NestNext == ASSUME IInv, NInv, [Next]_vars PROVE NInv'
<1>1. PInv
      BY DEF IInv
<1>2. CASE UNCHANGED <<fn, orig, frames, replaced>>
      BY <1>1, <1>2, StacksStay
<1>3. ASSUME NEW t \in Thread, NEW kind \in {"shim", "audit"}, EnterByHand(t, kind) PROVE NInv'
      BY <1>1, <1>3, EnterNested DEF EnterByHand, InUserCode
<1>4. ASSUME NEW t \in Thread, NEW option \in Options[t], Begin(t, option) PROVE NInv'
      BY <1>2, <1>4 DEF Begin, pvars
<1>5. ASSUME NEW t \in Thread, NextSeed(t) PROVE NInv'
  <2>1. /\ sweep[t].at = "loop" /\ Enter(t, sweep[t].kind, "run") /\ Kept(t, sweep[t])
        /\ sweep[t].kind \in {"shim", "audit"}
        BY <1>5 DEF NextSeed, IInv, SInv, SType, Check
  <2>2. frames[t] = << >> \/ In(t, "body")
        BY <2>1 DEF Kept, Quiet
  <2>3. QED BY <1>1, <2>1, <2>2, EnterNested
<1>6. ASSUME NEW t \in Thread, AllPassed(t) PROVE NInv'
      BY <1>2, <1>6 DEF AllPassed, pvars
<1>7. ASSUME NEW t \in Thread, PatchStep(t) PROVE NInv'
      BY <1>1, <1>7, AcquireNested, SetupNested, RestoreTestNested, RestoreSetNested DEF PatchStep
<1>8. ASSUME NEW t \in Thread, NEW exc \in Outcome, BodyEnds(t, exc) PROVE NInv'
      BY <1>1, <1>8, LeaveNested DEF BodyEnds
<1>9. ASSUME NEW t \in Thread, ContextEnds(t) PROVE NInv'
      BY <1>1, <1>9, ReleaseNested DEF ContextEnds
<1>10. ASSUME NEW t \in Thread, Interrupt(t) PROVE NInv'
  <2>1. \/ InterruptEntered(t) \/ InterruptRestore(t) \/ InterruptWait(t)
        \/ UNCHANGED <<fn, orig, frames, replaced>>
        BY <1>10 DEF Interrupt
  <2>2. QED BY <1>1, <1>2, <2>1, InterruptEnteredNested, InterruptRestoreNested, InterruptWaitNested
<1>11. ASSUME NEW n \in Name, Replace(n) PROVE NInv'
  <2>1. /\ UNCHANGED <<orig, frames>> /\ replaced' = replaced \cup {n}
        /\ fn' = [fn EXCEPT ![n] = Other]
        BY <1>11 DEF Replace
  <2>2. \A m \in Name \ replaced' : fn'[m] = fn[m]
        BY <1>1, <2>1 DEF PInv, PType
  <2>3. QED BY <1>1, <2>1, <2>2, StacksStay
<1>12. CASE UNCHANGED vars
       BY <1>2, <1>12 DEF vars, pvars
<1>13. CASE \E t \in Thread : Proceed(t)
       BY <1>5, <1>6, <1>7, <1>8, <1>9, <1>13 DEF Proceed
<1>14. QED BY <1>3, <1>4, <1>10, <1>11, <1>12, <1>13 DEF Next, Replacement

\* The wrappers of a thread lie on each other as its contexts do.
THEOREM WrappersNest == Spec => []NInv
<1>1. Init => NInv
  <2>1. ASSUME Init PROVE \A u \in Thread : frames[u] = << >> /\ DOMAIN frames[u] = {}
        BY <2>1 DEF Init, PInit
  <2>2. QED BY <2>1 DEF NInv, RestoredOnce, Nested, Nests, Innermost
<1>2. IInv /\ NInv /\ [Next]_vars => NInv'
      BY NestNext
<1>3. QED BY <1>1, <1>2, Invariance, PTL DEF Spec

\* Every variable of the sweeps and of the patches has its type.
THEOREM TypeCorrect == Spec => []TypeOK
<1>1. IInv => TypeOK
  <2>1. ASSUME IInv PROVE \A t \in Thread : frames[t] \in Seq(Frame)
        BY <2>1 DEF IInv, PInv, PType
  <2>2. QED BY <2>1 DEF IInv, PInv, SInv, PType, SType, TypeOK
<1>2. QED BY <1>1, Invariance, PTL

\* The patches leave no trace (csprng_shim, audit_mode and restore_if_ours):
\* once every context is over, each name is what it was or what other code
\* made it, but for a restore that was itself interrupted and a replacement
\* between a context's reading and writing.
THEOREM NothingStaysPatched == Spec => []RestoredWhenIdle
<1>1. IInv => RestoredWhenIdle
  <2>1. SUFFICES ASSUME IInv, \A t \in Thread : frames[t] = << >>, NEW n \in Name \ cut
                 PROVE  IF n \in raced THEN fn[n] \in {Real, Other}
                        ELSE fn[n] = IF n \in replaced THEN Other ELSE Real
        BY DEF RestoredWhenIdle
  <2>2. PType /\ Owned /\ Unreplaced /\ Replacements
        BY <2>1 DEF IInv, PInv
  <2>3. fn[n] \notin Context
    <3>1. \A t \in Thread : DOMAIN frames[t] = {}
          BY <2>1
    <3>2. QED BY <2>2, <3>1 DEF Owned, Restores
  <2>4. fn[n] \in {Real, Other}
        BY <2>2, <2>3 DEF PType, Function
  <2>5. CASE n \in raced
        BY <2>4, <2>5
  <2>6. CASE n \notin raced /\ n \in replaced
    <3>1. PICK L \in SUBSET Context : Leads(n, L)
          BY <2>2, <2>6 DEF Replacements
    <3>2. QED BY <2>3, <2>6, <3>1 DEF Leads
  <2>7. CASE n \notin raced /\ n \notin replaced
        BY <2>2, <2>4, <2>7 DEF Unreplaced
  <2>8. QED BY <2>5, <2>6, <2>7
<1>2. QED BY <1>1, Invariance, PTL

-----------------------------------------------------------------------------
(* What a thread gets.                                                     *)

\* Call follows a chain of wrappers: one that acts, or a function, is the end
\* of it, and the chains of a wrapper and of what it falls back to have the
\* same end.  The ends of the chains are a function that is defined as Call
\* is, so there is one.
LEMMA CallIs ==
    ASSUME PType, NEW u \in Thread, NEW n \in Name, NEW g \in Function
    PROVE  Call(u, n, g) = IF g \in {Real, Other} \/ g[1] = u THEN g ELSE Call(u, n, orig[g][n])
<1> DEFINE Stops(x) == x \in {Real, Other} \/ x[1] = u
           Closed(S) == \A y \in S : ~Stops(y) => orig[y][n] \in S
           Reach(x) == {y \in Function : \A S \in SUBSET Function : x \in S /\ Closed(S) => y \in S}
           End(x) == {y \in Reach(x) : Stops(y)}
           ends == [x \in Function |-> CHOOSE y : y \in End(x)]
           step(a) == [x \in Function |-> IF x \in {Real, Other} THEN x
                                          ELSE IF x[1] = u THEN x ELSE a[orig[x][n]]]
<1>1. ASSUME NEW x \in Function, ~Stops(x) PROVE orig[x][n] \in Function
      BY <1>1 DEF PType, Function
<1>2. ASSUME NEW x \in Function, Stops(x) PROVE End(x) = {x}
  <2>1. {x} \in SUBSET Function /\ Closed({x})
        BY <1>2
  <2>2. QED BY <1>2, <2>1
<1>3. ASSUME NEW x \in Function, ~Stops(x) PROVE End(x) = End(orig[x][n])
  <2> DEFINE next == orig[x][n]
  <2>1. ASSUME NEW y \in End(next) PROVE y \in End(x)
    <3>1. ASSUME NEW S \in SUBSET Function, x \in S, Closed(S) PROVE y \in S
      <4>1. next \in S
            BY <1>3, <3>1
      <4>2. QED BY <2>1, <3>1, <4>1
    <3>2. QED BY <2>1, <3>1
  <2>2. ASSUME NEW y \in End(x) PROVE y \in End(next)
    <3>1. ASSUME NEW S \in SUBSET Function, next \in S, Closed(S) PROVE y \in S
      <4>1. S \cup {x} \in SUBSET Function /\ x \in S \cup {x} /\ Closed(S \cup {x})
            BY <3>1
      <4>2. y \in S \cup {x}
            BY <2>2, <4>1
      <4>3. QED BY <1>3, <2>2, <4>2
    <3>2. QED BY <2>2, <3>1
  <2>3. QED BY <2>1, <2>2
<1> HIDE DEF End
<1>4. ends = step(ends)
  <2>1. ASSUME NEW x \in Function PROVE ends[x] = step(ends)[x]
    <3>1. CASE Stops(x)
      <4>1. ends[x] = CHOOSE y : y \in {x}
            BY <1>2, <3>1
      <4>2. (CHOOSE y : y \in {x}) = x
            OBVIOUS
      <4>3. step(ends)[x] = x
            BY <3>1
      <4>4. QED BY <4>1, <4>2, <4>3
    <3>2. CASE ~Stops(x)
      <4>1. ends[orig[x][n]] = CHOOSE y : y \in End(orig[x][n])
            BY <1>1, <3>2
      <4>2. ends[x] = CHOOSE y : y \in End(x)
            OBVIOUS
      <4>3. ends[x] = ends[orig[x][n]]
            BY <1>3, <3>2, <4>1, <4>2
      <4>4. step(ends)[x] = ends[orig[x][n]]
            BY <3>2
      <4>5. QED BY <4>3, <4>4
    <3>3. QED BY <3>1, <3>2
  <2>2. QED BY <2>1
<1> HIDE DEF ends
<1> DEFINE acts == CHOOSE a : a = step(a)
<1>5. acts = step(acts)
      BY <1>4
<1>6. \A x : Call(u, n, x) = acts[x]
      BY DEF Call
<1> HIDE DEF acts
<1>7. acts[g] = IF g \in {Real, Other} \/ g[1] = u THEN g ELSE acts[orig[g][n]]
      BY <1>5
<1>8. QED BY <1>6, <1>7

\* Every non-empty set of naturals has a least element.
LEMMA LeastNat ==
    ASSUME NEW S \in SUBSET Nat, S # {}
    PROVE  \E x \in S : \A y \in S : x <= y
<1> DEFINE R == {ss \in Nat \X Nat : ss[1] < ss[2]}
<1>1. R = OpToRel(<, Nat)
      BY DEF OpToRel
<1>2. IsWellFoundedOn(R, Nat)
      BY <1>1, NatLessThanWellFounded
<1>3. PICK x \in S : \A y \in S : ~(<<y, x>> \in R)
  <2> HIDE DEF R
  <2> QED BY <1>2, WFMin
<1>4. ASSUME NEW y \in S PROVE x <= y
  <2>1. x \in Nat /\ y \in Nat
        OBVIOUS
  <2>2. <<y, x>> \in R <=> y < x
        BY <2>1
  <2>3. QED BY <1>3, <2>1, <2>2
<1>5. QED BY <1>4

\* On a thread that is in none of them, the wrappers of another thread come
\* down to a function: each falls back to one further out.
LEMMA PassedOn ==
    ASSUME PInv, NEW t \in Thread, NEW u \in Thread, u # t, NEW n \in Name \ cut,
           NEW i \in DOMAIN frames[t]
    PROVE  Call(u, n, frames[t][i].id) \in {Real, Other}
<1>1. PType /\ Stacked /\ Owned
      BY DEF PInv
<1>2. PICK len \in Nat : len = Len(frames[t]) /\ DOMAIN frames[t] = 1..len
  <2>1. Len(frames[t]) \in Nat /\ DOMAIN frames[t] = 1..Len(frames[t])
        BY <1>1 DEF PType
  <2>2. QED BY <2>1, Zenon
<1> DEFINE Ends(j) == Call(u, n, frames[t][j].id) \in {Real, Other}
           Bad == {k \in Nat : \E j \in 1..len : k = len - j /\ ~Ends(j)}
<1>3. ASSUME Bad # {} PROVE FALSE
  <2>1. PICK k \in Bad : \A m \in Bad : k <= m
        BY <1>3, LeastNat
  <2>2. PICK j \in 1..len : k = len - j /\ ~Ends(j)
        BY <2>1
  <2>3. ASSUME NEW l \in 1..len, l >= j + 1 PROVE Ends(l)
    <3>1. len - l \in Nat /\ len - l < k
          BY <2>2, <2>3
    <3>2. len - l \notin Bad
          BY <2>1, <3>1
    <3>3. QED BY <3>1, <3>2
  <2>4. PICK c : c = frames[t][j].id
        OBVIOUS
  <2>5. c \in Context /\ c \in Function /\ c \notin {Real, Other} /\ c[1] # u
    <3>1. \E m \in 1..entered[t] : c = <<t, m>>
          BY <1>1, <1>2, <2>4 DEF Stacked
    <3>2. c \in Context
          BY <1>1, <1>2, <2>4, FrameParts DEF PType
    <3>3. QED BY <3>1, <3>2, PatchingAssumption DEF Function
  <2>6. PICK d \in Function : d = orig[c][n]
        BY <1>1, <2>5 DEF PType
  <2>7. Call(u, n, c) = Call(u, n, d)
        BY <1>1, <2>5, <2>6, CallIs
  <2>8. CASE d \in Context
    <3>1. Restores(t, j + 1, d, n)
          BY <1>1, <1>2, <2>4, <2>6, <2>8 DEF Owned
    <3>2. PICK l \in 1..len : l >= j + 1 /\ frames[t][l].id = d
          BY <1>2, <3>1 DEF Restores
    <3>3. QED BY <2>2, <2>3, <2>4, <2>7, <3>2
  <2>9. CASE d \in {Real, Other}
    <3>1. Call(u, n, d) = d
          BY <1>1, <2>9, CallIs
    <3>2. QED BY <2>2, <2>4, <2>7, <2>9, <3>1
  <2>10. QED BY <2>6, <2>8, <2>9 DEF Function
<1>4. len - i \in Nat
      BY <1>2
<1>5. QED BY <1>2, <1>3, <1>4

\* A wrapper acts only on the thread that entered its context and only while
\* the context lasts (csprng_shim, audit_mode), but for a name whose own
\* restore was interrupted; and in the body of a context the thread gets the
\* wrapper of that one.
THEOREM WrappersKeepToTheirThread == Spec => []WrapperActsOnItsThread
<1>1. ASSUME IInv, NInv, NEW u \in Thread, NEW n \in Name \ cut
      PROVE  Call(u, n, fn[n]) \in {Real, Other} \cup Patched(u, n)
  <2>1. PInv /\ PType /\ Stacked /\ Prepares /\ Owned
        BY <1>1 DEF IInv, PInv
  <2>2. fn[n] \in Function
        BY <2>1 DEF PType
  <2>3. CASE fn[n] \in {Real, Other}
        BY <2>1, <2>2, <2>3, CallIs
  <2>4. CASE fn[n] \in Context
    <3>1. PICK t \in Thread : Restores(t, 1, fn[n], n)
          BY <2>1, <2>4 DEF Owned
    <3>2. PICK i \in DOMAIN frames[t] : frames[t][i].id = fn[n] /\ n \in Range(frames[t][i].undo)
          BY <3>1 DEF Restores
    <3>3. CASE u # t
          BY <2>1, <3>2, <3>3, PassedOn
    <3>4. CASE u = t
      <4>1. \E k \in 1..entered[t] : fn[n] = <<t, k>>
            BY <2>1, <3>2 DEF Stacked
      <4>2. Call(u, n, fn[n]) = fn[n]
            BY <2>1, <2>2, <3>4, <4>1, CallIs
      <4>3. frames[t][i].phase # "wait"
        <5>1. frames[t][i].phase = "wait" => frames[t][i].undo = << >>
              BY <2>1 DEF Prepares, Prepared
        <5>2. Range(<< >>) = {}
              BY DEF Range
        <5>3. QED BY <3>2, <5>1, <5>2
      <4>4. frames[t][i] \in Range(frames[t])
            BY DEF Range
      <4>5. QED BY <3>2, <3>4, <4>2, <4>3, <4>4 DEF Patched
    <3>5. QED BY <3>3, <3>4
  <2>5. QED BY <2>2, <2>3, <2>4 DEF Function
<1>2. ASSUME IInv, NInv, NEW u \in Thread, NEW n \in Name \ replaced, In(u, "body"),
             Top(u).id \in Patched(u, n)
      PROVE  Call(u, n, fn[n]) = Top(u).id
  <2>1. PType /\ Stacked
        BY <1>2 DEF IInv, PInv
  <2>2. frames[u] # << >> /\ Top(u).phase = "body"
        BY <1>2 DEF In, Top
  <2>3. /\ frames[u] \in Seq(Frame) /\ Top(u) = frames[u][1] /\ 1 \in DOMAIN frames[u]
        /\ Top(u).id \in Function
        BY <2>1, <2>2, TopOf, FrameParts DEF PType, Function
  <2>4. n \in Range(Top(u).undo)
    <3>1. PICK f \in Range(frames[u]) : f.id = Top(u).id /\ n \in Range(f.undo)
          BY <1>2 DEF Patched
    <3>2. PICK i \in DOMAIN frames[u] : f = frames[u][i]
          BY <3>1 DEF Range
    <3>3. i = 1
          BY <2>1, <2>3, <3>1, <3>2 DEF Stacked
    <3>4. QED BY <2>3, <3>1, <3>2, <3>3
  <2>5. Holds(frames[u][1], n) /\ ~Aborting(u)
        BY <2>2, <2>3, <2>4 DEF Holds, Aborting, In, Top
  <2>6. Nests(frames[u], n, fn[n], orig)
        BY <1>2, <2>5 DEF NInv, Nested
  <2>7. fn[n] = Top(u).id
        BY <2>2, <2>3, <2>5, <2>6, TopNests
  <2>8. Top(u).id[1] = u
    <3>1. \E k \in 1..entered[u] : Top(u).id = <<u, k>>
          BY <2>1, <2>3 DEF Stacked
    <3>2. QED BY <3>1
  <2>9. QED BY <2>1, <2>3, <2>7, <2>8, CallIs
<1>3. IInv /\ NInv => WrapperActsOnItsThread
      BY <1>1, <1>2 DEF WrapperActsOnItsThread
<1>4. QED BY <1>3, Invariance, WrappersNest, PTL

\* _patch_lock is held once for every context of its holder that has come
\* past it, and by nobody else, so one thread patches at a time.
THEOREM LockIsAccountedFor == Spec => []LockIsHeldForAContext
<1>1. IInv => LockIsHeldForAContext
  <2>1. SUFFICES ASSUME IInv, NEW t \in Thread, NEW inside,
                        inside = {i \in DOMAIN frames[t] : frames[t][i].phase # "wait"}
                 PROVE  /\ inside # {} <=> lock.by = t
                        /\ lock.by = t => lock.count = Cardinality(inside)
        BY DEF LockIsHeldForAContext
  <2>2. PType /\ Stacked /\ Locked
        BY <2>1 DEF IInv, PInv
  <2>3. /\ lock.by = t <=> Passed(t) > 0
        /\ lock.by = t => lock.count = Passed(t)
        BY <2>2 DEF Locked
  <2>4. PICK n \in Nat : n = Len(frames[t]) /\ DOMAIN frames[t] = 1..n
    <3>1. frames[t] \in Seq(Frame)
          BY <2>2 DEF PType
    <3>2. Len(frames[t]) \in Nat /\ DOMAIN frames[t] = 1..Len(frames[t])
          BY <3>1
    <3>3. QED BY <3>2, Zenon
  <2>5. \A i \in 2..n : i \in DOMAIN frames[t] /\ frames[t][i].phase # "wait"
    <3>1. \A i \in 2..n : i \in 1..n /\ i > 1
          OBVIOUS
    <3>2. QED BY <2>2, <2>4, <3>1 DEF Stacked
  <2>6. PICK a \in {1, 2} : inside = a..n /\ Passed(t) = n - a + 1 /\ a <= n + 1
    <3>1. CASE In(t, "wait")
      <4>1. frames[t] # << >> /\ frames[t][1].phase = "wait" /\ n # 0
        <5>1. frames[t] # << >>
              BY <3>1 DEF In
        <5>2. Len(frames[t]) \in Nat \ {0} /\ Top(t) = frames[t][1]
              BY <2>2, <5>1, TopOf
        <5>3. QED BY <2>4, <3>1, <5>1, <5>2 DEF In, Top
      <4>2. inside = 2..n
        <5>1. \A i \in 1..n : i = 1 \/ i \in 2..n
              OBVIOUS
        <5>2. \A i \in 2..n : i \in 1..n
              OBVIOUS
        <5>3. QED BY <2>1, <2>4, <2>5, <4>1, <5>1, <5>2
      <4>3. Passed(t) = n - 1
            BY <2>2, <2>4, <3>1, PassedIs
      <4>4. Passed(t) = n - 2 + 1 /\ 2 <= n + 1
            BY <4>1, <4>3
      <4>5. QED BY <4>2, <4>4
    <3>2. CASE ~In(t, "wait")
      <4>1. 1 \in DOMAIN frames[t] => frames[t][1].phase # "wait"
        <5>1. 1 \in DOMAIN frames[t] => frames[t] # << >>
              OBVIOUS
        <5>2. frames[t] # << >> => Top(t) = frames[t][1]
              BY <2>2, TopOf
        <5>3. QED BY <3>2, <5>1, <5>2 DEF In, Top
      <4>2. inside = 1..n
        <5>1. \A i \in 1..n : i = 1 \/ i \in 2..n
              OBVIOUS
        <5>2. QED BY <2>1, <2>4, <2>5, <4>1, <5>1
      <4>3. Passed(t) = n
            BY <2>2, <2>4, <3>2, PassedIs
      <4>4. Passed(t) = n - 1 + 1 /\ 1 <= n + 1
            BY <4>3
      <4>5. QED BY <4>2, <4>4
    <3>3. QED BY <3>1, <3>2
  <2>7. a \in Int /\ n \in Int
        OBVIOUS
  <2>8. Cardinality(a..n) = IF a > n THEN 0 ELSE n - a + 1
        BY <2>7, FS_Interval
  <2>9. Passed(t) = Cardinality(inside)
    <3>1. a > n => n - a + 1 = 0
          BY <2>6
    <3>2. QED BY <2>6, <2>8, <3>1
  <2>10. inside # {} <=> Passed(t) > 0
    <3>1. a..n # {} <=> a <= n
      <4>1. a <= n => a \in a..n
            OBVIOUS
      <4>2. \A i \in a..n : a <= n
            OBVIOUS
      <4>3. QED BY <4>1, <4>2
    <3>2. a <= n <=> n - a + 1 > 0
          OBVIOUS
    <3>3. QED BY <2>6, <3>1, <3>2
  <2>11. QED BY <2>3, <2>9, <2>10
<1>2. QED BY <1>1, Invariance, PTL

\* check() and a given_seed test report the first run that failed, with its
\* seed, and report nothing else; every World is closed, and an interrupt is
\* never taken for a failing seed.
THEOREM ReportsAreTrue == Spec => []FirstFailureReported
<1>1. IInv => FirstFailureReported
  <2>1. ASSUME IInv, NEW t \in Thread PROVE Reported(t, sweep[t])
        BY <2>1 DEF IInv, SInv
  <2>2. QED BY <2>1 DEF FirstFailureReported, Reported
<1>2. QED BY <1>1, Invariance, PTL

=============================================================================
