-------------------------- MODULE InterpreterProofs --------------------------
(***************************************************************************)
(* Theorems about Interpreter, for every line: types, and that what a      *)
(* command's assignments and a child shell do stays with them.             *)
(***************************************************************************)
EXTENDS Interpreter, WellFoundedInduction, TLAPS

(***************************************************************************)
(* Induction and recursion on numbers                                      *)
(***************************************************************************)

\* Induction up to m; the library's induction theorems take an operator as a
\* parameter, which this does with a set.
LEMMA Induction ==
    ASSUME NEW m \in Nat, NEW S, 0 \in S, \A n \in 0 .. m - 1 : n \in S => n + 1 \in S
    PROVE  0 .. m \subseteq S
<1> DEFINE T == {n \in 0 .. m : n \notin S}
<1> SUFFICES ASSUME T # {} PROVE FALSE
  OBVIOUS
<1>1. PICK n \in T : \A k \in T : ~ (<< k, n >> \in OpToRel(<, Nat))
  <2>1. T \subseteq Nat
    OBVIOUS
  <2> HIDE DEF T
  <2> QED BY <2>1, WFMin, NatLessThanWellFounded, Zenon
<1>2. n # 0 /\ n \in Nat /\ n - 1 \in 0 .. m - 1
  <2>1. n \in 0 .. m /\ n \notin S
    BY <1>1
  <2>2. n # 0
    BY <2>1
  <2> QED BY <2>1, <2>2
<1>3. n - 1 \notin S
  <2>1. n \notin S
    BY <1>1
  <2>2. n - 1 + 1 = n
    BY <1>2
  <2> QED BY <1>2, <2>1, <2>2
<1>4. << n - 1, n >> \in OpToRel(<, Nat)
  BY <1>2 DEF OpToRel
<1>5. n - 1 \in T
  BY <1>2, <1>3
<1> QED BY <1>1, <1>4, <1>5

\* A function that is defined by recursion up to m exists.
Recurs(g, m, V, base, step) ==
    /\ g \in [0 .. m -> V]
    /\ g[0] = base
    /\ \A n \in 1 .. m : g[n] = step[<< g[n - 1], n >>]

LEMMA Recursion ==
    ASSUME NEW m \in Nat, NEW V, NEW base \in V, NEW step \in [V \X (1 .. m) -> V]
    PROVE  \E g : Recurs(g, m, V, base, step)
<1> DEFINE Solves(k, g) == g[0] = base /\ \A n \in 1 .. k : g[n] = step[<< g[n - 1], n >>]
           S == {k \in 0 .. m : \E g \in [0 .. m -> V] : Solves(k, g)}
<1>1. 0 \in S
  <2> DEFINE g == [n \in 0 .. m |-> base]
  <2>1. g \in [0 .. m -> V] /\ g[0] = base
    OBVIOUS
  <2>2. Solves(0, g)
    BY <2>1
  <2> HIDE DEF g, Solves
  <2> QED BY <2>1, <2>2
<1>2. ASSUME NEW k \in 0 .. m - 1, k \in S PROVE k + 1 \in S
  <2>1. PICK g \in [0 .. m -> V] : Solves(k, g)
    BY <1>2
  <2>2. k \in 0 .. m /\ k + 1 \in 1 .. m /\ k + 1 \in 0 .. m /\ k + 1 - 1 = k
    OBVIOUS
  <2>3. g[k] \in V /\ << g[k], k + 1 >> \in V \X (1 .. m)
    BY <2>2
  <2> DEFINE v == step[<< g[k], k + 1 >>]
             h == [g EXCEPT ![k + 1] = v]
  <2>4. v \in V
    BY <2>3
  <2> HIDE DEF v
  <2>5. /\ h \in [0 .. m -> V] /\ h[k + 1] = v
        /\ \A n \in 0 .. m : n # k + 1 => h[n] = g[n]
    BY <2>2, <2>4
  <2> HIDE DEF h
  <2>6. h[0] = base
    BY <2>1, <2>5
  <2>7. ASSUME NEW n \in 1 .. k + 1 PROVE h[n] = step[<< h[n - 1], n >>]
    <3>1. n - 1 \in 0 .. m /\ n - 1 # k + 1
      BY <2>2
    <3>2. h[n - 1] = g[n - 1]
      BY <2>5, <3>1
    <3>3. CASE n = k + 1
      BY <2>2, <2>5, <3>2, <3>3 DEF v
    <3>4. CASE n # k + 1
      <4>1. n \in 1 .. k /\ n \in 0 .. m
        BY <2>2, <3>4
      <4>2. h[n] = g[n] /\ g[n] = step[<< g[n - 1], n >>]
        BY <2>1, <2>5, <3>4, <4>1
      <4> QED BY <3>2, <4>2
    <3> QED BY <3>3, <3>4
  <2>8. Solves(k + 1, h)
    BY <2>6, <2>7
  <2> HIDE DEF Solves
  <2> QED BY <2>2, <2>5, <2>8
<1>3. m \in S
  <2> HIDE DEF S
  <2>1. 0 .. m \subseteq S
    BY <1>1, <1>2, Induction
  <2> QED BY <2>1
<1> QED BY <1>3 DEF Recurs


(***************************************************************************)
(* Syntax trees                                                            *)
(***************************************************************************)

Simple == Calls \cup Others

Grown(parts) == parts \cup [op: Operators, x: parts, y: parts]

LEMMA TreesAre ==
    /\ Trees[0] = Simple
    /\ \A n \in 1 .. MaxDepth : Trees[n] = Grown(Trees[n - 1])
<1>0. MaxDepth \in Nat
  BY InterpreterAssumption
<1> DEFINE Turn(g, n) == IF n = 0 THEN Simple ELSE Grown(g[n - 1])
           S == {m \in 0 .. MaxDepth : \E g : g = [n \in 0 .. m |-> Turn(g, n)]}
<1>1. 0 \in S
  <2> DEFINE g == [n \in 0 .. 0 |-> Simple]
  <2>1. g = [n \in 0 .. 0 |-> Turn(g, n)]
    <3> DEFINE h == g
    <3>1. \A n \in 0 .. 0 : Turn(h, n) = Simple
      <4> HIDE DEF h
      <4> QED OBVIOUS
    <3> HIDE DEF Turn
    <3> QED BY <3>1
  <2>2. 0 \in 0 .. MaxDepth
    BY <1>0
  <2> HIDE DEF g, Turn
  <2> QED BY <2>1, <2>2
<1>2. ASSUME NEW m \in 0 .. MaxDepth - 1, m \in S PROVE m + 1 \in S
  <2>1. PICK g : g = [n \in 0 .. m |-> Turn(g, n)]
    BY <1>2
  <2> DEFINE h == [n \in 0 .. m + 1 |-> IF n <= m THEN g[n] ELSE Turn(g, n)]
  <2>2. \A n \in 0 .. m + 1 : h[n] = Turn(h, n)
    <3> TAKE n \in 0 .. m + 1
    <3>1. CASE n <= m
      <4>0. g[n] = Turn(g, n)
        <5> HIDE DEF Turn, h
        <5>1. n \in 0 .. m
          BY <3>1
        <5> QED BY <2>1, <5>1
      <4>1. h[n] = Turn(g, n)
        <5> HIDE DEF Turn
        <5> QED BY <4>0, <3>1
      <4>2. n # 0 => h[n - 1] = g[n - 1]
        BY <3>1
      <4> HIDE DEF h
      <4> QED BY <4>1, <4>2
    <3>2. CASE n = m + 1
      <4>1. h[n] = Turn(g, n) /\ (n # 0 => h[n - 1] = g[n - 1])
        BY <3>2
      <4> HIDE DEF h
      <4> QED BY <4>1
    <3> QED BY <3>1, <3>2
  <2>3. h = [n \in 0 .. m + 1 |-> h[n]]
    OBVIOUS
  <2>4. h = [n \in 0 .. m + 1 |-> Turn(h, n)]
    <3> HIDE DEF h, Turn
    <3> QED BY <2>2, <2>3
  <2>5. m + 1 \in 0 .. MaxDepth
    BY <1>0
  <2> HIDE DEF h, Turn
  <2> QED BY <2>4, <2>5
<1>3. MaxDepth \in S
  <2> HIDE DEF S
  <2>1. 0 .. MaxDepth \subseteq S
    BY <1>0, <1>1, <1>2, Induction
  <2> QED BY <1>0, <2>1
<1>4. Trees = [n \in 0 .. MaxDepth |-> Turn(Trees, n)]
  <2>1. PICK g : g = [n \in 0 .. MaxDepth |-> Turn(g, n)]
    BY <1>3
  <2> QED BY <2>1 DEF Trees, Simple, Grown
<1> DEFINE u == Trees
<1>5. \A n \in 0 .. MaxDepth : u[n] = Turn(u, n)
  <2> HIDE DEF Turn
  <2> QED BY <1>4
<1> HIDE DEF u
<1>6. u[0] = Simple /\ \A n \in 1 .. MaxDepth : u[n] = Grown(u[n - 1])
  <2>1. 0 \in 0 .. MaxDepth /\ \A n \in 1 .. MaxDepth : n \in 0 .. MaxDepth /\ n # 0
    BY <1>0
  <2> QED BY <1>5, <2>1
<1> QED BY <1>6 DEF u

\* A statement is a call, an operator between two statements, or nothing the shell knows.
Shaped(t, parts) ==
    t \in Simple \/ (t.op \in Operators /\ t.x \in parts /\ t.y \in parts)

LEMMA StatementShape ==
    /\ Simple \subseteq Statements
    /\ \A t \in Statements : Shaped(t, Statements)
<1> DEFINE S == {n \in 0 .. MaxDepth : Simple \subseteq Trees[n] /\ \A t \in Trees[n] : Shaped(t, Trees[n])}
<1>0. MaxDepth \in Nat
  BY InterpreterAssumption
<1>1. 0 \in S
  <2>1. 0 \in 0 .. MaxDepth
    BY <1>0
  <2> QED BY <2>1, TreesAre DEF Shaped
<1>2. ASSUME NEW n \in 0 .. MaxDepth - 1, n \in S PROVE n + 1 \in S
  <2>1. n + 1 \in 1 .. MaxDepth /\ n + 1 \in 0 .. MaxDepth /\ n + 1 - 1 = n
    BY <1>0
  <2> DEFINE a == Trees[n]  b == Trees[n + 1]
  <2>2. b = Grown(a)
    BY <2>1, TreesAre
  <2>3. Simple \subseteq a /\ \A t \in a : Shaped(t, a)
    BY <1>2
  <2> HIDE DEF a, b
  <2>4. a \subseteq b
    BY <2>2 DEF Grown
  <2>5. \A t \in b : Shaped(t, b)
    <3> TAKE t \in b
    <3>1. CASE t \in a
      BY <2>3, <2>4, <3>1 DEF Shaped
    <3>2. CASE t \in [op: Operators, x: a, y: a]
      BY <2>4, <3>2 DEF Shaped
    <3> QED BY <2>2, <3>1, <3>2 DEF Grown
  <2>6. Simple \subseteq b /\ \A t \in b : Shaped(t, b)
    BY <2>3, <2>4, <2>5
  <2> QED BY <2>1, <2>6 DEF b
<1>3. MaxDepth \in S
  <2> HIDE DEF S
  <2>1. 0 .. MaxDepth \subseteq S
    BY <1>0, <1>1, <1>2, Induction
  <2> QED BY <1>0, <2>1
<1> QED BY <1>3 DEF Statements

LEMMA Elements ==
    ASSUME NEW R, NEW q \in Seq(R)
    PROVE  Len(q) \in Nat /\ DOMAIN q = 1 .. Len(q) /\ \A n \in 1 .. Len(q) : q[n] \in R
OBVIOUS

LEMMA Replaced ==
    ASSUME NEW R, NEW q \in Seq(R), NEW i \in Nat, NEW a, i \in DOMAIN q => a \in R
    PROVE  [q EXCEPT ![i] = a] \in Seq(R)
<1>1. CASE i \in DOMAIN q
  BY <1>1
<1>2. CASE i \notin DOMAIN q
  <2>1. [q EXCEPT ![i] = a] = q
    BY <1>2
  <2> QED BY <2>1
<1> QED BY <1>1, <1>2

LEMMA Extended ==
    ASSUME NEW R, NEW q \in Seq(R), NEW x \in R
    PROVE  Append(q, x) \in Seq(R)
OBVIOUS

(***************************************************************************)
(* Words and environments                                                  *)
(***************************************************************************)

LEMMA ValueType == ASSUME NEW env \in CmdEnvs, NEW word \in Words PROVE Value(env, word) \in Texts
BY DEF Value, Words, CmdEnvs

\* What is added to an environment, and what is behind it.
LEMMA OverIs ==
    ASSUME NEW D, NEW E, NEW T, NEW f \in [D -> T], NEW g \in [E -> T]
    PROVE  Over(f, g) \in [D \cup E -> T]
BY DEF Over

LEMMA OneIs == ASSUME NEW v, NEW T, NEW t \in T PROVE Only(v, t) \in [{v} -> T]
BY DEF Only

NamesOf(assigns) == {assigns[i].name : i \in DOMAIN assigns}

Assignments == Seq([name: Vars, word: Words])

\* What some of the names may be assigned.
Partial(names) == UNION {[D -> Texts] : D \in SUBSET names}

LEMMA AssignedType ==
    ASSUME NEW env \in CmdEnvs, NEW assigns \in Assignments
    PROVE  Assigned(env, assigns) \in Partial(NamesOf(assigns))
<1> DEFINE m == Len(assigns)
           V == Partial(NamesOf(assigns))
           Next1(p, n) == Over(Only(assigns[n].name, Value(Over(p, env), assigns[n].word)), p)
           step == [a \in V \X (1 .. m) |-> Next1(a[1], a[2])]
           Turn(g, n) == IF n = 0 THEN << >> ELSE Next1(g[n - 1], n)
<1>0. /\ m \in Nat /\ DOMAIN assigns = 1 .. m
      /\ \A n \in 1 .. m : assigns[n].name \in Vars /\ assigns[n].word \in Words
  <2>1. /\ assigns \in Seq([name: Vars, word: Words])
        /\ m \in Nat /\ DOMAIN assigns = 1 .. m
    BY DEF Assignments
  <2>2. \A n \in 1 .. m : assigns[n] \in [name: Vars, word: Words]
    BY <2>1, Elements, Zenon
  <2> QED BY <2>1, <2>2
<1>1. << >> \in V
  <2>1. << >> \in [{} -> Texts]
    OBVIOUS
  <2> QED BY <2>1 DEF Partial
<1>2. ASSUME NEW p \in V, NEW n \in 1 .. m PROVE Next1(p, n) \in V
  <2>1. PICK D \in SUBSET NamesOf(assigns) : p \in [D -> Texts]
    BY DEF Partial
  <2>2. assigns[n].name \in NamesOf(assigns) /\ assigns[n].name \in Vars /\ assigns[n].word \in Words
    <3> HIDE DEF m
    <3> QED BY <1>0 DEF NamesOf
  <2>3. NamesOf(assigns) \subseteq Vars
    <3> HIDE DEF m
    <3> QED BY <1>0 DEF NamesOf
  <2>4. Over(p, env) \in [D \cup (Vars \cup {"?"}) -> Texts]
    BY <2>1, OverIs, Zenon DEF CmdEnvs
  <2>5. Over(p, env) \in CmdEnvs
    <3>1. D \cup (Vars \cup {"?"}) = Vars \cup {"?"}
      BY <2>1, <2>3
    <3> QED BY <2>4, <3>1, Zenon DEF CmdEnvs
  <2>6. Value(Over(p, env), assigns[n].word) \in Texts
    BY <2>2, <2>5, ValueType, Zenon
  <2> DEFINE one == Only(assigns[n].name, Value(Over(p, env), assigns[n].word))
  <2>7. one \in [{assigns[n].name} -> Texts]
    BY <2>6, OneIs, Zenon
  <2> HIDE DEF one
  <2>8. Over(one, p) \in [{assigns[n].name} \cup D -> Texts]
    BY <2>1, <2>7, OverIs, Zenon
  <2>9. {assigns[n].name} \cup D \in SUBSET NamesOf(assigns)
    BY <2>1, <2>2
  <2> QED BY <2>8, <2>9, Zenon DEF Partial, one
<1>3. step \in [V \X (1 .. m) -> V]
  <2> HIDE DEF V, Next1
  <2> QED BY <1>2
<1>4. PICK g : Recurs(g, m, V, << >>, step)
  <2> HIDE DEF V, step, m
  <2> QED BY <1>0, <1>1, <1>3, Recursion, Zenon
<1>5. g \in [0 .. m -> V] /\ g = [n \in 0 .. m |-> Turn(g, n)]
  <2>1. g \in [0 .. m -> V] /\ g[0] = << >> /\ \A n \in 1 .. m : g[n] = step[<< g[n - 1], n >>]
    BY <1>4 DEF Recurs
  <2>2. ASSUME NEW n \in 1 .. m PROVE g[n] = Next1(g[n - 1], n)
    <3>1. g[n - 1] \in V
      <4> HIDE DEF V
      <4>1. n - 1 \in 0 .. m
        BY <1>0
      <4> QED BY <2>1, <4>1
    <3>2. << g[n - 1], n >> \in V \X (1 .. m)
      BY <3>1
    <3> HIDE DEF V, Next1
    <3> QED BY <2>1, <3>2
  <2>3. \A n \in 0 .. m : g[n] = Turn(g, n)
    <3> HIDE DEF Next1
    <3>1. \A n \in 0 .. m : n = 0 \/ n \in 1 .. m
      BY <1>0
    <3> QED BY <2>1, <2>2, <3>1
  <2> HIDE DEF V, step, Turn
  <2> QED BY <2>1, <2>3
<1> DEFINE Defined(h) == h = [n \in 0 .. m |-> Turn(h, n)]
           u == CHOOSE h : Defined(h)
<1>6. Defined(u)
  <2>1. Defined(g)
    BY <1>5
  <2> HIDE DEF Defined
  <2> QED BY <2>1
<1>7. Assigned(env, assigns) = u[m]
  BY DEF Assigned
<1>8. 0 .. m \subseteq {n \in 0 .. m : u[n] \in V}
  <2> DEFINE W == {n \in 0 .. m : u[n] \in V}
  <2>1. \A n \in 0 .. m : u[n] = Turn(u, n)
    <3> HIDE DEF u, Turn
    <3> QED BY <1>6
  <2> HIDE DEF u
  <2>2. 0 \in W
    <3>1. u[0] = << >> /\ 0 \in 0 .. m
      BY <1>0, <2>1
    <3> QED BY <1>1, <3>1
  <2>3. ASSUME NEW n \in 0 .. m - 1, n \in W PROVE n + 1 \in W
    <3>1. n + 1 \in 1 .. m /\ n + 1 \in 0 .. m /\ n + 1 # 0 /\ n + 1 - 1 = n
      BY <1>0
    <3>2. u[n + 1] = Next1(u[n], n + 1)
      <4> HIDE DEF Next1
      <4> QED BY <2>1, <3>1
    <3>3. u[n] \in V
      BY <2>3
    <3> HIDE DEF V, Next1
    <3>4. u[n + 1] \in V
      BY <1>2, <3>1, <3>2, <3>3
    <3> QED BY <3>1, <3>4
  <2> HIDE DEF W
  <2>4. 0 .. m \subseteq W
    <3> HIDE DEF m
    <3> QED BY <1>0, <2>2, <2>3, Induction
  <2> QED BY <2>4 DEF W
<1>9. u[m] \in V
  <2> HIDE DEF V, u
  <2> QED BY <1>0, <1>8
<1> QED BY <1>7, <1>9

(***************************************************************************)
(* Shells                                                                  *)
(***************************************************************************)

LEMMA CmdEnvType == ASSUME NEW s \in Shells PROVE CmdEnv(s) \in CmdEnvs
<1>1. s.env \in [Vars -> Texts] /\ s.ret \in Statuses
  BY DEF Shells, Envs
<1>2. ToString(s.ret % 256) \in Texts
  BY <1>1, StatusAssumption, Zenon
<1>3. Only("?", ToString(s.ret % 256)) \in [{"?"} -> Texts]
  BY <1>2, OneIs, Zenon
<1>4. CmdEnv(s) \in [{"?"} \cup Vars -> Texts]
  <2>1. PICK f, e : f = Only("?", ToString(s.ret % 256)) /\ e = s.env
    OBVIOUS
  <2>2. f \in [{"?"} -> Texts] /\ e \in [Vars -> Texts]
    BY <1>1, <1>3, <2>1
  <2>3. Over(f, e) \in [{"?"} \cup Vars -> Texts]
    BY <2>2, OverIs, Zenon
  <2> QED BY <2>1, <2>3 DEF CmdEnv
<1>5. {"?"} \cup Vars = Vars \cup {"?"}
  OBVIOUS
<1> QED BY <1>4, <1>5, Zenon DEF CmdEnvs

\* Only the files change, and those by a name that was written.
Quiet(s, t) ==
    /\ t \in Shells /\ t.env = s.env /\ t.dir = s.dir /\ t.quit = s.quit /\ t.io = s.io

LEMMA CreateType ==
    ASSUME NEW s \in Shells, NEW f \in FileNames
    PROVE  Quiet(s, Create(s, f)) /\ Create(s, f).err = s.err
<1>1. s.files \in [FileNames -> Contents] /\ << >> \in Contents
  BY DEF Shells, Contents
<1>2. [s.files EXCEPT ![f] = << >>] \in [FileNames -> Contents]
  BY <1>1
<1> QED BY <1>2 DEF Create, Quiet, Shells

LEMMA WriteType ==
    ASSUME NEW s \in Shells, NEW to \in Writers, NEW p \in DOMAIN Programs
    PROVE  Quiet(s, Write(s, to, p))
<1>1. s.files \in [FileNames -> Contents] /\ s.pipes \in Seq(Contents)
  BY DEF Shells
<1>2. CASE to = Tty
  <2>1. to[1] = "tty"
    BY <1>2 DEF Tty
  <2>2. Write(s, to, p) = s
    BY <2>1 DEF Write
  <2> QED BY <2>2 DEF Quiet
<1>3. CASE to \in {"file"} \X FileNames
  <2>1. to[1] = "file" /\ to[2] \in FileNames
    BY <1>3
  <2>2. PICK f : f = to[2]
    OBVIOUS
  <2>3. s.files[f] \in Seq(DOMAIN Programs)
    BY <1>1, <2>1, <2>2 DEF Contents
  <2>4. Append(s.files[f], p) \in Contents
    BY <2>3, Extended, Zenon DEF Contents
  <2>5. PICK a : a = Append(s.files[f], p)
    OBVIOUS
  <2>6. [s.files EXCEPT ![f] = a] \in [FileNames -> Contents]
    BY <1>1, <2>4, <2>5
  <2>7. Write(s, to, p) = [s EXCEPT !.files = [s.files EXCEPT ![f] = a]]
    BY <2>1, <2>2, <2>5 DEF Write
  <2> QED BY <2>6, <2>7 DEF Quiet, Shells
<1>4. CASE to \in {"pipe"} \X Nat
  <2>1. to[1] = "pipe" /\ to[2] \in Nat
    BY <1>4
  <2>2. PICK i : i = to[2]
    OBVIOUS
  <2>3. PICK a : a = Append(s.pipes[i], p)
    OBVIOUS
  <2>4. i \in DOMAIN s.pipes => a \in Contents
    <3> SUFFICES ASSUME i \in DOMAIN s.pipes PROVE a \in Contents
      OBVIOUS
    <3>1. s.pipes[i] \in Seq(DOMAIN Programs)
      BY <1>1, Elements, Zenon DEF Contents
    <3> QED BY <2>3, <3>1, Extended, Zenon DEF Contents
  <2>5. [s.pipes EXCEPT ![i] = a] \in Seq(Contents)
    <3>1. PICK q : q = s.pipes
      OBVIOUS
    <3>2. q \in Seq(Contents) /\ (i \in DOMAIN q => a \in Contents)
      BY <1>1, <2>4, <3>1
    <3>3. [q EXCEPT ![i] = a] \in Seq(Contents)
      BY <2>1, <2>2, <3>2, Replaced, Zenon
    <3> QED BY <3>1, <3>3
  <2>6. Write(s, to, p) = [s EXCEPT !.pipes = [s.pipes EXCEPT ![i] = a]]
    BY <2>1, <2>2, <2>3 DEF Write
  <2> QED BY <2>5, <2>6 DEF Quiet, Shells
<1> QED BY <1>2, <1>3, <1>4 DEF Writers

\* The streams of a command after a redirection.
Redirected == [s: Shells, io: Streams, env: CmdEnvs]

LEMMA RedirectType ==
    ASSUME NEW r \in Redirected, NEW redir \in Redirections
    PROVE  /\ Redirect(r, redir) \in Redirected
           /\ Quiet(r.s, Redirect(r, redir).s)
           /\ Redirect(r, redir).env = r.env
<1>0. r.s \in Shells /\ r.io \in Streams /\ r.env \in CmdEnvs /\ redir.word \in Words
  BY DEF Redirected, Redirections
<1> DEFINE to == Value(r.env, redir.word)
           failed == [r EXCEPT !.s.err = TRUE]
           moved(w) == [r EXCEPT !.io[Sink(redir)] = w]
           made(w) == [r EXCEPT !.s = Create(@, to), !.io[Sink(redir)] = Named(to)]
<1>1. \A w \in Writers : [r.io EXCEPT ![Sink(redir)] = w] \in Streams
  <2> TAKE w \in Writers
  <2>1. CASE Sink(redir) = "err"
    BY <1>0, <2>1 DEF Streams
  <2>2. CASE Sink(redir) = "out"
    BY <1>0, <2>2 DEF Streams
  <2> QED BY <2>1, <2>2 DEF Sink
<1>2. r.s = r.s /\ Quiet(r.s, r.s)
  BY <1>0 DEF Quiet
<1>3. failed \in Redirected /\ Quiet(r.s, failed.s) /\ failed.env = r.env
  BY <1>0 DEF Redirected, Quiet, Shells
<1>4. r.io.out \in Writers /\ r.io.err \in Writers
  BY <1>0 DEF Streams
<1>5. ASSUME NEW w \in Writers
      PROVE  moved(w) \in Redirected /\ moved(w).s = r.s /\ moved(w).env = r.env
  <2>1. PICK io : io = [r.io EXCEPT ![Sink(redir)] = w]
    OBVIOUS
  <2>2. io \in Streams
    BY <1>1, <2>1
  <2>3. moved(w) = [r EXCEPT !.io = io]
    BY <2>1
  <2> HIDE DEF moved
  <2> QED BY <1>0, <2>2, <2>3 DEF Redirected
<1>6. ASSUME to \in FileNames
      PROVE  LET q == [r EXCEPT !.s = Create(@, to), !.io[Sink(redir)] = Named(to)]
             IN  q \in Redirected /\ Quiet(r.s, q.s) /\ q.env = r.env
  <2>1. PICK io, c : io = [r.io EXCEPT ![Sink(redir)] = Named(to)] /\ c = Create(r.s, to)
    OBVIOUS
  <2>2. Named(to) \in Writers
    BY <1>6 DEF Named, Writers
  <2>3. io \in Streams
    BY <1>1, <2>1, <2>2
  <2>4. Quiet(r.s, c)
    BY <1>0, <1>6, <2>1, CreateType
  <2>5. c \in Shells
    BY <2>4 DEF Quiet
  <2> DEFINE q == [r EXCEPT !.s = Create(@, to), !.io[Sink(redir)] = Named(to)]
  <2>6. q = [s |-> c, io |-> io, env |-> r.env]
    <3>1. PICK a, b, e : r = [s |-> a, io |-> b, env |-> e]
      BY DEF Redirected
    <3>2. r.s = a /\ r.io = b /\ r.env = e
      BY <3>1
    <3>3. io = [b EXCEPT ![Sink(redir)] = Named(to)] /\ c = Create(a, to)
      BY <2>1, <3>2
    <3>4. q = [s |-> Create(a, to), io |-> [b EXCEPT ![Sink(redir)] = Named(to)], env |-> e]
      <4>1. PICK k, w : k = Sink(redir) /\ w = Named(to)
        OBVIOUS
      <4>2. q = [r EXCEPT !.s = Create(@, to), !.io[k] = w]
        BY <4>1
      <4> HIDE DEF to, q
      <4>3. PICK p : p = [r EXCEPT !.s = Create(@, to)]
        OBVIOUS
      <4>4. p = [s |-> Create(a, to), io |-> b, env |-> e]
        BY <3>1, <4>3
      <4>5. q = [p EXCEPT !.io[k] = w]
        BY <4>2, <4>3, Zenon
      <4>6. q = [s |-> Create(a, to), io |-> [b EXCEPT ![k] = w], env |-> e]
        BY <4>4, <4>5
      <4> QED BY <4>1, <4>6
    <3> QED BY <3>2, <3>3, <3>4
  <2> HIDE DEF q
  <2>7. q \in Redirected /\ Quiet(r.s, q.s) /\ q.env = r.env
    BY <1>0, <2>3, <2>4, <2>5, <2>6 DEF Redirected
  <2> QED BY <2>7 DEF q
<1> HIDE DEF to
<1>7. \/ Redirect(r, redir) = r
      \/ Redirect(r, redir) = failed
      \/ \E w \in {r.io.out, r.io.err} : Redirect(r, redir) = moved(w)
      \/ /\ to \in FileNames
         /\ Redirect(r, redir) = [r EXCEPT !.s = Create(@, to), !.io[Sink(redir)] = Named(to)]
  <2>1. \A x : r.io[IF x = "2" THEN "err" ELSE "out"] \in {r.io.out, r.io.err}
    OBVIOUS
  <2> QED BY <2>1 DEF Redirect, to
<1> HIDE DEF failed, moved
<1> QED BY <1>2, <1>3, <1>4, <1>5, <1>6, <1>7

\* What holds at first and stays from each turn to the next holds throughout.
LEMMA Reached ==
    ASSUME NEW m \in Nat, NEW V, NEW u, u[0] \in V,
           \A n \in 1 .. m : u[n - 1] \in V => u[n] \in V
    PROVE  u[m] \in V
<1> DEFINE W == {n \in 0 .. m : u[n] \in V}
<1>1. 0 \in W
  OBVIOUS
<1>2. ASSUME NEW n \in 0 .. m - 1, n \in W PROVE n + 1 \in W
  <2>1. n + 1 \in 1 .. m /\ n + 1 \in 0 .. m /\ n + 1 - 1 = n
    OBVIOUS
  <2>2. u[n] \in V
    BY <1>2
  <2>3. u[n + 1] \in V
    BY <2>1, <2>2
  <2> QED BY <2>1, <2>3
<1>3. 0 .. m \subseteq W
  <2> HIDE DEF W
  <2> QED BY <1>1, <1>2, Induction
<1> QED BY <1>3

LEMMA RedirectsType ==
    ASSUME NEW s \in Shells, NEW io \in Streams, NEW env \in CmdEnvs,
           NEW redirs \in Seq(Redirections)
    PROVE  LET r == Redirects(s, io, env, redirs)
           IN  r \in Redirected /\ Quiet(s, r.s) /\ r.env = env
<1> DEFINE m == Len(redirs)
           base == [s |-> s, io |-> io, env |-> env]
           V == {r \in Redirected : Quiet(s, r.s) /\ r.env = env}
           step == [a \in V \X (1 .. m) |-> Redirect(a[1], redirs[a[2]])]
           Turn(g, n) == IF n = 0 THEN base ELSE Redirect(g[n - 1], redirs[n])
           Defined(h) == h = [n \in 0 .. m |-> Turn(h, n)]
           u == CHOOSE h : Defined(h)
<1>0. m \in Nat /\ \A n \in 1 .. m : redirs[n] \in Redirections
  BY Elements, Zenon
<1>1. base \in V
  BY DEF Redirected, Quiet
<1>2. ASSUME NEW r \in V, NEW n \in 1 .. m PROVE Redirect(r, redirs[n]) \in V
  <2>1. r \in Redirected /\ Quiet(s, r.s) /\ r.env = env
    OBVIOUS
  <2>2. PICK q : q = Redirect(r, redirs[n])
    OBVIOUS
  <2>3. q \in Redirected /\ Quiet(r.s, q.s) /\ q.env = r.env
    BY <1>0, <2>1, <2>2, RedirectType
  <2> QED BY <2>1, <2>2, <2>3 DEF Quiet
<1>3. Redirects(s, io, env, redirs) = u[m]
  BY DEF Redirects
<1> HIDE DEF V, base
<1>4. step \in [V \X (1 .. m) -> V]
  <2> HIDE DEF m
  <2> QED BY <1>2
<1>5. PICK g : Recurs(g, m, V, base, step)
  <2> HIDE DEF step, m
  <2> QED BY <1>0, <1>1, <1>4, Recursion, Zenon
<1> HIDE DEF m
<1>6. Defined(g)
  <2>1. g \in [0 .. m -> V] /\ g[0] = base /\ \A n \in 1 .. m : g[n] = step[<< g[n - 1], n >>]
    BY <1>5 DEF Recurs
  <2>2. ASSUME NEW n \in 1 .. m PROVE g[n] = Redirect(g[n - 1], redirs[n])
    <3>1. << g[n - 1], n >> \in V \X (1 .. m)
      BY <1>0, <2>1
    <3> QED BY <2>1, <3>1
  <2>3. \A n \in 0 .. m : g[n] = Turn(g, n)
    <3>1. \A n \in 0 .. m : n = 0 \/ n \in 1 .. m
      BY <1>0
    <3> QED BY <2>1, <2>2, <3>1
  <2> HIDE DEF step, Turn
  <2> QED BY <2>1, <2>3
<1>7. Defined(u)
  <2> HIDE DEF Defined
  <2> QED BY <1>6
<1> HIDE DEF u
<1>8. \A n \in 0 .. m : u[n] = Turn(u, n)
  <2> HIDE DEF Turn
  <2> QED BY <1>7
<1>9. u[m] \in V
  <2>1. u[0] = base /\ \A n \in 1 .. m : u[n] = Redirect(u[n - 1], redirs[n])
    BY <1>0, <1>8
  <2> QED BY <1>0, <1>1, <1>2, <2>1, Reached
<1> QED BY <1>3, <1>9 DEF V

(***************************************************************************)
(* What a statement may change                                             *)
(***************************************************************************)

Assigns(calls, v) ==
    \E c \in calls : c.args = << >> /\ \E i \in DOMAIN c.assigns : c.assigns[i].name = v

Says(calls, texts) == \E c \in calls : Mentions(c, texts)

\* The shell is changed from s to t by these calls only.
Changes(s, t, calls) ==
    /\ \A v \in Vars : t.env[v] # s.env[v] => Assigns(calls, v)
    /\ t.dir # s.dir => Says(calls, {"cd"})
    /\ t.quit => s.quit \/ Says(calls, {"exit", "logout"})

LEMMA ChangesCompose ==
    ASSUME NEW s, NEW t, NEW r, NEW a, NEW b, NEW calls, a \subseteq calls, b \subseteq calls,
           Changes(s, t, a), Changes(t, r, b)
    PROVE  Changes(s, r, calls)
<1>1. \A v : Assigns(a, v) \/ Assigns(b, v) => Assigns(calls, v)
  BY DEF Assigns
<1>2. \A texts : Says(a, texts) \/ Says(b, texts) => Says(calls, texts)
  BY DEF Says
<1> QED BY <1>1, <1>2 DEF Changes

LEMMA QuietChanges == ASSUME NEW s, NEW t, Quiet(s, t), NEW calls PROVE Changes(s, t, calls)
BY DEF Quiet, Changes

\* `run` executes statements so that nothing but their calls changes the shell.
Runs(run, calls) ==
    /\ run \in [Jobs -> Shells]
    /\ calls \in [Statements -> SUBSET Calls]
    /\ \A c \in Calls : calls[c] = {c}
    /\ \A job \in Jobs : Changes(job.s, run[job], calls[job.stmt])

LEMMA FileType ==
    ASSUME NEW run, NEW calls, Runs(run, calls), NEW s \in Shells, NEW line \in Seq(Statements),
           NEW all, \A i \in DOMAIN line : calls[line[i]] \subseteq all
    PROVE  ExecuteFile(run, s, line) \in Shells /\ Changes(s, ExecuteFile(run, s, line), all)
<1> DEFINE m == Len(line)
           V == {t \in Shells : Changes(s, t, all)}
           Job(t, n) == [s |-> t, io |-> t.io, env |-> CmdEnv(t), stmt |-> line[n]]
           Next1(t, n) == IF t.err THEN t ELSE run[Job(t, n)]
           step == [a \in V \X (1 .. m) |-> Next1(a[1], a[2])]
           Turn(g, n) == IF n = 0 THEN s ELSE Next1(g[n - 1], n)
           Defined(h) == h = [n \in 0 .. m |-> Turn(h, n)]
           u == CHOOSE h : Defined(h)
<1>0. m \in Nat /\ \A n \in 1 .. m : line[n] \in Statements /\ calls[line[n]] \subseteq all
  <2>1. m \in Nat /\ DOMAIN line = 1 .. m /\ \A n \in 1 .. m : line[n] \in Statements
    BY Elements, Zenon
  <2> QED BY <2>1
<1>1. s \in V
  BY DEF Changes
<1>2. ASSUME NEW t \in V, NEW n \in 1 .. m PROVE Next1(t, n) \in V
  <2>1. t \in Shells /\ Changes(s, t, all)
    OBVIOUS
  <2>2. CASE t.err
    BY <2>1, <2>2
  <2>3. CASE ~t.err
    <3>1. t.io \in Streams /\ CmdEnv(t) \in CmdEnvs
      BY <2>1, CmdEnvType DEF Shells
    <3>2. PICK job : job = Job(t, n)
      OBVIOUS
    <3>3. job \in Jobs /\ job.s = t /\ job.stmt = line[n]
      <4> HIDE DEF m
      <4> QED BY <1>0, <2>1, <3>1, <3>2 DEF Jobs
    <3>4. run[job] \in Shells /\ Changes(t, run[job], calls[line[n]])
      BY <3>3 DEF Runs
    <3>5. Changes(s, run[job], all)
      <4> HIDE DEF m
      <4> QED BY <1>0, <2>1, <3>4, ChangesCompose
    <3> QED BY <2>3, <3>2, <3>4, <3>5
  <2> QED BY <2>2, <2>3
<1>3. ExecuteFile(run, s, line) = u[m]
  BY DEF ExecuteFile
<1> HIDE DEF V, Next1
<1>4. step \in [V \X (1 .. m) -> V]
  <2> HIDE DEF m
  <2> QED BY <1>2
<1>5. PICK g : Recurs(g, m, V, s, step)
  <2> HIDE DEF step, m
  <2> QED BY <1>0, <1>1, <1>4, Recursion, Zenon
<1> HIDE DEF m
<1>6. Defined(g)
  <2>1. g \in [0 .. m -> V] /\ g[0] = s /\ \A n \in 1 .. m : g[n] = step[<< g[n - 1], n >>]
    BY <1>5 DEF Recurs
  <2>2. ASSUME NEW n \in 1 .. m PROVE g[n] = Next1(g[n - 1], n)
    <3>1. << g[n - 1], n >> \in V \X (1 .. m)
      BY <1>0, <2>1
    <3> QED BY <2>1, <3>1
  <2>3. \A n \in 0 .. m : g[n] = Turn(g, n)
    <3>1. \A n \in 0 .. m : n = 0 \/ n \in 1 .. m
      BY <1>0
    <3> QED BY <2>1, <2>2, <3>1
  <2> HIDE DEF step, Turn
  <2> QED BY <2>1, <2>3
<1>7. Defined(u)
  <2> HIDE DEF Defined
  <2> QED BY <1>6
<1> HIDE DEF u
<1>8. \A n \in 0 .. m : u[n] = Turn(u, n)
  <2> HIDE DEF Turn
  <2> QED BY <1>7
<1>9. u[m] \in V
  <2>1. u[0] = s /\ \A n \in 1 .. m : u[n] = Next1(u[n - 1], n)
    BY <1>0, <1>8
  <2>2. ASSUME NEW n \in 1 .. m, u[n - 1] \in V PROVE u[n] \in V
    <3>1. Next1(u[n - 1], n) \in V
      BY <1>2, <2>2
    <3> QED BY <2>1, <3>1
  <2>3. u[0] \in V
    BY <1>1, <2>1
  <2> QED BY <1>0, <2>2, <2>3, Reached
<1> QED BY <1>3, <1>9 DEF V

(***************************************************************************)
(* Programs and builtins                                                   *)
(***************************************************************************)

LEMMA RanType ==
    ASSUME NEW s \in Shells, NEW io \in Streams, NEW env \in Envs, NEW args \in Seq(Texts)
    PROVE  Quiet(s, Ran(s, io, env, args))
<1> DEFINE to(w) == Told(w)
           entry == [args |-> args, env |-> env, dir |-> s.dir, read |-> ReadFrom(s, io.in),
                     out |-> Told(io.out), err |-> Told(io.err)]
<1>1. \A w \in Writers : Told(w) \in {Tty, << "pipe" >>} \cup ({"file"} \X FileNames)
  <2> TAKE w \in Writers
  <2>1. CASE w = Tty
    BY <2>1 DEF Told, Tty
  <2>2. CASE w \in {"file"} \X FileNames
    BY <2>2 DEF Told
  <2>3. CASE w \in {"pipe"} \X Nat
    BY <2>3 DEF Told
  <2> QED BY <2>1, <2>2, <2>3 DEF Writers
<1>2. ReadFrom(s, io.in) \in Contents \cup {Tty}
  <2>1. io.in \in {Tty} \cup ({"pipe"} \X Nat) /\ s.pipes \in Seq(Contents)
    BY DEF Streams, Shells
  <2>2. PICK from, q : from = io.in /\ q = s.pipes
    OBVIOUS
  <2>3. << >> \in Contents
    BY DEF Contents
  <2>4. from[2] \in DOMAIN q => q[from[2]] \in Contents
    BY <2>1, <2>2, Elements, Zenon
  <2> QED BY <2>2, <2>3, <2>4 DEF ReadFrom
<1>3. io.out \in Writers /\ io.err \in Writers /\ s.dir \in Dirs /\ s.ran \in Seq(Processes)
  BY DEF Streams, Shells
<1>4. entry \in Processes
  BY <1>1, <1>2, <1>3 DEF Processes
<1>5. PICK e, q : e = entry /\ q = Append(s.ran, e)
  OBVIOUS
<1>6. q \in Seq(Processes)
  BY <1>3, <1>4, <1>5, Extended, Zenon
<1>7. Ran(s, io, env, args) = [s EXCEPT !.ran = q]
  BY <1>5 DEF Ran
<1> QED BY <1>6, <1>7 DEF Quiet, Shells

LEMMA RunProgramType ==
    ASSUME NEW s \in Shells, NEW io \in Streams, NEW env \in Envs, NEW args \in Seq(Texts),
           NEW o \in Outcomes, args # << >>, Starts(args[1]), args[1] # "sh"
    PROVE  Quiet(s, RunProgram(s, io, env, args, o))
<1>1. PICK p : p = Head(args) /\ p = args[1]
  OBVIOUS
<1>2. p \in DOMAIN Programs
  BY <1>1 DEF Starts, FindHoneypotCommand, LookPath
<1>3. Ends(p, o) \in Statuses
  <2>1. CASE FindHoneypotCommand(p)
    <3>1. p \in Fake
      BY <1>1, <2>1 DEF FindHoneypotCommand, Fake
    <3>2. o[p] \in {0, 1}
      BY <3>1 DEF Outcomes
    <3> QED BY <2>1, <3>2 DEF Ends, Statuses
  <2>2. CASE ~FindHoneypotCommand(p)
    BY <2>2 DEF Ends, Statuses
  <2> QED BY <2>1, <2>2
<1>4. Prints(p, o, io) \in Writers
  BY DEF Prints, Streams
<1>5. PICK r : r = Ran(s, io, env, args)
  OBVIOUS
<1>6. Quiet(s, r)
  BY <1>5, RanType
<1>7. PICK w : w = Write(r, Prints(p, o, io), p)
  OBVIOUS
<1>8. Quiet(r, w)
  <2>1. r \in Shells
    BY <1>6 DEF Quiet
  <2> QED BY <1>2, <1>4, <1>7, <2>1, WriteType
<1>9. RunProgram(s, io, env, args, o) = [w EXCEPT !.ret = Ends(p, o)]
  BY <1>1, <1>5, <1>7 DEF RunProgram
<1> QED BY <1>3, <1>6, <1>8, <1>9 DEF Quiet, Shells

\* A child changes nothing of the shell, whatever its script changes of the child.
LEMMA RunShellType ==
    ASSUME NEW run, NEW calls, Runs(run, calls), NEW s \in Shells, NEW io \in Streams,
           NEW env \in Envs, NEW args \in Seq(Texts)
    PROVE  Quiet(s, RunShell(run, s, io, env, args))
<1>1. PICK r : r = Ran(s, io, env, args)
  OBVIOUS
<1>2. r \in Shells
  BY <1>1, RanType DEF Quiet
<1>3. PICK begun : begun = [r EXCEPT !.env = env, !.dir = Home, !.ret = 0, !.quit = FALSE, !.io = io]
  OBVIOUS
<1>4. begun \in Shells
  <2>1. Home \in Dirs /\ 0 \in Statuses
    <3>1. Home \in Dirs
      BY InterpreterAssumption, Zenon
    <3> QED BY <3>1 DEF Statuses
  <2> QED BY <1>2, <1>3, <2>1 DEF Shells
<1>5. Script(args[3]) \in Seq(Statements)
  <2>1. PICK text : text = args[3]
    OBVIOUS
  <2>2. text \in DOMAIN Scripts => Scripts[text] \in Seq(Statements)
    BY InterpreterAssumption, Zenon
  <2>3. << >> \in Seq(Statements)
    OBVIOUS
  <2>4. Script(text) \in Seq(Statements)
    BY <2>2, <2>3 DEF Script
  <2> QED BY <2>1, <2>4
<1>6. PICK file : file = ExecuteFile(run, begun, Script(args[3]))
  OBVIOUS
<1>7. file \in Shells
  <2>1. PICK line : line = Script(args[3])
    OBVIOUS
  <2>2. line \in Seq(Statements)
    BY <1>5, <2>1
  <2>3. \A i \in DOMAIN line : calls[line[i]] \subseteq Calls
    <3>1. \A i \in DOMAIN line : line[i] \in Statements
      BY <2>2, Elements, Zenon
    <3> QED BY <3>1 DEF Runs
  <2> QED BY <1>4, <1>6, <2>1, <2>2, <2>3, FileType
<1>8. PICK child : child = IF HasScript(args) THEN [file EXCEPT !.err = FALSE] ELSE [begun EXCEPT !.ret = 1]
  OBVIOUS
<1>9. child \in Shells
  <2>1. [file EXCEPT !.err = FALSE] \in Shells
    BY <1>7 DEF Shells
  <2>2. [begun EXCEPT !.ret = 1] \in Shells
    <3>1. 1 \in Statuses
      BY DEF Statuses
    <3>2. begun \in Shells
      BY <1>4
    <3> QED BY <3>1, <3>2 DEF Shells
  <2> QED BY <1>8, <2>1, <2>2
<1>10. RunShell(run, s, io, env, args)
          = [child EXCEPT !.env = s.env, !.dir = s.dir, !.quit = s.quit, !.io = s.io]
  BY <1>1, <1>3, <1>6, <1>8 DEF RunShell, RunCommand
<1>11. s.env \in Envs /\ s.dir \in Dirs /\ s.quit \in BOOLEAN /\ s.io \in Streams
  BY DEF Shells
<1> QED BY <1>9, <1>10, <1>11 DEF Quiet, Shells

\* The words of a call as a command gets them.
Expanded(env, call) == [i \in DOMAIN call.args |-> Value(env, call.args[i])]

LEMMA ExpandedIs ==
    ASSUME NEW env \in CmdEnvs, NEW call \in Calls, NEW args, args = Expanded(env, call)
    PROVE  /\ args \in Seq(Texts) /\ Len(args) = Len(call.args)
           /\ \A i \in DOMAIN args : \A texts : args[i] \in texts => Mentions(call, texts)
<1>1. PICK words : words = call.args
  OBVIOUS
<1>2. words \in Seq(Words)
  BY <1>1 DEF Calls
<1>3. /\ Len(words) \in Nat /\ DOMAIN words = 1 .. Len(words)
      /\ \A i \in 1 .. Len(words) : words[i] \in Words
  BY <1>2, Elements, Zenon
<1>4. args = [i \in 1 .. Len(words) |-> Value(env, words[i])]
  BY <1>1, <1>3 DEF Expanded
<1>5. \A i \in 1 .. Len(words) : Value(env, words[i]) \in Texts
  BY <1>3, ValueType
<1>6. args \in Seq(Texts) /\ Len(args) = Len(words) /\ DOMAIN args = 1 .. Len(words)
  BY <1>3, <1>4, <1>5
<1>7. ASSUME NEW i \in DOMAIN args, NEW texts, args[i] \in texts PROVE Mentions(call, texts)
  <2>1. i \in DOMAIN call.args /\ args[i] = Value(env, call.args[i])
    BY <1>1, <1>3, <1>4, <1>6
  <2>2. call.args[i].kind = "param" \/ call.args[i].text \in texts
    BY <1>7, <2>1 DEF Value
  <2> QED BY <2>1, <2>2 DEF Mentions
<1> QED BY <1>1, <1>6, <1>7

\* What sudo executes is a call of its arguments.
LEMMA ReparsedIs ==
    ASSUME NEW args \in Seq(Texts)
    PROVE  /\ Reparsed(args) \in Seq(Calls)
           /\ \A i \in DOMAIN Reparsed(args) :
                 LET c == Reparsed(args)[i]
                 IN  /\ c.args # << >>
                     /\ \A texts : Mentions(c, texts) => \E j \in DOMAIN args : args[j] \in texts
<1>1. CASE args = << >>
  BY <1>1 DEF Reparsed
<1>2. CASE args # << >>
  <2> DEFINE words == [i \in DOMAIN args |-> [kind |-> "lit", text |-> args[i]]]
             call == [op |-> "call", assigns |-> << >>, redirs |-> << >>, negated |-> FALSE,
                      args |-> words]
  <2>1. /\ Len(args) \in Nat /\ DOMAIN args = 1 .. Len(args)
        /\ \A i \in 1 .. Len(args) : args[i] \in Texts
    BY Elements, Zenon
  <2>2. \A i \in 1 .. Len(args) : [kind |-> "lit", text |-> args[i]] \in Words
    BY <2>1 DEF Words
  <2>3. words \in Seq(Words) /\ DOMAIN words = DOMAIN args /\ words # << >>
    <3>1. words = [i \in 1 .. Len(args) |-> [kind |-> "lit", text |-> args[i]]]
      BY <2>1
    <3>2. words \in Seq(Words) /\ DOMAIN words = 1 .. Len(args)
      BY <2>1, <2>2, <3>1
    <3>3. Len(args) # 0
      BY <1>2
    <3> QED BY <2>1, <3>2, <3>3
  <2>4. \A i \in DOMAIN args : words[i].kind = "lit" /\ words[i].text = args[i]
    OBVIOUS
  <2> HIDE DEF words
  <2>5. call \in Calls
    BY <2>3 DEF Calls
  <2>6. \A texts : Mentions(call, texts) => \E j \in DOMAIN args : args[j] \in texts
    BY <2>3, <2>4 DEF Mentions
  <2>7. call.args # << >>
    BY <2>3
  <2>8. Reparsed(args) = << call >>
    BY <1>2 DEF Reparsed, words
  <2> HIDE DEF call
  <2>9. << call >> \in Seq(Calls) /\ \A i \in DOMAIN << call >> : << call >>[i] = call
    BY <2>5
  <2> QED BY <2>6, <2>7, <2>8, <2>9
<1> QED BY <1>1, <1>2

LEMMA CdType ==
    ASSUME NEW s \in Shells, NEW args \in Seq(Texts)
    PROVE  /\ Cd(s, args) \in Shells
           /\ Cd(s, args).env = s.env /\ Cd(s, args).quit = s.quit
<1>1. PICK to : to = IF Len(args) = 1 THEN Home ELSE args[2]
  OBVIOUS
<1>2. Cd(s, args) = IF Len(args) <= 2 /\ to \in Dirs THEN [s EXCEPT !.dir = to, !.ret = 0]
                                                     ELSE [s EXCEPT !.ret = 1]
  BY <1>1 DEF Cd
<1>3. 0 \in Statuses /\ 1 \in Statuses
  BY DEF Statuses
<1> QED BY <1>2, <1>3 DEF Shells

\* A call changes what it names, whatever it turns out to be.
LEMMA ProgramOrBuiltinType ==
    ASSUME NEW run, NEW calls, Runs(run, calls), NEW s \in Shells, NEW io \in Streams,
           NEW env \in CmdEnvs, NEW call \in Calls, NEW o \in Outcomes,
           NEW assigned \in Partial(NamesOf(call.assigns)), NEW args, args = Expanded(env, call),
           NEW t, t = ExecuteProgramOrBuiltin(run, s, io, assigned, args, o)
    PROVE  t \in Shells /\ Changes(s, t, {call})
<1>1. /\ args \in Seq(Texts) /\ Len(args) = Len(call.args)
      /\ \A i \in DOMAIN args : \A texts : args[i] \in texts => Says({call}, texts)
  BY ExpandedIs DEF Says
<1>2. PICK D \in SUBSET NamesOf(call.assigns) : assigned \in [D -> Texts]
  BY DEF Partial
<1>3. D \subseteq Vars
  <2>1. PICK q : q = call.assigns
    OBVIOUS
  <2>2. q \in Seq([name: Vars, word: Words])
    BY <2>1 DEF Calls
  <2>3. DOMAIN q = 1 .. Len(q) /\ \A i \in 1 .. Len(q) : q[i] \in [name: Vars, word: Words]
    BY <2>2, Elements, Zenon
  <2>4. NamesOf(q) \subseteq Vars
    BY <2>3 DEF NamesOf
  <2> QED BY <2>1, <2>4
<1>4. s.env \in [Vars -> Texts] /\ s.env \in Envs
  BY DEF Shells, Envs
<1>5. PICK over : over = Over(assigned, s.env)
  OBVIOUS
<1>6. over \in Envs /\ \A v \in Vars \ D : over[v] = s.env[v]
  <2>1. PICK f : f = s.env
    OBVIOUS
  <2>2. Over(assigned, f) \in [D \cup Vars -> Texts] /\ \A v \in Vars \ D : Over(assigned, f)[v] = f[v]
    <3>1. f \in [Vars -> Texts] /\ assigned \in [D -> Texts]
      BY <1>2, <1>4, <2>1
    <3>2. Over(assigned, f) \in [D \cup Vars -> Texts]
      BY <3>1, OverIs, Zenon
    <3>3. \A v \in Vars \ D : Over(assigned, f)[v] = f[v]
      BY <3>1 DEF Over
    <3> QED BY <3>2, <3>3
  <2>3. D \cup Vars = Vars
    BY <1>3
  <2> QED BY <1>5, <2>1, <2>2, <2>3 DEF Envs
<1>7. CASE args = << >>
  <2>1. t = [s EXCEPT !.env = over]
    BY <1>5, <1>7 DEF ExecuteProgramOrBuiltin
  <2>2. t \in Shells /\ t.env = over /\ t.dir = s.dir /\ t.quit = s.quit
    BY <1>6, <2>1 DEF Shells
  <2>3. call.args = << >>
    <3>1. call.args \in Seq(Words)
      BY DEF Calls
    <3>2. Len(call.args) = 0
      BY <1>1, <1>7
    <3> QED BY <3>1, <3>2
  <2>4. \A v \in D : Assigns({call}, v)
    BY <1>2, <2>3 DEF Assigns, NamesOf
  <2> QED BY <1>6, <2>2, <2>4 DEF Changes
<1>8. args # << >> => 1 \in DOMAIN args
  BY <1>1
<1>9. CASE args # << >> /\ args[1] \in Builtins /\ args[1] = "cd"
  <2>1. t = Cd(s, args)
    BY <1>9 DEF ExecuteProgramOrBuiltin
  <2>2. Says({call}, {"cd"})
    BY <1>1, <1>8, <1>9
  <2>3. t \in Shells /\ t.env = s.env /\ t.quit = s.quit
    BY <1>1, <2>1, CdType
  <2> QED BY <2>2, <2>3 DEF Changes
<1>10. CASE args # << >> /\ args[1] \in Builtins /\ args[1] \in {"exit", "logout"}
  <2>1. t = Exit(s)
    BY <1>10 DEF ExecuteProgramOrBuiltin
  <2>2. Says({call}, {"exit", "logout"})
    BY <1>1, <1>8, <1>10
  <2>3. t \in Shells /\ t.env = s.env /\ t.dir = s.dir
    <3>1. t = [s EXCEPT !.quit = TRUE, !.ret = 0] /\ 0 \in Statuses
      BY <2>1 DEF Exit, Statuses
    <3> QED BY <3>1 DEF Shells
  <2> QED BY <2>2, <2>3 DEF Changes
<1>11. CASE args # << >> /\ args[1] \in Builtins /\ args[1] = "sudo"
  <2>1. PICK line, rest : line = Reparsed(rest) /\ rest = Tail(args)
    OBVIOUS
  <2>2. rest \in Seq(Texts) /\ \A j \in DOMAIN rest : \E i \in DOMAIN args : rest[j] = args[i]
    <3>1. rest \in Seq(Texts)
      BY <1>1, <1>11, <2>1
    <3>2. ASSUME NEW j \in DOMAIN rest PROVE j + 1 \in DOMAIN args /\ rest[j] = args[j + 1]
      BY <1>1, <1>11, <2>1
    <3> QED BY <3>1, <3>2
  <2>3. /\ line \in Seq(Calls)
        /\ \A i \in DOMAIN line :
              /\ line[i].args # << >>
              /\ \A texts : Mentions(line[i], texts) => Says({call}, texts)
    <3>1. ASSUME NEW texts, NEW j \in DOMAIN rest, rest[j] \in texts PROVE Says({call}, texts)
      BY <1>1, <2>2, <3>1
    <3>2. /\ line \in Seq(Calls)
          /\ \A i \in DOMAIN line :
                /\ line[i].args # << >>
                /\ \A texts : Mentions(line[i], texts) => \E j \in DOMAIN rest : rest[j] \in texts
      BY <2>1, <2>2, ReparsedIs, Zenon
    <3> QED BY <3>1, <3>2
  <2>4. PICK within : within = {line[i] : i \in DOMAIN line}
    OBVIOUS
  <2>5. line \in Seq(Statements) /\ \A i \in DOMAIN line : calls[line[i]] \subseteq within
    <3>1. DOMAIN line = 1 .. Len(line) /\ Len(line) \in Nat /\ \A i \in 1 .. Len(line) : line[i] \in Calls
      BY <2>3, Elements, Zenon
    <3>2. Calls \subseteq Statements
      BY StatementShape DEF Simple
    <3>3. \A i \in DOMAIN line : calls[line[i]] = {line[i]}
      BY <3>1 DEF Runs
    <3>4. line \in Seq(Statements)
      BY <2>3, <3>2
    <3> QED BY <2>4, <3>3, <3>4
  <2>6. PICK file : file = ExecuteFile(run, s, line)
    OBVIOUS
  <2>7. file \in Shells /\ Changes(s, file, within)
    BY <2>5, <2>6, FileType
  <2>8. t = [file EXCEPT !.err = FALSE]
    BY <1>11, <2>1, <2>6 DEF ExecuteProgramOrBuiltin, RunCommand
  <2>9. t \in Shells /\ Changes(s, t, within)
    BY <2>7, <2>8 DEF Shells, Changes
  <2>10. \A v : ~Assigns(within, v)
    BY <2>3, <2>4 DEF Assigns
  <2>11. \A texts : Says(within, texts) => Says({call}, texts)
    <3>1. \A texts : Says(within, texts) => \E i \in DOMAIN line : Mentions(line[i], texts)
      BY <2>4 DEF Says
    <3> QED BY <2>3, <3>1
  <2> QED BY <2>9, <2>10, <2>11 DEF Changes
<1>12. CASE args # << >> /\ args[1] \in Builtins /\ args[1] \notin {"cd", "exit", "logout", "sudo"}
  <2>1. t = [s EXCEPT !.ret = 0]
    BY <1>12 DEF ExecuteProgramOrBuiltin
  <2> QED BY <2>1 DEF Changes, Shells, Statuses
<1>13. CASE args # << >> /\ args[1] \notin Builtins /\ ~Starts(args[1])
  <2>1. t = s
    BY <1>13 DEF ExecuteProgramOrBuiltin
  <2> QED BY <2>1 DEF Changes
<1>14. CASE args # << >> /\ args[1] \notin Builtins /\ Starts(args[1])
  <2>1. t = IF args[1] = "sh" THEN RunShell(run, s, io, over, args) ELSE RunProgram(s, io, over, args, o)
    BY <1>5, <1>14 DEF ExecuteProgramOrBuiltin
  <2>2. CASE args[1] = "sh"
    <3>1. Quiet(s, t)
      BY <1>1, <1>6, <2>1, <2>2, RunShellType
    <3> QED BY <3>1, QuietChanges DEF Quiet
  <2>3. CASE args[1] # "sh"
    <3>1. Quiet(s, t)
      BY <1>1, <1>6, <1>14, <2>1, <2>3, RunProgramType
    <3> QED BY <3>1, QuietChanges DEF Quiet
  <2> QED BY <2>2, <2>3
<1> QED BY <1>7, <1>9, <1>10, <1>11, <1>12, <1>13, <1>14

LEMMA CallType ==
    ASSUME NEW run, NEW calls, Runs(run, calls), NEW s \in Shells, NEW io \in Streams,
           NEW env \in CmdEnvs, NEW call \in Calls, NEW o \in Outcomes,
           NEW t, t = ExecuteCall(run, s, io, env, call, o)
    PROVE  t \in Shells /\ Changes(s, t, {call})
<1>1. PICK r : r = Redirects(s, io, env, call.redirs)
  OBVIOUS
<1>2. r \in Redirected /\ Quiet(s, r.s) /\ r.s \in Shells /\ r.io \in Streams
  <2>1. PICK redirs : redirs = call.redirs
    OBVIOUS
  <2>2. redirs \in Seq(Redirections)
    BY <2>1 DEF Calls, Redirections
  <2>3. r \in Redirected /\ Quiet(s, r.s)
    BY <1>1, <2>1, <2>2, RedirectsType
  <2> QED BY <2>3 DEF Redirected
<1>3. PICK args : args = Expanded(env, call)
  OBVIOUS
<1>4. PICK assigned : assigned = Assigned(env, call.assigns)
  OBVIOUS
<1>5. assigned \in Partial(NamesOf(call.assigns))
  <2>1. call.assigns \in Assignments
    BY DEF Calls, Assignments
  <2> QED BY <1>4, <2>1, AssignedType
<1>6. t = Fails(r.s) \/ t = ExecuteProgramOrBuiltin(run, r.s, r.io, assigned, args, o)
  BY <1>1, <1>3, <1>4 DEF ExecuteCall, Expanded
<1>7. CASE t = Fails(r.s)
  <2>1. Quiet(s, t)
    BY <1>2, <1>7 DEF Fails, Quiet, Shells
  <2> QED BY <2>1, QuietChanges DEF Quiet
<1>8. CASE t = ExecuteProgramOrBuiltin(run, r.s, r.io, assigned, args, o)
  <2>1. PICK b, i : b = r.s /\ i = r.io
    OBVIOUS
  <2>2. b \in Shells /\ i \in Streams /\ t = ExecuteProgramOrBuiltin(run, b, i, assigned, args, o)
    BY <1>2, <1>8, <2>1
  <2>3. t \in Shells /\ Changes(b, t, {call})
    BY <1>3, <1>5, <2>2, ProgramOrBuiltinType
  <2>4. Changes(s, b, {call})
    BY <1>2, <2>1, QuietChanges
  <2> QED BY <2>3, <2>4, ChangesCompose
<1> QED BY <1>6, <1>7, <1>8

(***************************************************************************)
(* Statements                                                              *)
(***************************************************************************)

\* The calls of a statement, from those of its parts.
Within(calls, stmt) ==
    IF stmt.op = "call" THEN {stmt}
    ELSE IF stmt.op \in Operators THEN calls[stmt.x] \cup calls[stmt.y] ELSE {}

LEMMA StatementType ==
    ASSUME NEW run, NEW calls, Runs(run, calls), NEW job \in Jobs, NEW o \in Outcomes,
           NEW t, t = ExecuteStatement(run, job.s, job.io, job.env, job.stmt, o)
    PROVE  t \in Shells /\ Changes(job.s, t, Within(calls, job.stmt))
<1>1. PICK s, io, env, stmt :
         s = job.s /\ io = job.io /\ env = job.env /\ stmt = job.stmt
  OBVIOUS
<1>2. s \in Shells /\ io \in Streams /\ env \in CmdEnvs /\ stmt \in Statements
  BY <1>1 DEF Jobs
<1>3. t = ExecuteStatement(run, s, io, env, stmt, o)
  BY <1>1
<1>4. PICK all : all = Within(calls, stmt)
  OBVIOUS
<1> SUFFICES t \in Shells /\ Changes(s, t, all)
  BY <1>1, <1>4
<1>5. stmt \in Simple \/ (stmt.op \in Operators /\ stmt.x \in Statements /\ stmt.y \in Statements)
  BY <1>2, StatementShape DEF Shaped
<1>6. ASSUME NEW b \in Shells, NEW i \in Streams, NEW part \in Statements,
             calls[part] \subseteq all, Changes(s, b, all)
      PROVE  LET r == run[[s |-> b, io |-> i, env |-> env, stmt |-> part]]
             IN  r \in Shells /\ Changes(s, r, all)
  <2>1. PICK j : j = [s |-> b, io |-> i, env |-> env, stmt |-> part]
    OBVIOUS
  <2>2. j \in Jobs /\ j.s = b /\ j.stmt = part
    BY <1>2, <2>1 DEF Jobs
  <2>3. run[j] \in Shells /\ Changes(b, run[j], calls[part])
    BY <2>2 DEF Runs
  <2>4. Changes(s, run[j], all)
    BY <1>6, <2>3, ChangesCompose
  <2> QED BY <2>1, <2>3, <2>4
<1>7. CASE stmt \in Calls
  <2>1. stmt.op = "call"
    BY <1>7 DEF Calls
  <2>2. all = {stmt} /\ t = ExecuteCall(run, s, io, env, stmt, o)
    BY <1>3, <1>4, <2>1 DEF Within, ExecuteStatement
  <2> QED BY <1>2, <1>7, <2>2, CallType
<1>8. Changes(s, s, all)
  BY DEF Changes
<1>9. CASE stmt \in Others
  <2>1. PICK redirs : redirs = stmt.redirs
    OBVIOUS
  <2>2. stmt.op = "other" /\ redirs \in Seq(Redirections)
    BY <1>9, <2>1 DEF Others
  <2>3. PICK r : r = Redirects(s, io, env, redirs)
    OBVIOUS
  <2>4. r.s \in Shells /\ Quiet(s, r.s)
    BY <1>2, <2>2, <2>3, RedirectsType DEF Redirected
  <2>5. t = Fails(r.s)
    BY <1>3, <2>1, <2>2, <2>3 DEF ExecuteStatement
  <2>6. Quiet(s, t)
    BY <2>4, <2>5 DEF Fails, Quiet, Shells
  <2> QED BY <2>6, QuietChanges DEF Quiet
<1>10. CASE stmt.op \in Operators /\ stmt.x \in Statements /\ stmt.y \in Statements
  <2>1. stmt.op # "call" /\ calls[stmt.x] \subseteq all /\ calls[stmt.y] \subseteq all
    BY <1>4, <1>10 DEF Within, Operators
  <2>2. CASE stmt.op \in {"and", "or"}
    <3>1. PICK x : x = run[[s |-> s, io |-> io, env |-> env, stmt |-> stmt.x]]
      OBVIOUS
    <3>2. x \in Shells /\ Changes(s, x, all)
      BY <1>2, <1>6, <1>8, <1>10, <2>1, <3>1
    <3>3. PICK y : y = run[[s |-> x, io |-> io, env |-> env, stmt |-> stmt.y]]
      OBVIOUS
    <3>4. y \in Shells /\ Changes(s, y, all)
      BY <1>2, <1>6, <1>10, <2>1, <3>2, <3>3
    <3>5. t = x \/ t = y
      BY <1>3, <2>1, <2>2, <3>1, <3>3 DEF ExecuteStatement
    <3> QED BY <3>2, <3>4, <3>5
  <2>3. CASE stmt.op = "pipe"
    <3>1. PICK pipe : pipe = Pipe(Len(s.pipes) + 1)
      OBVIOUS
    <3>2. PICK into, from : into = [io EXCEPT !.out = pipe] /\ from = [io EXCEPT !.in = pipe]
      OBVIOUS
    <3>3. into \in Streams /\ from \in Streams
      <4>1. s.pipes \in Seq(Contents)
        BY <1>2 DEF Shells
      <4>2. Len(s.pipes) + 1 \in Nat
        BY <4>1
      <4>3. pipe \in {"pipe"} \X Nat
        BY <3>1, <4>2 DEF Pipe
      <4> QED BY <1>2, <3>2, <4>3 DEF Streams, Writers
    <3>4. PICK b : b = [s EXCEPT !.pipes = Append(@, << >>)]
      OBVIOUS
    <3>5. b \in Shells /\ Changes(s, b, all)
      <4>1. PICK q : q = Append(s.pipes, << >>)
        OBVIOUS
      <4>2. s.pipes \in Seq(Contents) /\ << >> \in Contents
        BY <1>2 DEF Shells, Contents
      <4>3. q \in Seq(Contents)
        BY <4>1, <4>2, Extended, Zenon
      <4>4. b = [s EXCEPT !.pipes = q]
        BY <3>4, <4>1
      <4> QED BY <1>2, <4>3, <4>4 DEF Shells, Changes
    <3>6. PICK x : x = run[[s |-> b, io |-> into, env |-> env, stmt |-> stmt.x]]
      OBVIOUS
    <3>7. x \in Shells /\ Changes(s, x, all)
      BY <1>6, <1>10, <2>1, <3>3, <3>5, <3>6
    <3>8. PICK y : y = run[[s |-> x, io |-> from, env |-> env, stmt |-> stmt.y]]
      OBVIOUS
    <3>9. y \in Shells /\ Changes(s, y, all)
      BY <1>6, <1>10, <2>1, <3>3, <3>7, <3>8
    <3>10. t = x \/ t = y
      BY <1>3, <2>3, <3>1, <3>2, <3>4, <3>6, <3>8 DEF ExecuteStatement
    <3> QED BY <3>7, <3>9, <3>10
  <2> QED BY <1>10, <2>2, <2>3 DEF Operators
<1> QED BY <1>5, <1>7, <1>9, <1>10 DEF Simple

(***************************************************************************)
(* What is within a statement, depth by depth                              *)
(***************************************************************************)

\* The calls of a statement, from those of its parts.
Joined(calls) ==
    [stmt \in Statements |->
        IF stmt.op \in Operators THEN calls[stmt.x] \cup calls[stmt.y] ELSE {stmt} \cap Calls]

CallsUpTo ==
    LET joined(calls) ==
            [stmt \in Statements |->
                IF stmt.op \in Operators THEN calls[stmt.x] \cup calls[stmt.y] ELSE {stmt} \cap Calls]
        upTo[n \in 0 .. MaxDepth] ==
            IF n = 0 THEN [stmt \in Statements |-> {stmt} \cap Calls] ELSE joined(upTo[n - 1])
    IN  upTo

LEMMA JoinedType ==
    ASSUME NEW calls \in [Statements -> SUBSET Calls]
    PROVE  /\ Joined(calls) \in [Statements -> SUBSET Calls]
           /\ \A stmt \in Statements : Joined(calls)[stmt] = Within(calls, stmt)
           /\ \A c \in Calls : Joined(calls)[c] = {c}
<1>1. ASSUME NEW stmt \in Statements
      PROVE  Joined(calls)[stmt] = Within(calls, stmt) /\ Joined(calls)[stmt] \in SUBSET Calls
  <2>1. Joined(calls)[stmt] = IF stmt.op \in Operators THEN calls[stmt.x] \cup calls[stmt.y]
                                                       ELSE {stmt} \cap Calls
    BY DEF Joined
  <2>2. stmt \in Simple \/ (stmt.op \in Operators /\ stmt.x \in Statements /\ stmt.y \in Statements)
    BY StatementShape DEF Shaped
  <2>3. CASE stmt \in Calls
    <3>1. stmt.op = "call" /\ stmt.op \notin Operators
      BY <2>3 DEF Calls, Operators
    <3> QED BY <2>1, <2>3, <3>1 DEF Within
  <2>4. CASE stmt \in Others
    <3>1. stmt.op = "other" /\ stmt.op \notin Operators /\ stmt.op # "call"
      BY <2>4 DEF Others, Operators
    <3>2. stmt \notin Calls
      BY <3>1 DEF Calls
    <3> QED BY <2>1, <3>1, <3>2 DEF Within
  <2>5. CASE stmt.op \in Operators /\ stmt.x \in Statements /\ stmt.y \in Statements
    <3>1. stmt.op # "call"
      BY <2>5 DEF Operators
    <3> QED BY <2>1, <2>5, <3>1 DEF Within
  <2> QED BY <2>2, <2>3, <2>4, <2>5 DEF Simple
<1>2. Joined(calls) = [stmt \in Statements |-> Joined(calls)[stmt]]
  BY DEF Joined
<1>3. \A c \in Calls : Joined(calls)[c] = {c}
  <2> TAKE c \in Calls
  <2>1. c \in Statements
    BY StatementShape DEF Simple
  <2>2. c.op = "call"
    BY DEF Calls
  <2> QED BY <1>1, <2>1, <2>2 DEF Within
<1> QED BY <1>1, <1>2, <1>3

\* Every height's calls, from those of the height below.
Builds(u, m, V, base, next) ==
    /\ u \in [0 .. m -> V]
    /\ u[0] = base
    /\ \A n \in 1 .. m : u[n] = next[u[n - 1]]

LEMMA Built ==
    ASSUME NEW m \in Nat, NEW V, NEW base \in V, NEW next \in [V -> V]
    PROVE  /\ \E g : Builds(g, m, V, base, next)
           /\ \A u : (u[0] = base /\ \A n \in 1 .. m : u[n - 1] \in V => u[n] = next[u[n - 1]])
                        => \A n \in 0 .. m : u[n] \in V
<1>1. \E g : Builds(g, m, V, base, next)
  <2> DEFINE step == [a \in V \X (1 .. m) |-> next[a[1]]]
  <2>1. step \in [V \X (1 .. m) -> V]
    OBVIOUS
  <2>2. PICK g : Recurs(g, m, V, base, step)
    <3> HIDE DEF step
    <3> QED BY <2>1, Recursion, Zenon
  <2>3. g \in [0 .. m -> V] /\ g[0] = base /\ \A n \in 1 .. m : g[n] = step[<< g[n - 1], n >>]
    BY <2>2 DEF Recurs
  <2>4. ASSUME NEW n \in 1 .. m PROVE g[n] = next[g[n - 1]]
    <3>1. << g[n - 1], n >> \in V \X (1 .. m)
      BY <2>3
    <3> QED BY <2>3, <3>1
  <2> QED BY <2>3, <2>4 DEF Builds
<1>2. ASSUME NEW u, u[0] = base, \A n \in 1 .. m : u[n - 1] \in V => u[n] = next[u[n - 1]]
      PROVE  \A n \in 0 .. m : u[n] \in V
  <2> DEFINE W == {n \in 0 .. m : u[n] \in V}
  <2>1. 0 \in W
    BY <1>2
  <2>2. ASSUME NEW n \in 0 .. m - 1, n \in W PROVE n + 1 \in W
    <3>1. n + 1 \in 1 .. m /\ n + 1 \in 0 .. m /\ n + 1 - 1 = n
      OBVIOUS
    <3>2. u[n + 1] = next[u[n]] /\ u[n] \in V
      BY <1>2, <2>2, <3>1
    <3> QED BY <3>1, <3>2
  <2>3. 0 .. m \subseteq W
    <3> HIDE DEF W
    <3> QED BY <2>1, <2>2, Induction
  <2> QED BY <2>3
<1> QED BY <1>1, <1>2

LEMMA CallsUpToAre ==
    /\ CallsIn = CallsUpTo[MaxDepth]
    /\ \A n \in 0 .. MaxDepth : CallsUpTo[n] \in [Statements -> SUBSET Calls]
    /\ CallsUpTo[0] = [stmt \in Statements |-> {stmt} \cap Calls]
    /\ \A n \in 1 .. MaxDepth : CallsUpTo[n] = Joined(CallsUpTo[n - 1])
<1> DEFINE m == MaxDepth
           V == [Statements -> SUBSET Calls]
           base == [stmt \in Statements |-> {stmt} \cap Calls]
           next == [f \in V |-> Joined(f)]
           Turn(g, n) == IF n = 0 THEN base ELSE 
              [stmt \in Statements |->
                IF stmt.op \in Operators THEN g[n - 1][stmt.x] \cup g[n - 1][stmt.y]
                                         ELSE {stmt} \cap Calls]
           Defined(h) == h = [n \in 0 .. m |-> Turn(h, n)]
<1>0. m \in Nat
  BY InterpreterAssumption, Zenon
<1>1. base \in V
  OBVIOUS
<1>2. next \in [V -> V]
  BY JoinedType
<1>3. CallsUpTo = CHOOSE h : Defined(h)
  BY Zenon DEF CallsUpTo
<1>4. \A g, n : n # 0 => Turn(g, n) = Joined(g[n - 1])
  BY DEF Joined
<1>5. \A g, n : n = 0 => Turn(g, n) = base
  OBVIOUS
<1>6. \A f \in V : next[f] = Joined(f)
  OBVIOUS
<1> HIDE DEF V, base, m, next, Turn
<1>7. PICK g : Builds(g, m, V, base, next)
  BY <1>0, <1>1, <1>2, Built, Zenon
<1>8. g \in [0 .. m -> V] /\ g[0] = base /\ \A n \in 1 .. m : g[n] = next[g[n - 1]]
  BY <1>7, Zenon DEF Builds
<1>9. Defined(g)
  <2>1. ASSUME NEW n \in 1 .. m PROVE g[n] = Turn(g, n)
    <3>1. g[n - 1] \in V /\ n # 0
      BY <1>0, <1>8
    <3>2. g[n] = Joined(g[n - 1])
      BY <1>6, <1>8, <3>1
    <3> QED BY <1>4, <3>1, <3>2, Zenon
  <2>2. g[0] = Turn(g, 0)
    BY <1>5, <1>8, Zenon
  <2>3. \A n \in 0 .. m : g[n] = Turn(g, n)
    <3>1. \A n \in 0 .. m : n = 0 \/ n \in 1 .. m
      BY <1>0
    <3> QED BY <2>1, <2>2, <3>1
  <2> QED BY <1>8, <2>3
<1> DEFINE u == CallsUpTo
<1>10. Defined(u)
  <2> HIDE DEF Defined
  <2> QED BY <1>3, <1>9
<1> HIDE DEF u
<1>11. u[0] = base /\ \A n \in 1 .. m : u[n] = Joined(u[n - 1])
  <2>1. \A n \in 0 .. m : u[n] = Turn(u, n)
    BY <1>10
  <2>2. 0 \in 0 .. m /\ \A n \in 1 .. m : n \in 0 .. m /\ n # 0
    BY <1>0
  <2> QED BY <1>4, <1>5, <2>1, <2>2
<1>12. \A n \in 1 .. m : u[n - 1] \in V => u[n] = next[u[n - 1]]
  BY <1>6, <1>11
<1>13. \A n \in 0 .. m : u[n] \in V
  BY <1>0, <1>1, <1>2, <1>11, <1>12, Built
<1>14. CallsIn = CallsUpTo[MaxDepth]
  BY DEF CallsUpTo, CallsIn
<1> QED BY <1>11, <1>13, <1>14 DEF u, m, V, base

(***************************************************************************)
(* Statements, depth by depth                                              *)
(***************************************************************************)

\* Statements, executed with `run` for what is within them.
Executing(run, o) ==
    [job \in Jobs |-> ExecuteStatement(run, job.s, job.io, job.env, job.stmt, o)]

ExecutionUpTo(o) ==
    LET executing(run) ==
            [job \in Jobs |-> ExecuteStatement(run, job.s, job.io, job.env, job.stmt, o)]
        upTo[n \in 0 .. MaxDepth] ==
            IF n = 0 THEN [job \in Jobs |-> job.s] ELSE executing(upTo[n - 1])
    IN  upTo

LEMMA ExecutionUpToIs ==
    ASSUME NEW o
    PROVE  /\ Execution(o) = ExecutionUpTo(o)[MaxDepth]
           /\ ExecutionUpTo(o)[0] = [job \in Jobs |-> job.s]
           /\ \A n \in 1 .. MaxDepth : ExecutionUpTo(o)[n] = Executing(ExecutionUpTo(o)[n - 1], o)
<1> DEFINE base == [job \in Jobs |-> job.s]
           Turn(g, n) ==
              IF n = 0 THEN base
              ELSE [job \in Jobs |->
                        ExecuteStatement(g[n - 1], job.s, job.io, job.env, job.stmt, o)]
           Defined(h, m) == h = [n \in 0 .. m |-> Turn(h, n)]
           S == {m \in 0 .. MaxDepth : \E g : Defined(g, m)}
           u == ExecutionUpTo(o)
<1>0. MaxDepth \in Nat
  BY InterpreterAssumption, Zenon
<1>1. u = CHOOSE h : Defined(h, MaxDepth)
  BY Zenon DEF ExecutionUpTo
<1>2. \A g, n : n # 0 => Turn(g, n) = Executing(g[n - 1], o)
  BY DEF Executing
<1>3. \A g, n : n = 0 => Turn(g, n) = base
  OBVIOUS
<1> HIDE DEF base, Turn
<1>4. 0 \in S
  <2> DEFINE g == [n \in 0 .. 0 |-> base]
  <2>1. g = [n \in 0 .. 0 |-> Turn(g, n)]
    <3> DEFINE h == g
    <3>1. \A n \in 0 .. 0 : Turn(h, n) = base
      <4> HIDE DEF h
      <4> QED BY <1>3
    <3> QED BY <3>1
  <2>2. 0 \in 0 .. MaxDepth
    BY <1>0
  <2> HIDE DEF g
  <2> QED BY <2>1, <2>2
<1>5. ASSUME NEW m \in 0 .. MaxDepth - 1, m \in S PROVE m + 1 \in S
  <2>1. PICK g : g = [n \in 0 .. m |-> Turn(g, n)]
    BY <1>5
  <2> DEFINE h == [n \in 0 .. m + 1 |-> IF n <= m THEN g[n] ELSE Turn(g, n)]
  <2>2. \A n \in 0 .. m + 1 : n # 0 => h[n - 1] = g[n - 1]
    OBVIOUS
  <2>3. \A n \in 0 .. m : h[n] = Turn(g, n)
    <3>1. \A n \in 0 .. m : h[n] = g[n]
      OBVIOUS
    <3>2. \A n \in 0 .. m : g[n] = Turn(g, n)
      <4> HIDE DEF h
      <4> QED BY <2>1
    <3> HIDE DEF h
    <3> QED BY <3>1, <3>2
  <2>4. h[m + 1] = Turn(g, m + 1)
    OBVIOUS
  <2>5. h = [n \in 0 .. m + 1 |-> h[n]]
    OBVIOUS
  <2> HIDE DEF h
  <2>6. \A n \in 0 .. m + 1 : h[n] = Turn(h, n)
    <3> TAKE n \in 0 .. m + 1
    <3>1. h[n] = Turn(g, n)
      <4>1. n \in 0 .. m \/ n = m + 1
        OBVIOUS
      <4> QED BY <2>3, <2>4, <4>1
    <3>2. Turn(g, n) = Turn(h, n)
      BY <1>2, <1>3, <2>2
    <3> QED BY <3>1, <3>2
  <2>7. h = [n \in 0 .. m + 1 |-> Turn(h, n)]
    BY <2>5, <2>6
  <2>8. m + 1 \in 0 .. MaxDepth
    BY <1>0
  <2> QED BY <2>7, <2>8
<1>6. MaxDepth \in S
  <2> HIDE DEF S
  <2>1. 0 .. MaxDepth \subseteq S
    BY <1>0, <1>4, <1>5, Induction
  <2> QED BY <1>0, <2>1
<1>7. Defined(u, MaxDepth)
  <2>1. PICK g : Defined(g, MaxDepth)
    BY <1>6
  <2> HIDE DEF Defined, u
  <2> QED BY <1>1, <2>1
<1> HIDE DEF u
<1>8. u[0] = base /\ \A n \in 1 .. MaxDepth : u[n] = Executing(u[n - 1], o)
  <2>1. \A n \in 0 .. MaxDepth : u[n] = Turn(u, n)
    BY <1>7
  <2>2. 0 \in 0 .. MaxDepth /\ \A n \in 1 .. MaxDepth : n \in 0 .. MaxDepth /\ n # 0
    BY <1>0
  <2> QED BY <1>2, <1>3, <2>1, <2>2
<1>9. Execution(o) = ExecutionUpTo(o)[MaxDepth]
  BY DEF ExecutionUpTo, Execution
<1> QED BY <1>8, <1>9 DEF u, base

\* However deep the shell looks, a statement changes what its own calls name.
LEMMA ExecutionType ==
    ASSUME NEW o \in Outcomes
    PROVE  /\ Execution(o) \in [Jobs -> Shells]
           /\ \A job \in Jobs : Changes(job.s, Execution(o)[job], CallsIn[job.stmt])
           /\ Runs(Execution(o), CallsIn)
<1> DEFINE u == ExecutionUpTo(o)
           W == {n \in 0 .. MaxDepth : Runs(u[n], CallsUpTo[n])}
<1>0. MaxDepth \in Nat
  BY InterpreterAssumption, Zenon
<1>1. 0 \in W
  <2>1. PICK run, calls : run = u[0] /\ calls = CallsUpTo[0]
    OBVIOUS
  <2>2. run = [job \in Jobs |-> job.s]
    BY <2>1, ExecutionUpToIs
  <2>3. calls = [stmt \in Statements |-> {stmt} \cap Calls]
    BY <2>1, CallsUpToAre
  <2>4. Calls \subseteq Statements
    BY StatementShape DEF Simple
  <2>5. \A job \in Jobs : job.s \in Shells
    BY DEF Jobs
  <2>6. \A s, all : Changes(s, s, all)
    BY DEF Changes
  <2>7. run \in [Jobs -> Shells]
    BY <2>2, <2>5
  <2>8. \A job \in Jobs : Changes(job.s, run[job], calls[job.stmt])
    BY <2>2, <2>6
  <2>9. calls \in [Statements -> SUBSET Calls] /\ \A c \in Calls : calls[c] = {c}
    BY <2>3, <2>4
  <2>10. Runs(run, calls)
    BY <2>7, <2>8, <2>9 DEF Runs
  <2>11. 0 \in 0 .. MaxDepth
    BY <1>0
  <2> QED BY <2>1, <2>10, <2>11
<1>2. ASSUME NEW n \in 0 .. MaxDepth - 1, n \in W PROVE n + 1 \in W
  <2>1. n + 1 \in 1 .. MaxDepth /\ n + 1 \in 0 .. MaxDepth /\ n + 1 - 1 = n
    BY <1>0
  <2>2. PICK run, calls : run = u[n] /\ calls = CallsUpTo[n]
    OBVIOUS
  <2>3. PICK run1, calls1 : run1 = u[n + 1] /\ calls1 = CallsUpTo[n + 1]
    OBVIOUS
  <2>4. Runs(run, calls)
    BY <1>2, <2>2
  <2>5. run1 = Executing(run, o)
    <3>1. \A k \in 1 .. MaxDepth : u[k] = Executing(u[k - 1], o)
      BY ExecutionUpToIs
    <3> HIDE DEF u
    <3>2. u[n + 1] = Executing(u[n + 1 - 1], o)
      BY <2>1, <3>1
    <3>3. Executing(u[n + 1 - 1], o) = Executing(run, o)
      BY <2>1, <2>2, Zenon
    <3> QED BY <2>3, <3>2, <3>3
  <2>6. calls1 = Joined(calls)
    BY <2>1, <2>2, <2>3, CallsUpToAre
  <2>7. calls \in [Statements -> SUBSET Calls]
    BY <2>4 DEF Runs
  <2>8. /\ calls1 \in [Statements -> SUBSET Calls] /\ \A c \in Calls : calls1[c] = {c}
        /\ \A stmt \in Statements : calls1[stmt] = Within(calls, stmt)
    BY <2>6, <2>7, JoinedType
  <2>9. ASSUME NEW job \in Jobs
        PROVE  run1[job] \in Shells /\ Changes(job.s, run1[job], calls1[job.stmt])
    <3>1. PICK t : t = run1[job]
      OBVIOUS
    <3>2. t = ExecuteStatement(run, job.s, job.io, job.env, job.stmt, o)
      BY <2>5, <3>1 DEF Executing
    <3>3. t \in Shells /\ Changes(job.s, t, Within(calls, job.stmt))
      BY <2>4, <3>2, StatementType
    <3>4. job.stmt \in Statements
      BY DEF Jobs
    <3>5. calls1[job.stmt] = Within(calls, job.stmt)
      BY <2>8, <3>4
    <3> QED BY <3>1, <3>3, <3>5
  <2>10. run1 \in [Jobs -> Shells]
    <3>1. run1 = [job \in Jobs |-> run1[job]]
      BY <2>5 DEF Executing
    <3> QED BY <2>9, <3>1
  <2>11. Runs(run1, calls1)
    BY <2>8, <2>9, <2>10 DEF Runs
  <2> QED BY <2>1, <2>3, <2>11
<1>3. MaxDepth \in W
  <2> HIDE DEF W
  <2>1. 0 .. MaxDepth \subseteq W
    BY <1>0, <1>1, <1>2, Induction
  <2> QED BY <1>0, <2>1
<1>4. Runs(Execution(o), CallsIn)
  BY <1>3, ExecutionUpToIs, CallsUpToAre
<1> QED BY <1>4 DEF Runs

(***************************************************************************)
(* Lines                                                                   *)
(***************************************************************************)

LEMMA ConstantTypes ==
    /\ "" \in Texts /\ Home \in Dirs /\ MaxLines \in Nat
    /\ \A line \in Lines : line \in Seq(Statements)
BY InterpreterAssumption, Zenon

LEMMA AtWorkType ==
    ASSUME TypeOK
    PROVE  /\ AtWork(shell) \in Shells
           /\ AtWork(shell).env = shell.env /\ AtWork(shell).dir = shell.dir
           /\ AtWork(shell).quit = shell.quit
<1>1. shell.files \in [FileNames -> Contents]
  BY DEF TypeOK, Contents
<1>2. << >> \in Seq(Contents) /\ << >> \in Seq(Processes)
  OBVIOUS
<1>3. Terminal \in Streams
  BY DEF Terminal, Streams, Writers
<1>4. shell.env \in Envs /\ shell.dir \in Dirs /\ shell.ret \in Statuses /\ shell.quit \in BOOLEAN
  BY DEF TypeOK, Envs
<1> QED BY <1>1, <1>2, <1>3, <1>4 DEF AtWork, Shells

\* What a line leaves of the shell.
Trace(s, t, calls) ==
    /\ \A v \in Vars : t.env[v] # s.env[v] =>
          \E c \in calls : c.args = << >> /\ \E i \in DOMAIN c.assigns : c.assigns[i].name = v
    /\ t.dir # s.dir => \E c \in calls : Mentions(c, {"cd"})
    /\ t.quit => \E c \in calls : Mentions(c, {"exit", "logout"})

LEMMA LineType ==
    ASSUME TypeOK, NEW line \in Lines, NEW o \in Outcomes, TypeLine(line, o)
    PROVE  TypeOK' /\ last'.line = line /\ Trace(shell, shell', CallsOf(line))
<1>1. PICK run, calls : run = Execution(o) /\ calls = CallsIn
  OBVIOUS
<1>2. Runs(run, calls)
  BY <1>1, ExecutionType
<1>3. line \in Seq(Statements)
  BY ConstantTypes
<1>4. PICK s : s = AtWork(shell)
  OBVIOUS
<1>5. s \in Shells /\ s.env = shell.env /\ s.dir = shell.dir /\ s.quit = shell.quit /\ ~shell.quit
  BY <1>4, AtWorkType DEF TypeLine
<1>6. PICK file, all : file = ExecuteFile(run, s, line) /\ all = CallsOf(line)
  OBVIOUS
<1>7. \A i \in DOMAIN line : calls[line[i]] \subseteq all
  BY <1>1, <1>6 DEF CallsOf
<1>8. file \in Shells /\ Changes(s, file, all)
  BY <1>2, <1>3, <1>5, <1>6, <1>7, FileType
<1>9. PICK t : t = [file EXCEPT !.err = FALSE]
  OBVIOUS
<1>10. t \in Shells /\ Changes(s, t, all)
  BY <1>8, <1>9 DEF Shells, Changes
<1>11. shell' = Lasting(t)
  <2>1. shell' = Lasting(RunCommand(Execution(o), AtWork(shell), line))
    BY DEF TypeLine
  <2>2. RunCommand(Execution(o), AtWork(shell), line) = t
    BY <1>1, <1>4, <1>6, <1>9 DEF RunCommand
  <2> QED BY <2>1, <2>2
<1>12. /\ shell'.env = t.env /\ shell'.dir = t.dir /\ shell'.ret = t.ret
       /\ shell'.quit = t.quit /\ shell'.files = t.files
  BY <1>11 DEF Lasting
<1>13. /\ shell'.env \in Envs /\ shell'.dir \in Dirs /\ shell'.ret \in Statuses
       /\ shell'.quit \in BOOLEAN /\ shell'.files \in [FileNames -> Contents]
  BY <1>10, <1>12 DEF Shells
<1>14. mode' = mode /\ count' \in 0 .. MaxLines /\ last'.line = line
  <2>1. mode' = mode /\ count' = count + 1 /\ count < MaxLines
    BY DEF TypeLine
  <2>2. last' = [before |-> shell, line |-> line, ends |-> o]
    BY DEF TypeLine
  <2>3. count \in 0 .. MaxLines /\ MaxLines \in Nat
    BY ConstantTypes DEF TypeOK
  <2> QED BY <2>1, <2>2, <2>3
<1>15. TypeOK'
  BY <1>13, <1>14 DEF TypeOK
<1>16. Trace(shell, shell', all)
  <2>1. Changes(shell, shell', all)
    BY <1>5, <1>10, <1>12 DEF Changes
  <2> QED BY <1>5, <2>1 DEF Trace, Changes, Assigns, Says
<1> QED BY <1>6, <1>14, <1>15, <1>16

LEMMA InitialTypes == Init => TypeOK
<1> SUFFICES ASSUME Init PROVE TypeOK
  OBVIOUS
<1>1. shell = FirstShell /\ mode = Prompt /\ count = 0
  BY DEF Init
<1>2. /\ FirstShell.env \in Envs /\ FirstShell.dir \in Dirs /\ FirstShell.ret \in Statuses
      /\ FirstShell.quit \in BOOLEAN /\ FirstShell.files \in [FileNames -> Contents]
  <2>1. "" \in Texts /\ Home \in Dirs
    BY ConstantTypes, Zenon
  <2>2. << >> \in Contents
    BY DEF Contents
  <2>3. Environment \in Envs
    BY InterpreterAssumption, Zenon DEF Envs
  <2>4. [f \in FileNames |-> << >>] \in [FileNames -> Contents]
    BY <2>2
  <2>5. 0 \in Statuses
    BY DEF Statuses
  <2> QED BY <2>1, <2>3, <2>4, <2>5 DEF FirstShell
<1>3. mode \in [ended: BOOLEAN, status: {0, 1}] /\ count \in 0 .. MaxLines
  <2>1. MaxLines \in Nat
    BY ConstantTypes, Zenon
  <2>2. Prompt \in [ended: BOOLEAN, status: {0, 1}]
    BY DEF Prompt
  <2> QED BY <1>1, <2>1, <2>2
<1> QED BY <1>1, <1>2, <1>3 DEF TypeOK

LEMMA StepTypes == TypeOK /\ [Next]_vars => TypeOK'
<1> SUFFICES ASSUME TypeOK, [Next]_vars PROVE TypeOK'
  OBVIOUS
<1>1. CASE \E line \in Lines, o \in Outcomes : TypeLine(line, o)
  BY <1>1, LineType
<1>2. CASE Leave
  BY <1>2 DEF Leave, TypeOK
<1>3. CASE EndOfInput
  BY <1>3 DEF EndOfInput, TypeOK
<1>4. CASE UNCHANGED vars
  BY <1>4 DEF vars, TypeOK
<1> QED BY <1>1, <1>2, <1>3, <1>4 DEF Next

\* The shell's environment, directory, status and files have their types after
\* any line whatever, and the pseudo variables that expansions are given never
\* enter the environment (execContext and executeStatement).
THEOREM TypeCorrect == Spec => []TypeOK
<1>1. Spec => Init /\ [][Next]_vars
  BY DEF Spec
<1> QED BY <1>1, InitialTypes, StepTypes, PTL

\* Whatever a line holds, however deep, and wherever it fails: the shell's
\* environment changes by assignments that stand alone, its directory by cd
\* and it ends by exit; what is assigned for one command, and all that a child
\* shell does, ends with them (executeProgramOrBuiltin, RunShell).
THEOREM NothingIsLeft == Spec => ChildrenLeaveNoTrace
<1>1. TypeOK /\ [Next]_vars =>
        [count' # count => Trace(shell, shell', CallsOf(last'.line))]_vars
  <2> SUFFICES ASSUME TypeOK, Next, count' # count
               PROVE  Trace(shell, shell', CallsOf(last'.line))
    OBVIOUS
  <2>1. PICK line \in Lines, o \in Outcomes : TypeLine(line, o)
    BY DEF Next, Leave, EndOfInput
  <2> QED BY <2>1, LineType
<1>2. [count' # count => Trace(shell, shell', CallsOf(last'.line))]_vars =>
        [count' # count =>
            LET calls == CallsOf(last'.line)
            IN  /\ \A v \in Vars : shell'.env[v] # shell.env[v] =>
                      \E c \in calls :
                          c.args = << >> /\ \E i \in DOMAIN c.assigns : c.assigns[i].name = v
                /\ shell'.dir # shell.dir => \E c \in calls : Mentions(c, {"cd"})
                /\ shell'.quit => \E c \in calls : Mentions(c, {"exit", "logout"})]_vars
  BY Zenon DEF Trace
<1>3. TypeOK /\ [Next]_vars =>
        [count' # count =>
            LET calls == CallsOf(last'.line)
            IN  /\ \A v \in Vars : shell'.env[v] # shell.env[v] =>
                      \E c \in calls :
                          c.args = << >> /\ \E i \in DOMAIN c.assigns : c.assigns[i].name = v
                /\ shell'.dir # shell.dir => \E c \in calls : Mentions(c, {"cd"})
                /\ shell'.quit => \E c \in calls : Mentions(c, {"exit", "logout"})]_vars
  BY <1>1, <1>2, Zenon
<1>4. Spec => [][Next]_vars
  BY DEF Spec
<1> QED BY <1>3, <1>4, TypeCorrect, PTL DEF ChildrenLeaveNoTrace

=============================================================================
