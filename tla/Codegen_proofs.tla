---------------------------- MODULE Codegen_proofs ----------------------------
(***************************************************************************)
(* What the generators do to a developer's sources, for every tree,        *)
(* configuration and order of runs, interruptions and edits: they hook     *)
(* nothing twice, they keep the developer's statements in their order,     *)
(* and their content but for three exceptions, a command that has          *)
(* completed writes nothing when it is run again, and once both have       *)
(* completed every file is what one pass of each makes of it.              *)
(***************************************************************************)
EXTENDS Codegen, FiniteSetTheorems, SequenceTheorems, WellFoundedInduction, TLAPS

\* What became of a statement: it holds what it held, unless wire has overwritten it.
Survives(now, was) ==
  /\ now.k = was.k /\ now.args = was.args
  /\ Holds(now, was) \/ Overwritten(now) \/ DropsArguments(was)

\* Statements of the developer's keep their order among those that generators put between.
Carries(now, was) ==
  \E at \in [DOMAIN was -> DOMAIN now] :
    /\ \A r, q \in DOMAIN was : r < q => at[r] < at[q]
    /\ \A i \in DOMAIN now : ~now[i].gen <=> \E r \in DOMAIN was : at[r] = i
    /\ \A r \in DOMAIN was : Look(now[at[r]]) = Look(was[r]) /\ Survives(now[at[r]], was[r])

\* A Configure call of the generator's is the only one.
ConfigureOnce(body) ==
  \A i \in DOMAIN body : "Configure" \in Elems(body[i].dv) /\ body[i].gen
    => \A j \in DOMAIN body : "Configure" \in Elems(body[j].dv) => i = j

SpanOnce(body) ==
  \A i, j \in DOMAIN body : body[i].k = "span" /\ body[j].k = "span" => i = j
SpanFree(body) == \A i \in DOMAIN body : body[i].k # "span"

\* A span stands above all that wire inserts behind, with at most n lines above itself.
Spots == {"use", "middleware", "create"}
SpanPlaced(body, n) ==
  \A i \in DOMAIN body : body[i].k = "span" =>
    i <= n + 1 /\ \A j \in 1 .. i - 1 : body[j].k \notin Spots

HooksOnce(body) == \A i \in DOMAIN body : HooksDiffer(body[i])

\* The body of a function now and as its developer has it, with n lines put above its span.
BodyGood(body, name, was, n) ==
  /\ HooksOnce(body) /\ ConfigureOnce(body) /\ Carries(body, was)
  /\ n < 3 => SpanOnce(body)
  /\ n < 3 /\ name # "main" => Stranded(body) \/ SpanPlaced(body, n)

TypeOK ==
  /\ files \in [Paths -> Files] /\ own \in [Paths -> Files]
  /\ cfg \in Configs
  /\ pushed \in [Paths -> Nat]

FileGood(f, o, n) ==
  /\ DOMAIN f.funcs = DOMAIN o.funcs
  /\ \A i \in DOMAIN f.funcs :
       BodyGood(f.funcs[i].body, f.funcs[i].name, o.funcs[i].body, n)
BodiesGood == \A p \in Paths : FileGood(files[p], own[p], pushed[p])

\* instrument has found every file to build, and strands nothing itself.
Sound(f) == \A i \in DOMAIN f.funcs : ~Stranded(f.funcs[i].body)
NoneStranded == cmd = "instrument" => \A p \in Paths : Sound(files[p])

\* Targets are left only while a command runs.
AtWork == cmd \in Commands \/ (cmd = "idle" /\ todo = <<>>)

IInv == TypeOK /\ AtWork /\ BodiesGood /\ NoneStranded

-------------------------------------------------------------------------------
(* Numbers and places.                                                       *)

\* A set that holds 0 and the successor of each of its numbers holds them all.
LEMMA SetInduction ==
  ASSUME NEW S, 0 \in S, \A n \in Nat : n \in S => n + 1 \in S
  PROVE  Nat \subseteq S
<1> SUFFICES ASSUME Nat \ S # {}  PROVE FALSE  OBVIOUS
<1>1. PICK m \in Nat \ S : \A k \in Nat \ S : ~ (<<k, m>> \in OpToRel(<, Nat))
  BY WFMin, NatLessThanWellFounded
<1>2. \A k \in Nat \ S : ~(k < m)  BY <1>1 DEF OpToRel
<1>3. m # 0  OBVIOUS
<1>4. m - 1 \in Nat /\ m - 1 < m /\ m - 1 + 1 = m  BY <1>3
<1>5. m - 1 \in S  BY <1>2, <1>4
<1> QED  BY <1>4, <1>5

\* Places that are not all out of question have a first one.
LEMMA FirstPlace ==
  ASSUME NEW n \in Nat, NEW S \in SUBSET (1 .. n), S # {}
  PROVE  \E i \in S : \A j \in 1 .. i - 1 : j \notin S
<1> SUFFICES ASSUME \A i \in S : \E j \in 1 .. i - 1 : j \in S  PROVE FALSE  OBVIOUS
<1>1. PICK T : T = {m \in Nat : \A i \in S : m < i}  OBVIOUS
<1>2. 0 \in T  BY <1>1
<1>3. \A m \in Nat : m \in T => m + 1 \in T
  <2> SUFFICES ASSUME NEW m \in Nat, m \in T, NEW i \in S  PROVE m + 1 < i  BY <1>1
  <2>1. i \in Nat /\ m < i  BY <1>1
  <2>2. PICK j \in 1 .. i - 1 : j \in S  OBVIOUS
  <2>3. m < j  BY <1>1, <2>2
  <2> QED  BY <2>1, <2>2, <2>3
<1>4. n \in T  BY <1>2, <1>3, SetInduction
<1>5. PICK i \in S : TRUE  OBVIOUS
<1>6. n < i /\ i <= n  BY <1>1, <1>4, <1>5
<1> QED  BY <1>5, <1>6

\* And a last one.
LEMMA LastPlace ==
  ASSUME NEW n \in Nat, NEW S \in SUBSET (1 .. n), S # {}
  PROVE  \E i \in S : \A j \in i + 1 .. n : j \notin S
<1>1. PICK T \in SUBSET (1 .. n) : T = {m \in 1 .. n : n + 1 - m \in S}  OBVIOUS
<1>2. T # {}
  <2>1. PICK i \in S : TRUE  OBVIOUS
  <2>2. n + 1 - i \in 1 .. n /\ n + 1 - (n + 1 - i) = i  BY <2>1
  <2> QED  BY <1>1, <2>1, <2>2
<1>3. PICK m \in T : \A j \in 1 .. m - 1 : j \notin T  BY <1>2, FirstPlace
<1>4. n + 1 - m \in S /\ m \in 1 .. n  BY <1>1
<1>5. ASSUME NEW j \in (n + 1 - m) + 1 .. n  PROVE j \notin S
  <2>1. n + 1 - j \in 1 .. m - 1 /\ n + 1 - (n + 1 - j) = j /\ n + 1 - j \in 1 .. n
    BY <1>4
  <2> QED  BY <1>1, <1>3, <2>1
<1> QED  BY <1>4, <1>5

-------------------------------------------------------------------------------
(* A statement is inserted.                                                  *)

\* c is b with e behind its first at statements; where a statement of b is then.
Inserted(b, c, at, e) ==
  /\ b \in Seq(Stmts) /\ c \in Seq(Stmts) /\ at \in 0 .. Len(b) /\ Len(c) = Len(b) + 1
  /\ c[at + 1] = e
  /\ \A i \in 1 .. at : c[i] = b[i]
  /\ \A i \in at + 1 .. Len(b) : c[i + 1] = b[i]
Shift(at, i) == IF i <= at THEN i ELSE i + 1

\* InsertAfter does so.
LEMMA InsertAfterInserts ==
  ASSUME NEW b \in Seq(Stmts), NEW at \in 0 .. Len(b), NEW e \in Stmts
  PROVE  Inserted(b, InsertAfter(b, at, e), at, e)
<1>1. Len(b) \in Nat /\ DOMAIN b = 1 .. Len(b) /\ \A i \in 1 .. Len(b) : b[i] \in Stmts
  BY LenProperties, ElementOfSeq
<1>2. PICK l, r : l = SubSeq(b, 1, at) /\ r = SubSeq(b, at + 1, Len(b))  OBVIOUS
<1>3. l \in Seq(Stmts) /\ Len(l) = at /\ \A i \in 1 .. at : l[i] = b[i]
  <2>1. \A i \in 1 .. at : b[i] \in Stmts  BY <1>1
  <2>2. /\ l \in Seq(Stmts)
        /\ Len(l) = IF 1 <= at THEN at - 1 + 1 ELSE 0
        /\ \A i \in 1 .. at - 1 + 1 : l[i] = b[1 + i - 1]
    BY <1>2, <2>1, SubSeqProperties
  <2> QED  BY <2>2
<1>4. /\ r \in Seq(Stmts) /\ Len(r) = Len(b) - at
      /\ \A i \in 1 .. Len(b) - at : r[i] = b[at + i]
  <2>1. \A i \in at + 1 .. Len(b) : b[i] \in Stmts  BY <1>1
  <2>2. at + 1 \in Int /\ Len(b) \in Int  BY <1>1
  <2>3. /\ r \in Seq(Stmts)
        /\ Len(r) = IF at + 1 <= Len(b) THEN Len(b) - (at + 1) + 1 ELSE 0
        /\ \A i \in 1 .. Len(b) - (at + 1) + 1 : r[i] = b[at + 1 + i - 1]
    BY <1>2, <2>1, <2>2, SubSeqProperties
  <2>4. Len(r) = Len(b) - at
    <3>1. PICK n \in Nat : n = Len(b)  BY <1>1
    <3>2. at \in 0 .. n /\ Len(r) = IF at + 1 <= n THEN n - (at + 1) + 1 ELSE 0  BY <2>3, <3>1
    <3>3. Len(r) = n - at  BY <3>2
    <3> QED  BY <3>1, <3>3
  <2>5. ASSUME NEW i \in 1 .. Len(b) - at  PROVE r[i] = b[at + i]
    <3>1. i \in 1 .. Len(b) - (at + 1) + 1 /\ at + 1 + i - 1 = at + i  BY <1>1
    <3> QED  BY <2>3, <3>1
  <2> QED  BY <2>3, <2>4, <2>5
<1>5. PICK m : m = l \o <<e>>  OBVIOUS
<1>6. /\ m \in Seq(Stmts) /\ Len(m) = at + 1 /\ m[at + 1] = e
      /\ \A i \in 1 .. at : m[i] = b[i]
  <2>1. <<e>> \in Seq(Stmts) /\ Len(<<e>>) = 1 /\ <<e>>[1] = e  OBVIOUS
  <2> QED  BY <1>3, <1>5, <2>1, ConcatProperties
<1>7. PICK c : c = m \o r  OBVIOUS
<1>8. /\ c \in Seq(Stmts) /\ Len(c) = Len(b) + 1
      /\ \A i \in 1 .. at + 1 : c[i] = m[i]
      /\ \A i \in at + 2 .. Len(b) + 1 : c[i] = r[i - (at + 1)]
  BY <1>1, <1>4, <1>6, <1>7, ConcatProperties
<1>9. ASSUME NEW i \in at + 1 .. Len(b)  PROVE c[i + 1] = b[i]
  <2>1. i + 1 \in at + 2 .. Len(b) + 1 /\ i - at \in 1 .. Len(b) - at /\ at + (i - at) = i
        /\ i + 1 - (at + 1) = i - at
    BY <1>1
  <2> QED  BY <1>4, <1>8, <2>1
<1>10. c = InsertAfter(b, at, e)  BY <1>2, <1>5, <1>7 DEF InsertAfter
<1> QED  BY <1>6, <1>8, <1>9, <1>10 DEF Inserted

\* So does a statement put first, or last.
LEMMA HeadInserts ==
  ASSUME NEW b \in Seq(Stmts), NEW e \in Stmts  PROVE Inserted(b, <<e>> \o b, 0, e)
<1>1. <<e>> \in Seq(Stmts) /\ Len(<<e>>) = 1 /\ <<e>>[1] = e /\ Len(b) \in Nat
  BY LenProperties
<1>2. PICK c : c = <<e>> \o b  OBVIOUS
<1>3. /\ c \in Seq(Stmts) /\ Len(c) = 1 + Len(b) /\ c[1] = e
      /\ \A i \in 2 .. Len(b) + 1 : c[i] = b[i - 1]
  BY <1>1, <1>2, ConcatProperties
<1>4. \A i \in 0 + 1 .. Len(b) : c[i + 1] = b[i]
  <2> SUFFICES ASSUME NEW i \in 1 .. Len(b)  PROVE c[i + 1] = b[i]  OBVIOUS
  <2>1. i + 1 \in 2 .. Len(b) + 1 /\ i + 1 - 1 = i  BY <1>1
  <2> QED  BY <1>3, <2>1
<1> QED  BY <1>1, <1>2, <1>3, <1>4 DEF Inserted

LEMMA AppendInserts ==
  ASSUME NEW b \in Seq(Stmts), NEW e \in Stmts  PROVE Inserted(b, Append(b, e), Len(b), e)
<1>1. PICK c : c = Append(b, e)  OBVIOUS
<1>2. /\ Len(b) \in Nat /\ c \in Seq(Stmts) /\ Len(c) = Len(b) + 1
      /\ c[Len(b) + 1] = e /\ \A i \in 1 .. Len(b) : c[i] = b[i]
  BY <1>1, AppendProperties, LenProperties
<1> QED  BY <1>1, <1>2 DEF Inserted

\* Every statement is the new one or one of the old, and none is lost.
LEMMA InsertedPlaces ==
  ASSUME NEW b, NEW c, NEW at, NEW e, Inserted(b, c, at, e)
  PROVE  /\ DOMAIN b = 1 .. Len(b) /\ DOMAIN c = 1 .. Len(b) + 1 /\ Len(b) \in Nat
         /\ at \in Nat /\ at + 1 \in DOMAIN c /\ c[at + 1] = e /\ e \in Stmts
         /\ \A j \in DOMAIN b : /\ Shift(at, j) \in DOMAIN c /\ c[Shift(at, j)] = b[j]
                                /\ Shift(at, j) # at + 1 /\ b[j] \in Stmts
         /\ \A i \in DOMAIN c : i = at + 1 \/ \E j \in DOMAIN b : i = Shift(at, j)
<1>1. /\ b \in Seq(Stmts) /\ c \in Seq(Stmts) /\ at \in 0 .. Len(b) /\ Len(c) = Len(b) + 1
      /\ c[at + 1] = e
      /\ \A i \in 1 .. at : c[i] = b[i]
      /\ \A i \in at + 1 .. Len(b) : c[i + 1] = b[i]
  BY DEF Inserted
<1>2. /\ Len(b) \in Nat /\ DOMAIN b = 1 .. Len(b) /\ DOMAIN c = 1 .. Len(b) + 1
      /\ \A i \in 1 .. Len(b) : b[i] \in Stmts
  BY <1>1, LenProperties, ElementOfSeq
<1>3. at \in Nat /\ at + 1 \in DOMAIN c  BY <1>1, <1>2
<1>4. e \in Stmts  BY <1>1, <1>2, <1>3, ElementOfSeq
<1>5. ASSUME NEW j \in DOMAIN b
      PROVE  /\ Shift(at, j) \in DOMAIN c /\ c[Shift(at, j)] = b[j]
             /\ Shift(at, j) # at + 1 /\ b[j] \in Stmts
  <2>1. CASE j <= at  BY <1>1, <1>2, <1>3, <2>1 DEF Shift
  <2>2. CASE ~(j <= at)  BY <1>1, <1>2, <1>3, <2>2 DEF Shift
  <2> QED  BY <2>1, <2>2
<1>6. ASSUME NEW i \in DOMAIN c, i # at + 1  PROVE \E j \in DOMAIN b : i = Shift(at, j)
  <2>1. CASE i <= at  BY <1>2, <1>1, <1>3, <2>1 DEF Shift
  <2>2. CASE i > at + 1
    <3>1. i - 1 \in DOMAIN b /\ ~(i - 1 <= at) /\ i - 1 + 1 = i  BY <1>2, <1>1, <1>3, <2>2
    <3> QED  BY <3>1 DEF Shift
  <2> QED  BY <1>2, <1>3, <1>6, <2>1, <2>2
<1> QED  BY <1>1, <1>2, <1>3, <1>4, <1>5, <1>6

\* Places keep their order.
LEMMA ShiftOrder ==
  ASSUME NEW at \in Nat, NEW i \in Nat, NEW j \in Nat
  PROVE  /\ i < j <=> Shift(at, i) < Shift(at, j)
         /\ Shift(at, i) = Shift(at, j) => i = j
         /\ Shift(at, i) \in Nat /\ i <= Shift(at, i) /\ Shift(at, i) <= i + 1
BY DEF Shift

\* The statement that is inserted bears no hook twice, and no Configure that is not alone.
LEMMA InsertHooks ==
  ASSUME NEW b, NEW c, NEW at, NEW e, Inserted(b, c, at, e), HooksOnce(b), HooksDiffer(e)
  PROVE  HooksOnce(c)
<1> SUFFICES ASSUME NEW i \in DOMAIN c  PROVE HooksDiffer(c[i])  BY DEF HooksOnce
<1>1. CASE i = at + 1  BY <1>1 DEF Inserted
<1>2. CASE i # at + 1
  <2>1. PICK j \in DOMAIN b : i = Shift(at, j) /\ c[i] = b[j]  BY <1>2, InsertedPlaces
  <2> QED  BY <2>1 DEF HooksOnce
<1> QED  BY <1>1, <1>2

LEMMA InsertConfigure ==
  ASSUME NEW b, NEW c, NEW at, NEW e, Inserted(b, c, at, e), ConfigureOnce(b),
         "Configure" \in Elems(e.dv) => ~HasConfigure(b)
  PROVE  ConfigureOnce(c)
<1> SUFFICES ASSUME NEW i \in DOMAIN c, NEW j \in DOMAIN c, c[i].gen,
                    "Configure" \in Elems(c[i].dv), "Configure" \in Elems(c[j].dv)
             PROVE  i = j
  BY DEF ConfigureOnce
<1>1. /\ c[at + 1] = e
      /\ i = at + 1 \/ \E p \in DOMAIN b : i = Shift(at, p) /\ c[i] = b[p]
      /\ j = at + 1 \/ \E p \in DOMAIN b : j = Shift(at, p) /\ c[j] = b[p]
  BY InsertedPlaces
<1>2. CASE "Configure" \in Elems(e.dv)
  <2>1. \A p \in DOMAIN b : "Configure" \notin Elems(b[p].dv)
    BY <1>2 DEF HasConfigure, Calls, Elems
  <2> QED  BY <1>1, <2>1
<1>3. CASE "Configure" \notin Elems(e.dv)
  <2>1. PICK p \in DOMAIN b : i = Shift(at, p) /\ c[i] = b[p]  BY <1>1, <1>3
  <2>2. PICK q \in DOMAIN b : j = Shift(at, q) /\ c[j] = b[q]  BY <1>1, <1>3
  <2>3. p = q  BY <2>1, <2>2 DEF ConfigureOnce
  <2> QED  BY <2>1, <2>2, <2>3
<1> QED  BY <1>2, <1>3

\* A span is inserted only where there is none.
LEMMA InsertSpan ==
  ASSUME NEW b, NEW c, NEW at, NEW e, Inserted(b, c, at, e), SpanOnce(b),
         e.k = "span" => SpanFree(b)
  PROVE  SpanOnce(c)
<1> SUFFICES ASSUME NEW i \in DOMAIN c, NEW j \in DOMAIN c, c[i].k = "span", c[j].k = "span"
             PROVE  i = j
  BY DEF SpanOnce
<1>1. /\ c[at + 1] = e
      /\ i = at + 1 \/ \E p \in DOMAIN b : i = Shift(at, p) /\ c[i] = b[p]
      /\ j = at + 1 \/ \E p \in DOMAIN b : j = Shift(at, p) /\ c[j] = b[p]
  BY InsertedPlaces
<1> QED  BY <1>1 DEF SpanOnce, SpanFree

LEMMA InsertNoSpan ==
  ASSUME NEW b, NEW c, NEW at, NEW e, Inserted(b, c, at, e), SpanFree(b), e.k # "span"
  PROVE  SpanFree(c)
BY InsertedPlaces DEF SpanFree

\* What is stranded stays so, as nothing but a new router above it could help.
LEMMA InsertStranded ==
  ASSUME NEW b, NEW c, NEW at, NEW e, Inserted(b, c, at, e), Stranded(b), e.k # "create"
  PROVE  Stranded(c)
<1>1. PICK i \in DOMAIN b : b[i].k = "middleware" /\ \A j \in 1 .. i - 1 : b[j].k # "create"
  BY DEF Stranded
<1>2. /\ DOMAIN b = 1 .. Len(b) /\ DOMAIN c = 1 .. Len(b) + 1 /\ Len(b) \in Nat /\ at \in Nat
      /\ c[at + 1] = e
      /\ Shift(at, i) \in DOMAIN c /\ c[Shift(at, i)] = b[i]
      /\ \A x \in DOMAIN c : x = at + 1 \/ \E j \in DOMAIN b : x = Shift(at, j) /\ c[x] = b[j]
  BY InsertedPlaces
<1>3. ASSUME NEW x \in 1 .. Shift(at, i) - 1  PROVE c[x].k # "create"
  <2>1. x \in DOMAIN c /\ i \in Nat /\ x < Shift(at, i)  BY <1>2
  <2>2. CASE x = at + 1  BY <1>2, <2>2
  <2>3. CASE x # at + 1
    <3>1. PICK j \in DOMAIN b : x = Shift(at, j) /\ c[x] = b[j]  BY <1>2, <2>1, <2>3
    <3>2. j \in Nat /\ j >= 1 /\ j < i
      <4>1. j \in Nat /\ j >= 1 /\ Shift(at, j) < Shift(at, i)  BY <1>2, <2>1, <3>1
      <4> QED  BY <1>2, <2>1, <4>1, ShiftOrder
    <3>3. j \in 1 .. i - 1  BY <2>1, <3>2
    <3> QED  BY <1>1, <3>1, <3>3
  <2> QED  BY <2>2, <2>3
<1> QED  BY <1>1, <1>2, <1>3 DEF Stranded

\* A line put first moves a span down by one; wire's statement comes behind a spot, and the
\* span is above all of them.
LEMMA InsertHeadPlaced ==
  ASSUME NEW b, NEW c, NEW e, Inserted(b, c, 0, e), NEW n \in Nat, SpanPlaced(b, n),
         e.k \notin Spots \cup {"span"}
  PROVE  SpanPlaced(c, n + 1)
<1> SUFFICES ASSUME NEW i \in DOMAIN c, c[i].k = "span"
             PROVE  i <= (n + 1) + 1 /\ \A j \in 1 .. i - 1 : c[j].k \notin Spots
  BY DEF SpanPlaced
<1>1. /\ DOMAIN b = 1 .. Len(b) /\ DOMAIN c = 1 .. Len(b) + 1 /\ Len(b) \in Nat
      /\ c[1] = e
      /\ \A j \in DOMAIN b : c[j + 1] = b[j]
      /\ \A x \in DOMAIN c : x = 1 \/ \E j \in DOMAIN b : x = j + 1
  BY InsertedPlaces DEF Shift
<1>2. PICK p \in DOMAIN b : i = p + 1 /\ b[p].k = "span"  BY <1>1
<1>3. p <= n + 1 /\ \A j \in 1 .. p - 1 : b[j].k \notin Spots  BY <1>2 DEF SpanPlaced
<1>4. ASSUME NEW j \in 1 .. i - 1  PROVE c[j].k \notin Spots
  <2>1. CASE j = 1  BY <1>1, <2>1
  <2>2. CASE j # 1
    <3>1. j - 1 \in 1 .. p - 1 /\ j - 1 \in DOMAIN b /\ j - 1 + 1 = j  BY <1>1, <1>2, <2>2
    <3>2. c[j] = b[j - 1]  BY <1>1, <3>1
    <3> QED  BY <1>3, <3>1, <3>2
  <2> QED  BY <2>1, <2>2
<1> QED  BY <1>1, <1>2, <1>3, <1>4

LEMMA InsertSpotPlaced ==
  ASSUME NEW b, NEW c, NEW at, NEW e, Inserted(b, c, at, e), NEW n \in Nat, SpanPlaced(b, n),
         e.k # "span", at # 0, b[at].k \in Spots
  PROVE  SpanPlaced(c, n)
<1> SUFFICES ASSUME NEW i \in DOMAIN c, c[i].k = "span"
             PROVE  i <= n + 1 /\ \A j \in 1 .. i - 1 : c[j].k \notin Spots
  BY DEF SpanPlaced
<1>1. /\ DOMAIN b = 1 .. Len(b) /\ DOMAIN c = 1 .. Len(b) + 1 /\ Len(b) \in Nat
      /\ at \in 0 .. Len(b) /\ at \in DOMAIN b /\ c[at + 1] = e
      /\ \A j \in 1 .. at : c[j] = b[j]
      /\ \A x \in DOMAIN c : x = at + 1 \/ \E j \in DOMAIN b : x = Shift(at, j) /\ c[x] = b[j]
  <2>1. at \in 0 .. Len(b) /\ \A j \in 1 .. at : c[j] = b[j]  BY DEF Inserted
  <2> QED  BY <2>1, InsertedPlaces
<1>2. PICK p \in DOMAIN b : i = Shift(at, p) /\ b[p].k = "span"  BY <1>1
<1>3. p <= n + 1 /\ \A j \in 1 .. p - 1 : b[j].k \notin Spots  BY <1>2 DEF SpanPlaced
<1>4. p <= at
  <2> SUFFICES ASSUME p > at  PROVE FALSE  BY <1>1
  <2>1. at \in 1 .. p - 1  BY <1>1
  <2> QED  BY <1>3, <2>1
<1>5. i = p /\ \A j \in 1 .. i - 1 : c[j] = b[j]  BY <1>1, <1>2, <1>4 DEF Shift
<1> QED  BY <1>3, <1>5

\* At the head it is stranded.
LEMMA InsertHeadStranded ==
  ASSUME NEW b, NEW c, NEW e, Inserted(b, c, 0, e), e.k = "middleware"
  PROVE  Stranded(c)
<1>1. 1 \in DOMAIN c /\ c[1] = e  BY InsertedPlaces
<1> QED  BY <1>1 DEF Stranded

\* A statement that is left alone survives; one that survives two changes survives both.
LEMMA SurvivesSame == ASSUME NEW s  PROVE Survives(s, s)
BY DEF Survives, Holds

LEMMA SurvivesFurther ==
  ASSUME NEW s, NEW t, NEW u, Survives(t, s), Survives(u, t), u.top = t.top
  PROVE  Survives(u, s)
<1>1. u.k = t.k /\ t.k = s.k /\ u.args = t.args /\ t.args = s.args  BY DEF Survives
<1>2. CASE Overwritten(u)  BY <1>1, <1>2 DEF Survives
<1>3. CASE Holds(u, t) /\ Holds(t, s)
  <2>1. Holds(u, s)  BY <1>3 DEF Holds
  <2> QED  BY <1>1, <2>1 DEF Survives
<1>4. CASE Holds(u, t) /\ Overwritten(t)
  <2>1. Overwritten(u)  BY <1>1, <1>4 DEF Holds, Overwritten
  <2> QED  BY <1>1, <2>1 DEF Survives
<1>5. CASE DropsArguments(s)  BY <1>1, <1>5 DEF Survives
<1>6. CASE DropsArguments(t)
  <2>1. DropsArguments(s)  BY <1>1, <1>6 DEF DropsArguments
  <2> QED  BY <1>5, <2>1
<1> QED  BY <1>2, <1>3, <1>4, <1>5, <1>6 DEF Survives

\* A generator's statement moves the developer's apart.
LEMMA InsertCarries ==
  ASSUME NEW b, NEW c, NEW at, NEW e, Inserted(b, c, at, e), NEW was, Carries(b, was), e.gen
  PROVE  Carries(c, was)
<1>1. PICK f \in [DOMAIN was -> DOMAIN b] :
        /\ \A r, q \in DOMAIN was : r < q => f[r] < f[q]
        /\ \A i \in DOMAIN b : ~b[i].gen <=> \E r \in DOMAIN was : f[r] = i
        /\ \A r \in DOMAIN was : Look(b[f[r]]) = Look(was[r]) /\ Survives(b[f[r]], was[r])
  BY DEF Carries
<1>2. /\ DOMAIN b \subseteq Nat /\ at \in Nat /\ c[at + 1] = e
      /\ \A j \in DOMAIN b : /\ Shift(at, j) \in DOMAIN c /\ c[Shift(at, j)] = b[j]
                             /\ Shift(at, j) # at + 1
      /\ \A i \in DOMAIN c : i = at + 1 \/ \E j \in DOMAIN b : i = Shift(at, j)
  BY InsertedPlaces
<1>3. PICK g : g = [r \in DOMAIN was |-> Shift(at, f[r])]  OBVIOUS
<1>4. g \in [DOMAIN was -> DOMAIN c]  BY <1>2, <1>3
<1>5. \A r, q \in DOMAIN was : r < q => g[r] < g[q]
  <2> SUFFICES ASSUME NEW r \in DOMAIN was, NEW q \in DOMAIN was, r < q  PROVE g[r] < g[q]
    OBVIOUS
  <2>1. f[r] \in Nat /\ f[q] \in Nat /\ f[r] < f[q]  BY <1>1, <1>2
  <2>2. Shift(at, f[r]) < Shift(at, f[q])  BY <1>2, <2>1, ShiftOrder
  <2> QED  BY <1>3, <2>2
<1>6. \A i \in DOMAIN c : ~c[i].gen <=> \E r \in DOMAIN was : g[r] = i
  <2> SUFFICES ASSUME NEW i \in DOMAIN c
               PROVE  ~c[i].gen <=> \E r \in DOMAIN was : g[r] = i
    OBVIOUS
  <2>1. CASE i = at + 1
    <3>1. c[i].gen  BY <1>2, <2>1
    <3>2. \A r \in DOMAIN was : g[r] # i  BY <1>2, <1>3, <2>1
    <3> QED  BY <3>1, <3>2
  <2>2. CASE i # at + 1
    <3>1. PICK j \in DOMAIN b : i = Shift(at, j) /\ c[i] = b[j]  BY <1>2, <2>2
    <3>2. ~b[j].gen <=> \E r \in DOMAIN was : f[r] = j  BY <1>1
    <3>3. ASSUME NEW r \in DOMAIN was  PROVE g[r] = i <=> f[r] = j
      <4>1. f[r] \in Nat /\ j \in Nat  BY <1>2
      <4>2. g[r] = Shift(at, f[r])  BY <1>3
      <4>3. at \in Nat  BY <1>2
      <4>4. Shift(at, f[r]) = Shift(at, j) => f[r] = j  BY <4>1, <4>3, ShiftOrder
      <4> QED  BY <3>1, <4>2, <4>4
    <3> QED  BY <3>1, <3>2, <3>3
  <2> QED  BY <2>1, <2>2
<1>7. \A r \in DOMAIN was : Look(c[g[r]]) = Look(was[r]) /\ Survives(c[g[r]], was[r])
  <2> SUFFICES ASSUME NEW r \in DOMAIN was
               PROVE  Look(c[g[r]]) = Look(was[r]) /\ Survives(c[g[r]], was[r])
    OBVIOUS
  <2>1. c[g[r]] = b[f[r]]  BY <1>2, <1>3
  <2> QED  BY <1>1, <2>1
<1> QED  BY <1>4, <1>5, <1>6, <1>7 DEF Carries

\* The developer's own statement goes to the same end of both.
LEMMA WriteCarries ==
  ASSUME NEW b, NEW c, NEW x, NEW was, NEW is, NEW y, NEW e,
         Inserted(b, c, x, e), Inserted(was, is, y, e), ~e.gen,
         \/ x = 0 /\ y = 0
         \/ x = Len(b) /\ y = Len(was),
         Carries(b, was)
  PROVE  Carries(c, is)
<1>1. PICK f \in [DOMAIN was -> DOMAIN b] :
        /\ \A r, q \in DOMAIN was : r < q => f[r] < f[q]
        /\ \A i \in DOMAIN b : ~b[i].gen <=> \E r \in DOMAIN was : f[r] = i
        /\ \A r \in DOMAIN was : Look(b[f[r]]) = Look(was[r]) /\ Survives(b[f[r]], was[r])
  BY DEF Carries
<1>2. /\ DOMAIN b = 1 .. Len(b) /\ DOMAIN c = 1 .. Len(b) + 1 /\ Len(b) \in Nat
      /\ x \in Nat /\ x + 1 \in DOMAIN c /\ c[x + 1] = e
      /\ \A j \in DOMAIN b : /\ Shift(x, j) \in DOMAIN c /\ c[Shift(x, j)] = b[j]
                             /\ Shift(x, j) # x + 1
      /\ \A i \in DOMAIN c : i = x + 1 \/ \E j \in DOMAIN b : i = Shift(x, j)
  BY InsertedPlaces
<1>3. /\ DOMAIN was = 1 .. Len(was) /\ DOMAIN is = 1 .. Len(was) + 1 /\ Len(was) \in Nat
      /\ y \in Nat /\ y + 1 \in DOMAIN is /\ is[y + 1] = e
      /\ \A j \in DOMAIN was : /\ Shift(y, j) \in DOMAIN is /\ is[Shift(y, j)] = was[j]
                               /\ Shift(y, j) # y + 1
      /\ \A i \in DOMAIN is : i = y + 1 \/ \E j \in DOMAIN was : i = Shift(y, j)
  BY InsertedPlaces
<1>b. PICK nb \in Nat : nb = Len(b)  BY <1>2
<1>w. PICK nw \in Nat : nw = Len(was)  BY <1>3
<1>e. /\ DOMAIN b = 1 .. nb /\ DOMAIN was = 1 .. nw
      /\ DOMAIN c = 1 .. nb + 1 /\ DOMAIN is = 1 .. nw + 1
      /\ \/ x = 0 /\ y = 0
         \/ x = nb /\ y = nw
  BY <1>2, <1>3, <1>b, <1>w
<1>n. x \in Nat /\ y \in Nat  BY <1>e
<1>3a. \A i \in DOMAIN is : i = y + 1 \/ \E j \in DOMAIN was : i = Shift(y, j)  BY <1>3
<1>4. PICK back : back = [r \in DOMAIN is |-> IF r <= y THEN r ELSE r - 1]  OBVIOUS
<1>5. \A j \in DOMAIN was : back[Shift(y, j)] = j
  <2> SUFFICES ASSUME NEW j \in DOMAIN was  PROVE back[Shift(y, j)] = j  OBVIOUS
  <2>1. back[Shift(y, j)] = IF Shift(y, j) <= y THEN Shift(y, j) ELSE Shift(y, j) - 1
    BY <1>3, <1>4
  <2>2. j \in Nat /\ y \in Nat  BY <1>e, <1>n
  <2>3. CASE j <= y  BY <2>1, <2>2, <2>3 DEF Shift
  <2>4. CASE ~(j <= y)  BY <2>1, <2>2, <2>4 DEF Shift
  <2> QED  BY <2>3, <2>4
<1>6. PICK g : g = [r \in DOMAIN is |-> IF r = y + 1 THEN x + 1 ELSE Shift(x, f[back[r]])]
  OBVIOUS
<1>7. g[y + 1] = x + 1 /\ \A j \in DOMAIN was : g[Shift(y, j)] = Shift(x, f[j])
  <2>1. g[y + 1] = x + 1
    <3>1. y + 1 \in DOMAIN is  BY <1>3
    <3> QED  BY <1>6, <3>1
  <2>2. ASSUME NEW j \in DOMAIN was  PROVE g[Shift(y, j)] = Shift(x, f[j])
    <3>1. Shift(y, j) \in DOMAIN is /\ Shift(y, j) # y + 1  BY <1>3
    <3> QED  BY <1>5, <1>6, <3>1
  <2> QED  BY <2>1, <2>2
<1>8. ASSUME NEW j \in DOMAIN was  PROVE f[j] \in DOMAIN b /\ f[j] \in Nat /\ j \in Nat
  BY <1>e
<1>9. g \in [DOMAIN is -> DOMAIN c]
  <2>1. ASSUME NEW r \in DOMAIN is  PROVE g[r] \in DOMAIN c
    <3>1. CASE r = y + 1  BY <1>2, <1>7, <3>1
    <3>2. CASE r # y + 1
      <4>1. PICK j \in DOMAIN was : r = Shift(y, j)  BY <1>3, <3>2
      <4> QED  BY <1>2, <1>7, <1>8, <4>1
    <3> QED  BY <3>1, <3>2
  <2> QED  BY <1>6, <2>1
<1>10. ASSUME NEW r \in DOMAIN is, NEW q \in DOMAIN is, r < q  PROVE g[r] < g[q]
  <2>1. CASE r = y + 1
    <3>0. q # y + 1  BY <1>10, <1>e, <1>n, <2>1
    <3>1. PICK j \in DOMAIN was : q = Shift(y, j)  BY <1>3a, <3>0
    <3>2. y = 0 /\ x = 0
      <4>1. CASE y = 0 /\ x = 0  BY <4>1
      <4>2. CASE y = nw /\ x = nb  BY <1>e, <1>10, <2>1, <4>2
      <4> QED  BY <1>e, <4>1, <4>2
    <3>3. f[j] \in Nat /\ f[j] >= 1  BY <1>e, <1>8
    <3>4. g[r] = 1 /\ g[q] = Shift(0, f[j])  BY <1>7, <2>1, <3>1, <3>2
    <3> QED  BY <3>3, <3>4 DEF Shift
  <2>2. CASE q = y + 1
    <3>0. r # y + 1  BY <1>10, <1>e, <1>n, <2>2
    <3>1. PICK j \in DOMAIN was : r = Shift(y, j)  BY <1>3a, <3>0
    <3>2. y = nw /\ x = nb
      <4>1. CASE y = 0 /\ x = 0  BY <1>e, <1>10, <2>2, <4>1
      <4>2. CASE y = nw /\ x = nb  BY <4>2
      <4> QED  BY <1>e, <4>1, <4>2
    <3>3. f[j] \in Nat /\ f[j] <= nb  BY <1>e, <1>8
    <3>4. g[r] = Shift(nb, f[j]) /\ g[q] = nb + 1  BY <1>7, <2>2, <3>1, <3>2
    <3> QED  BY <3>3, <3>4 DEF Shift
  <2>3. CASE r # y + 1 /\ q # y + 1
    <3>1. PICK j \in DOMAIN was : r = Shift(y, j)  BY <1>3, <2>3
    <3>2. PICK k \in DOMAIN was : q = Shift(y, k)  BY <1>3, <2>3
    <3>3. j < k
      <4>1. j \in Nat /\ k \in Nat /\ Shift(y, j) < Shift(y, k)  BY <1>8, <1>10, <3>1, <3>2
      <4> QED  BY <1>3, <4>1, ShiftOrder
    <3>4. f[j] < f[k]  BY <1>1, <3>3
    <3>5. Shift(x, f[j]) < Shift(x, f[k])  BY <1>2, <1>8, <3>4, ShiftOrder
    <3> QED  BY <1>7, <3>1, <3>2, <3>5
  <2> QED  BY <2>1, <2>2, <2>3
<1>11. ASSUME NEW i \in DOMAIN c  PROVE ~c[i].gen <=> \E r \in DOMAIN is : g[r] = i
  <2>1. CASE i = x + 1  BY <1>2, <1>3, <1>7, <2>1
  <2>2. CASE i # x + 1
    <3>1. PICK j \in DOMAIN b : i = Shift(x, j) /\ c[i] = b[j]  BY <1>2, <2>2
    <3>2. ~b[j].gen <=> \E r \in DOMAIN was : f[r] = j  BY <1>1
    <3>3. ASSUME NEW r \in DOMAIN was, f[r] = j  PROVE \E q \in DOMAIN is : g[q] = i
      BY <1>3, <1>7, <3>1, <3>3
    <3>4. ASSUME NEW q \in DOMAIN is, g[q] = i  PROVE \E r \in DOMAIN was : f[r] = j
      <4>1. q # y + 1  BY <1>7, <2>2, <3>4
      <4>2. PICK r \in DOMAIN was : q = Shift(y, r)  BY <1>3, <4>1
      <4>3. Shift(x, f[r]) = Shift(x, j)  BY <1>7, <3>1, <3>4, <4>2
      <4>5. f[r] \in Nat /\ j \in Nat  BY <1>e, <1>8
      <4>4. f[r] = j  BY <1>n, <4>3, <4>5, ShiftOrder
      <4> QED  BY <4>4
    <3> QED  BY <3>1, <3>2, <3>3, <3>4
  <2> QED  BY <2>1, <2>2
<1>12. ASSUME NEW r \in DOMAIN is
       PROVE  Look(c[g[r]]) = Look(is[r]) /\ Survives(c[g[r]], is[r])
  <2>1. CASE r = y + 1
    <3>1. c[g[r]] = e /\ is[r] = e  BY <1>2, <1>3, <1>7, <2>1
    <3> QED  BY <3>1, SurvivesSame
  <2>2. CASE r # y + 1
    <3>1. PICK j \in DOMAIN was : r = Shift(y, j) /\ is[r] = was[j]  BY <1>3, <2>2
    <3>2. c[g[r]] = b[f[j]]  BY <1>2, <1>7, <1>8, <3>1
    <3> QED  BY <1>1, <3>1, <3>2
  <2> QED  BY <2>1, <2>2
<1> QED  BY <1>9, <1>10, <1>11, <1>12 DEF Carries

-------------------------------------------------------------------------------
(* Calls are wrapped where they stand.                                       *)

\* t is the statement s in which hooks of N may have been put.
Touched(s, t, N) ==
  /\ t.k = s.k /\ t.gen = s.gen /\ t.on = s.on /\ t.top = s.top /\ t.fw = s.fw
  /\ Elems(t.dv) \subseteq Elems(s.dv) \cup N
  /\ HooksDiffer(s) => HooksDiffer(t)
  /\ Survives(t, s)
  /\ Replaceable(s) => /\ Replaceable(t) /\ Elems(s.dv) \subseteq Elems(t.dv)
                       /\ "RunJob" \in Elems(s.dv) => t.job = s.job
Keeps(b, c, N) ==
  /\ c \in Seq(Stmts) /\ Len(c) = Len(b) /\ DOMAIN c = DOMAIN b
  /\ \A i \in DOMAIN b : Touched(b[i], c[i], N)
HookNames == {"HTTPMiddleware", "UnaryServerInterceptor", "StreamServerInterceptor",
              "CLICommandPreRun", "RunCLI", "RunJob"}

LEMMA KeepsSame ==
  ASSUME NEW b \in Seq(Stmts)  PROVE Keeps(b, b, {})
BY SurvivesSame DEF Keeps, Touched

LEMMA KeepsAtLeast ==
  ASSUME NEW b \in Seq(Stmts), NEW N  PROVE Keeps(b, b, N)
<1>1. \A i \in DOMAIN b : Touched(b[i], b[i], N)  BY SurvivesSame DEF Touched
<1> QED  BY <1>1 DEF Keeps

LEMMA KeepsFurther ==
  ASSUME NEW b, NEW c, NEW d, NEW M, NEW N, NEW O, Keeps(b, c, M), Keeps(c, d, N),
         M \cup N \subseteq O
  PROVE  Keeps(b, d, O)
<1>1. d \in Seq(Stmts) /\ Len(d) = Len(b) /\ DOMAIN d = DOMAIN b  BY DEF Keeps
<1>2. ASSUME NEW i \in DOMAIN b  PROVE Touched(b[i], d[i], O)
  <2>1. Touched(b[i], c[i], M) /\ Touched(c[i], d[i], N)  BY DEF Keeps
  <2>2. Survives(d[i], b[i])  BY <2>1, SurvivesFurther DEF Touched
  <2> QED  BY <2>1, <2>2 DEF Touched
<1> QED  BY <1>1, <1>2 DEF Keeps

\* Nothing a body promises depends on its hooks, but that each is there once.
LEMMA KeepsGood ==
  ASSUME NEW b \in Seq(Stmts), NEW c, Keeps(b, c, HookNames), NEW name, NEW was, NEW n,
         BodyGood(b, name, was, n)
  PROVE  BodyGood(c, name, was, n)
<1>0. DOMAIN b = 1 .. Len(b) /\ Len(b) \in Nat  BY LenProperties
<1>1. DOMAIN c = DOMAIN b /\ \A i \in DOMAIN b : Touched(b[i], c[i], HookNames)  BY DEF Keeps
<1>2. \A i \in DOMAIN b : /\ c[i].k = b[i].k /\ c[i].gen = b[i].gen /\ c[i].on = b[i].on
                          /\ c[i].top = b[i].top
                          /\ "Configure" \in Elems(c[i].dv) => "Configure" \in Elems(b[i].dv)
  BY <1>1 DEF Touched, HookNames
<1>3. HooksOnce(c)  BY <1>1 DEF BodyGood, HooksOnce, Touched
<1>4. ConfigureOnce(c)
  <2>1. ConfigureOnce(b)  BY DEF BodyGood
  <2> QED  BY <1>1, <1>2, <2>1 DEF ConfigureOnce
<1>5. Carries(c, was)
  <2>1. PICK f \in [DOMAIN was -> DOMAIN b] :
          /\ \A r, q \in DOMAIN was : r < q => f[r] < f[q]
          /\ \A i \in DOMAIN b : ~b[i].gen <=> \E r \in DOMAIN was : f[r] = i
          /\ \A r \in DOMAIN was : Look(b[f[r]]) = Look(was[r]) /\ Survives(b[f[r]], was[r])
    BY DEF BodyGood, Carries
  <2>2. f \in [DOMAIN was -> DOMAIN c]  BY <1>1
  <2>3. \A i \in DOMAIN c : ~c[i].gen <=> \E r \in DOMAIN was : f[r] = i  BY <1>1, <1>2, <2>1
  <2>4. \A r \in DOMAIN was : Look(c[f[r]]) = Look(was[r]) /\ Survives(c[f[r]], was[r])
    <3> SUFFICES ASSUME NEW r \in DOMAIN was
                 PROVE  Look(c[f[r]]) = Look(was[r]) /\ Survives(c[f[r]], was[r])
      OBVIOUS
    <3>1. Look(c[f[r]]) = Look(b[f[r]])  BY <1>2 DEF Look
    <3>2. Survives(c[f[r]], b[f[r]])  BY <1>1 DEF Touched
    <3>3. Survives(c[f[r]], was[r])  BY <1>2, <2>1, <3>2, SurvivesFurther
    <3> QED  BY <2>1, <3>1, <3>3
  <2> QED  BY <2>1, <2>2, <2>3, <2>4 DEF Carries
<1>6. ASSUME n < 3  PROVE SpanOnce(c)
  <2>1. SpanOnce(b)  BY <1>6 DEF BodyGood
  <2> QED  BY <1>1, <1>2, <2>1 DEF SpanOnce
<1>7. ASSUME n < 3, name # "main"  PROVE Stranded(c) \/ SpanPlaced(c, n)
  <2>1. Stranded(b) \/ SpanPlaced(b, n)  BY <1>7 DEF BodyGood
  <2>2. CASE Stranded(b)
    <3>1. PICK i \in DOMAIN b : b[i].k = "middleware" /\ \A j \in 1 .. i - 1 : b[j].k # "create"
      BY <2>2 DEF Stranded
    <3>2. \A j \in 1 .. i - 1 : j \in DOMAIN b  BY <1>0
    <3> QED  BY <1>1, <1>2, <3>1, <3>2 DEF Stranded
  <2>3. CASE SpanPlaced(b, n)
    <3> SUFFICES ASSUME NEW i \in DOMAIN c, c[i].k = "span"
                 PROVE  i <= n + 1 /\ \A j \in 1 .. i - 1 : c[j].k \notin Spots
      BY DEF SpanPlaced
    <3>1. i <= n + 1 /\ \A j \in 1 .. i - 1 : b[j].k \notin Spots
      BY <1>1, <1>2, <2>3 DEF SpanPlaced
    <3>2. \A j \in 1 .. i - 1 : j \in DOMAIN b  BY <1>0, <1>1
    <3> QED  BY <1>2, <3>1, <3>2
  <2> QED  BY <2>1, <2>2, <2>3
<1> QED  BY <1>3, <1>4, <1>5, <1>6, <1>7 DEF BodyGood

\* A call that lacks a hook is wrapped in it.
LEMMA HookTouches ==
  ASSUME NEW s \in Stmts, NEW name \in Library, name \notin Elems(s.dv),
         NEW uses \in SUBSET Packages, NEW N, name \in N, s.k \notin {"prerun", "execute"}
  PROVE  /\ Hook(s, name, uses) \in Stmts /\ Touched(s, Hook(s, name, uses), N)
         /\ Elems(Hook(s, name, uses).dv) = Elems(s.dv) \cup {name}
         /\ Hook(s, name, uses).k = s.k
<1>1. PICK d : d = s.dv  OBVIOUS
<1>2. PICK e : e = Append(d, name)  OBVIOUS
<1>3. d \in Seq(Library) /\ Len(d) \in Nat /\ DOMAIN d = 1 .. Len(d)
  BY <1>1, LenProperties DEF Stmts
<1>4. /\ e \in Seq(Library) /\ DOMAIN e = 1 .. Len(d) + 1 /\ e[Len(d) + 1] = name
      /\ \A i \in DOMAIN d : e[i] = d[i]
  BY <1>2, <1>3, AppendProperties
<1>5. PICK t : t = Hook(s, name, uses)  OBVIOUS
<1>6. t = [s EXCEPT !.dv = e, !.uses = s.uses \cup uses \cup {"debugviz"}]
  BY <1>1, <1>2, <1>5 DEF Hook
<1>7. /\ t \in Stmts /\ t.dv = e /\ t.k = s.k /\ t.gen = s.gen /\ t.on = s.on /\ t.top = s.top
      /\ t.fw = s.fw /\ t.job = s.job /\ t.args = s.args /\ s.uses \subseteq t.uses
  <2>1. "debugviz" \in Packages /\ s.uses \in SUBSET Packages  BY DEF Stmts, Packages
  <2>2. PICK u \in SUBSET Packages : u = s.uses \cup uses \cup {"debugviz"}  BY <2>1
  <2> QED  BY <1>4, <1>6, <2>2 DEF Stmts
<1>8. Elems(e) = Elems(d) \cup {name}
  <2>1. PICK n \in Nat : n = Len(d)  BY <1>3
  <2>2. DOMAIN d = 1 .. n /\ DOMAIN e = 1 .. n + 1 /\ e[n + 1] = name  BY <1>3, <1>4, <2>1
  <2>3. DOMAIN e = DOMAIN d \cup {n + 1}  BY <2>2
  <2> QED  BY <1>4, <2>2, <2>3 DEF Elems
<1>9. HooksDiffer(s) => HooksDiffer(t)
  <2> SUFFICES ASSUME HooksDiffer(s), NEW i \in DOMAIN e, NEW j \in DOMAIN e, e[i] = e[j]
               PROVE  i = j
    BY <1>7 DEF HooksDiffer
  <2>1. PICK n \in Nat : n = Len(d)  BY <1>3
  <2>2. DOMAIN d = 1 .. n /\ DOMAIN e = 1 .. n + 1 /\ e[n + 1] = name  BY <1>3, <1>4, <2>1
  <2>3. \A x \in DOMAIN d : e[x] = d[x] /\ d[x] # name  BY <1>1, <1>4 DEF Elems
  <2>4. \A x \in DOMAIN e : x \in DOMAIN d \/ x = n + 1  BY <2>2
  <2>5. \A x, z \in DOMAIN d : d[x] = d[z] => x = z  BY <1>1 DEF HooksDiffer
  <2> QED  BY <2>2, <2>3, <2>4, <2>5
<1>11. Replaceable(t)  BY <1>7 DEF Replaceable
<1>12. Survives(t, s)
  <2>1. \A i \in DOMAIN d : i \in DOMAIN e /\ e[i] = d[i]
    <3>1. PICK n \in Nat : n = Len(d)  BY <1>3
    <3>2. DOMAIN d = 1 .. n /\ DOMAIN e = 1 .. n + 1  BY <1>3, <1>4, <3>1
    <3> QED  BY <1>4, <3>2
  <2> QED  BY <1>1, <1>7, <2>1 DEF Survives, Holds
<1>10. Touched(s, t, N)  BY <1>1, <1>7, <1>8, <1>9, <1>11, <1>12 DEF Touched
<1> QED  BY <1>1, <1>5, <1>7, <1>8, <1>10

\* Statement by statement.
LEMMA MapKeeps ==
  ASSUME NEW b \in Seq(Stmts), NEW c, NEW N, DOMAIN c = DOMAIN b,
         c = [i \in DOMAIN b |-> c[i]],
         \A i \in DOMAIN b : c[i] \in Stmts /\ Touched(b[i], c[i], N)
  PROVE  Keeps(b, c, N)
<1>1. PICK n \in Nat : n = Len(b)  BY LenProperties
<1>2. DOMAIN b = 1 .. n  BY <1>1, LenProperties
<1>3. c \in [1 .. n -> Stmts]  BY <1>2
<1>4. c \in Seq(Stmts) /\ Len(c) = n  BY <1>3, SeqDef, LenProperties
<1> QED  BY <1>1, <1>4 DEF Keeps

LEMMA ServiceUsesNames == ASSUME NEW c, NEW app, NEW local
                          PROVE  ServiceUses(c, app, local) \in SUBSET Packages
<1>1. "os" \in Packages  BY DEF Packages
<1>2. {} \in SUBSET Packages /\ {"os"} \in SUBSET Packages  BY <1>1
<1> QED  BY <1>2 DEF ServiceUses

LEMMA StmtOf ==
  ASSUME NEW b \in Seq(Stmts), NEW i \in DOMAIN b  PROVE b[i] \in Stmts /\ Touched(b[i], b[i], {})
<1>1. b[i] \in Stmts  BY LenProperties, ElementOfSeq
<1> QED  BY <1>1, SurvivesSame DEF Touched

LEMMA WrapListensKeeps ==
  ASSUME NEW b \in Seq(Stmts), NEW c, NEW app
  PROVE  Keeps(b, WrapListens(b, c, app), {"HTTPMiddleware"})
<1>1. PICK w : w = WrapListens(b, c, app)  OBVIOUS
<1>2. PICK u \in SUBSET Packages : u = ServiceUses(c, app, FALSE)  BY ServiceUsesNames
<1>3. w = [i \in DOMAIN b |->
             IF b[i].k = "listen" /\ "HTTPMiddleware" \notin Elems(b[i].dv)
             THEN Hook(b[i], "HTTPMiddleware", u) ELSE b[i]]
  BY <1>1, <1>2 DEF WrapListens
<1>4. ASSUME NEW i \in DOMAIN b
      PROVE  w[i] \in Stmts /\ Touched(b[i], w[i], {"HTTPMiddleware"})
  <2>1. b[i] \in Stmts /\ Touched(b[i], b[i], {})  BY StmtOf
  <2>2. CASE b[i].k = "listen" /\ "HTTPMiddleware" \notin Elems(b[i].dv)
    <3>1. w[i] = Hook(b[i], "HTTPMiddleware", u)  BY <1>3, <2>2
    <3>2. "HTTPMiddleware" \in Library  BY DEF Library
    <3> QED  BY <2>1, <2>2, <3>1, <3>2, HookTouches
  <2>3. CASE ~(b[i].k = "listen" /\ "HTTPMiddleware" \notin Elems(b[i].dv))
    <3>1. w[i] = b[i]  BY <1>3, <2>3
    <3> QED  BY <2>1, <3>1 DEF Touched
  <2> QED  BY <2>2, <2>3
<1>5. DOMAIN w = DOMAIN b /\ w = [i \in DOMAIN b |-> w[i]]  BY <1>3
<1> QED  BY <1>1, <1>4, <1>5, MapKeeps

\* The stream interceptor goes in unasked: no call of the body may have it.
LEMMA InjectInterceptorsKeeps ==
  ASSUME NEW b \in Seq(Stmts), \A i \in DOMAIN b : "StreamServerInterceptor" \notin Elems(b[i].dv)
  PROVE  Keeps(b, InjectInterceptors(b), {"UnaryServerInterceptor", "StreamServerInterceptor"})
<1>1. PICK w : w = InjectInterceptors(b)  OBVIOUS
<1>2. PICK N : N = {"UnaryServerInterceptor", "StreamServerInterceptor"}  OBVIOUS
<1>3. w = [i \in DOMAIN b |->
             IF b[i].k = "grpc" /\ "UnaryServerInterceptor" \notin Elems(b[i].dv)
             THEN Hook(Hook(b[i], "UnaryServerInterceptor", {}),
                       "StreamServerInterceptor", {})
             ELSE b[i]]
  BY <1>1 DEF InjectInterceptors
<1>4. ASSUME NEW i \in DOMAIN b  PROVE w[i] \in Stmts /\ Touched(b[i], w[i], N)
  <2>1. b[i] \in Stmts /\ Touched(b[i], b[i], {})  BY StmtOf
  <2>2. CASE b[i].k = "grpc" /\ "UnaryServerInterceptor" \notin Elems(b[i].dv)
    <3>0. /\ "UnaryServerInterceptor" \in Library /\ "StreamServerInterceptor" \in Library
          /\ {} \in SUBSET Packages
      BY DEF Library
    <3>1. PICK h : h = Hook(b[i], "UnaryServerInterceptor", {})  OBVIOUS
    <3>2. /\ h \in Stmts /\ Touched(b[i], h, N) /\ h.k = b[i].k
          /\ Elems(h.dv) = Elems(b[i].dv) \cup {"UnaryServerInterceptor"}
      BY <1>2, <2>1, <2>2, <3>0, <3>1, HookTouches
    <3>3. "StreamServerInterceptor" \notin Elems(h.dv)  BY <3>2
    <3>4. PICK k : k = Hook(h, "StreamServerInterceptor", {})  OBVIOUS
    <3>5. k \in Stmts /\ Touched(h, k, N)  BY <1>2, <2>2, <3>0, <3>2, <3>3, <3>4, HookTouches
    <3>6. w[i] = k  BY <1>3, <2>2, <3>1, <3>4
    <3>7. Survives(k, b[i])  BY <3>2, <3>5, SurvivesFurther DEF Touched
    <3> QED  BY <3>2, <3>5, <3>6, <3>7 DEF Touched
  <2>3. CASE ~(b[i].k = "grpc" /\ "UnaryServerInterceptor" \notin Elems(b[i].dv))
    <3>1. w[i] = b[i]  BY <1>3, <2>3
    <3> QED  BY <2>1, <3>1 DEF Touched
  <2> QED  BY <2>2, <2>3
<1>5. DOMAIN w = DOMAIN b /\ w = [i \in DOMAIN b |-> w[i]]  BY <1>3
<1> QED  BY <1>1, <1>2, <1>4, <1>5, MapKeeps

\* A Process call keeps all but its arguments.
LEMMA ContextAloneTouches ==
  ASSUME NEW s \in Stmts, s.k = "process", NEW N
  PROVE  /\ ContextAlone(s) \in Stmts /\ Touched(s, ContextAlone(s), N)
         /\ ContextAlone(s).dv = s.dv /\ ContextAlone(s).k = "process"
<1>1. PICK t : t = ContextAlone(s)  OBVIOUS
<1>2. PICK u \in SUBSET Packages : u = IF s.args > 1 THEN {} ELSE s.uses  BY DEF Stmts
<1>3. t = [s EXCEPT !.uses = u]  BY <1>1, <1>2 DEF ContextAlone
<1>4. /\ t \in Stmts /\ t.dv = s.dv /\ t.k = s.k /\ t.gen = s.gen /\ t.on = s.on /\ t.top = s.top
      /\ t.fw = s.fw /\ t.job = s.job /\ t.args = s.args /\ t.uses = u
  BY <1>2, <1>3 DEF Stmts
<1>5. Survives(t, s)
  <2>1. CASE s.args > 1  BY <1>4, <2>1 DEF Survives, DropsArguments
  <2>2. CASE ~(s.args > 1)
    <3>1. Holds(t, s)  BY <1>2, <1>4, <2>2 DEF Holds
    <3> QED  BY <1>4, <3>1 DEF Survives
  <2> QED  BY <2>1, <2>2
<1>6. Touched(s, t, N)  BY <1>4, <1>5 DEF Touched, HooksDiffer, Replaceable
<1> QED  BY <1>1, <1>4, <1>6

LEMMA InjectJobKeeps ==
  ASSUME NEW b \in Seq(Stmts), NEW job \in Names  PROVE Keeps(b, InjectJob(b, job), {"RunJob"})
<1>1. PICK w : w = InjectJob(b, job)  OBVIOUS
<1>2. w = [i \in DOMAIN b |->
             IF Unwrapped(b[i])
             THEN [Hook(ContextAlone(b[i]), "RunJob", {"context"}) EXCEPT !.job = job]
             ELSE b[i]]
  BY <1>1 DEF InjectJob
<1>3. ASSUME NEW i \in DOMAIN b  PROVE w[i] \in Stmts /\ Touched(b[i], w[i], {"RunJob"})
  <2>1. b[i] \in Stmts /\ Touched(b[i], b[i], {})  BY StmtOf
  <2>2. CASE Unwrapped(b[i])
    <3>0. "RunJob" \in Library /\ {"context"} \in SUBSET Packages
      BY DEF Library, Packages
    <3>1. "RunJob" \notin Elems(b[i].dv) /\ b[i].k = "process"  BY <2>2 DEF Unwrapped
    <3>2. PICK g : g = ContextAlone(b[i])  OBVIOUS
    <3>3. g \in Stmts /\ Touched(b[i], g, {}) /\ g.dv = b[i].dv /\ g.k = "process"
      BY <2>1, <3>1, <3>2, ContextAloneTouches
    <3>4. PICK h : h = Hook(g, "RunJob", {"context"})  OBVIOUS
    <3>5. h \in Stmts /\ Touched(g, h, {"RunJob"})  BY <3>0, <3>1, <3>3, <3>4, HookTouches
    <3>6. w[i] = [h EXCEPT !.job = job]  BY <1>2, <2>2, <3>2, <3>4
    <3>7. /\ w[i] \in Stmts /\ w[i].k = h.k /\ w[i].gen = h.gen /\ w[i].on = h.on
          /\ w[i].top = h.top /\ w[i].dv = h.dv /\ w[i].fw = h.fw /\ w[i].uses = h.uses
          /\ w[i].args = h.args
      BY <3>5, <3>6 DEF Stmts
    <3>8. Replaceable(w[i])  BY <3>3, <3>5, <3>7 DEF Touched, Replaceable
    <3>9. Holds(w[i], h)  BY <3>7 DEF Holds
    <3>10. Survives(w[i], h)  BY <3>7, <3>9 DEF Survives
    <3>11. Survives(w[i], g)  BY <3>5, <3>7, <3>10, SurvivesFurther DEF Touched
    <3>12. Survives(w[i], b[i])  BY <3>3, <3>5, <3>7, <3>11, SurvivesFurther DEF Touched
    <3> QED  BY <3>1, <3>3, <3>5, <3>7, <3>8, <3>12 DEF Touched, HooksDiffer
  <2>3. CASE ~Unwrapped(b[i])
    <3>1. w[i] = b[i]  BY <1>2, <2>3
    <3> QED  BY <2>1, <3>1 DEF Touched
  <2> QED  BY <2>2, <2>3
<1>4. DOMAIN w = DOMAIN b /\ w = [i \in DOMAIN b |-> w[i]]  BY <1>2
<1> QED  BY <1>1, <1>3, <1>4, MapKeeps

\* One statement is replaced by what Touched allows.
LEMMA ExceptKeeps ==
  ASSUME NEW b \in Seq(Stmts), NEW i \in DOMAIN b, NEW t \in Stmts, NEW N, Touched(b[i], t, N)
  PROVE  Keeps(b, [b EXCEPT ![i] = t], N)
<1>1. PICK c : c = [b EXCEPT ![i] = t]  OBVIOUS
<1>2. DOMAIN c = DOMAIN b /\ c = [j \in DOMAIN b |-> c[j]]
  <2>1. b = [j \in DOMAIN b |-> b[j]]
    <3>1. PICK n \in Nat : n = Len(b)  BY LenProperties
    <3>2. b \in [1 .. n -> Stmts]  BY <3>1, LenProperties
    <3> QED  BY <3>2
  <2> QED  BY <1>1, <2>1
<1>3. ASSUME NEW j \in DOMAIN b  PROVE c[j] \in Stmts /\ Touched(b[j], c[j], N)
  <2>1. CASE j = i  BY <1>1, <2>1
  <2>2. CASE j # i
    <3>1. b[j] \in Stmts /\ Touched(b[j], b[j], {}) /\ c[j] = b[j]  BY <1>1, <2>2, StmtOf
    <3> QED  BY <3>1 DEF Touched
  <2> QED  BY <2>1, <2>2
<1> QED  BY <1>1, <1>2, <1>3, MapKeeps

LEMMA InjectPreRunKeeps ==
  ASSUME NEW b \in Seq(Stmts)  PROVE Keeps(b, InjectPreRun(b), {"CLICommandPreRun"})
<1>1. CASE \E s \in Elems(b) : s.k = "prerun" /\ s.top
  <2>1. PICK n \in Nat : n = Len(b)  BY LenProperties
  <2>2. DOMAIN b = 1 .. n  BY <2>1, LenProperties
  <2>3. PICK S \in SUBSET (1 .. n) : S = {i \in 1 .. n : b[i].k = "prerun" /\ b[i].top}
    OBVIOUS
  <2>4. S # {}  BY <1>1, <2>2, <2>3 DEF Elems
  <2>5. \E i \in S : \A j \in 1 .. i - 1 : j \notin S  BY <2>4, FirstPlace
  <2>6. \E i \in DOMAIN b : (b[i].k = "prerun" /\ b[i].top)
                              /\ \A j \in 1 .. i - 1 : ~(b[j].k = "prerun" /\ b[j].top)
    BY <2>2, <2>3, <2>5
  <2>7. PICK i : i = CHOOSE x \in DOMAIN b : (b[x].k = "prerun" /\ b[x].top)
                              /\ \A j \in 1 .. x - 1 : ~(b[j].k = "prerun" /\ b[j].top)
    OBVIOUS
  <2>8. i \in DOMAIN b /\ b[i].k = "prerun" /\ b[i].top  BY <2>6, <2>7
  <2>9. PICK t : t = [b[i] EXCEPT !.dv = <<"CLICommandPreRun">>, !.uses = {"debugviz"}]  OBVIOUS
  <2>10. InjectPreRun(b) = [b EXCEPT ![i] = t]  BY <1>1, <2>7, <2>9 DEF InjectPreRun, FirstIndex
  <2>11. b[i] \in Stmts  BY <2>8, StmtOf
  <2>12. PICK d : d = <<"CLICommandPreRun">>  OBVIOUS
  <2>13. d \in Seq(Library) /\ DOMAIN d = {1} /\ d[1] = "CLICommandPreRun"  BY <2>12 DEF Library
  <2>14. {"debugviz"} \in SUBSET Packages  BY DEF Packages
  <2>15. /\ t \in Stmts /\ t.dv = d /\ t.k = b[i].k /\ t.gen = b[i].gen /\ t.on = b[i].on
         /\ t.top = b[i].top /\ t.fw = b[i].fw /\ t.args = b[i].args
    BY <2>9, <2>11, <2>12, <2>13, <2>14 DEF Stmts
  <2>17. Elems(d) = {"CLICommandPreRun"}  BY <2>13 DEF Elems
  <2>18. HooksDiffer(t)  BY <2>13, <2>15 DEF HooksDiffer
  <2>19. Replaceable(t) /\ (Replaceable(b[i]) => Elems(b[i].dv) \subseteq Elems(t.dv)
                                                   /\ "RunJob" \notin Elems(b[i].dv))
    BY <2>8, <2>15, <2>17 DEF Replaceable
  <2>20. Survives(t, b[i])  BY <2>8, <2>13, <2>15 DEF Survives, Overwritten
  <2>16. Touched(b[i], t, {"CLICommandPreRun"})
    BY <2>15, <2>17, <2>18, <2>19, <2>20 DEF Touched
  <2> QED  BY <2>8, <2>10, <2>15, <2>16, ExceptKeeps
<1>2. CASE ~\E s \in Elems(b) : s.k = "prerun" /\ s.top
  <2>1. InjectPreRun(b) = b  BY <1>2 DEF InjectPreRun
  <2> QED  BY <2>1, KeepsSame DEF Keeps, Touched
<1> QED  BY <1>1, <1>2

\* There is an Execute block to wrap, or the run has failed.
LEMMA InjectCLIRunKeeps ==
  ASSUME NEW b \in Seq(Stmts), CanRunCLI(b)
  PROVE  Keeps(b, InjectCLIRun(b), {"CLICommandPreRun", "RunCLI"})
<1>1. PICK n \in Nat : n = Len(b)  BY LenProperties
<1>2. DOMAIN b = 1 .. n  BY <1>1, LenProperties
<1>3. PICK S \in SUBSET (1 .. n) :
        S = {i \in 1 .. n : IsExecute(b[i]) /\ "RunCLI" \notin Elems(b[i].dv)}
  OBVIOUS
<1>4. S # {}  BY <1>2, <1>3 DEF Elems, CanRunCLI
<1>5. \E i \in S : \A j \in 1 .. i - 1 : j \notin S  BY <1>4, FirstPlace
<1>6. \E i \in DOMAIN b :
        (IsExecute(b[i]) /\ "RunCLI" \notin Elems(b[i].dv))
        /\ \A j \in 1 .. i - 1 : ~(IsExecute(b[j]) /\ "RunCLI" \notin Elems(b[j].dv))
  BY <1>2, <1>3, <1>5
<1>7. PICK i : i = CHOOSE x \in DOMAIN b :
        (IsExecute(b[x]) /\ "RunCLI" \notin Elems(b[x].dv))
        /\ \A j \in 1 .. x - 1 : ~(IsExecute(b[j]) /\ "RunCLI" \notin Elems(b[j].dv))
  OBVIOUS
<1>8. i \in DOMAIN b /\ "RunCLI" \notin Elems(b[i].dv) /\ b[i].k = "execute" /\ b[i].top
  BY <1>6, <1>7 DEF IsExecute
<1>9. PICK c : c = InjectPreRun(b)  OBVIOUS
<1>10. Keeps(b, c, {"CLICommandPreRun"})  BY <1>9, InjectPreRunKeeps
<1>11. c \in Seq(Stmts) /\ i \in DOMAIN c /\ Touched(b[i], c[i], {"CLICommandPreRun"})
  BY <1>8, <1>10 DEF Keeps
<1>12. c[i] \in Stmts /\ c[i].k = "execute" /\ c[i].top  BY <1>8, <1>11, StmtOf DEF Touched
<1>13. PICK d : d = <<"RunCLI">>  OBVIOUS
<1>14. d \in Seq(Library) /\ DOMAIN d = {1} /\ d[1] = "RunCLI"  BY <1>13 DEF Library
<1>15. PICK t : t = RunByLibrary(c[i])  OBVIOUS
<1>16. /\ t \in Stmts /\ t.dv = d /\ t.k = c[i].k /\ t.gen = c[i].gen /\ t.on = c[i].on
       /\ t.top = c[i].top /\ t.fw = c[i].fw /\ t.args = c[i].args
  <2>1. PICK u \in SUBSET Packages : u = {"debugviz", "context", "fmt", "os"}  BY DEF Packages
  <2>2. t = [c[i] EXCEPT !.dv = d, !.uses = u]  BY <1>13, <1>15, <2>1 DEF RunByLibrary
  <2> QED  BY <1>12, <1>14, <2>2 DEF Stmts
<1>17. Touched(c[i], t, {"RunCLI"})
  <2>1. Elems(d) = {"RunCLI"}  BY <1>14 DEF Elems
  <2>2. HooksDiffer(t)  BY <1>14, <1>16 DEF HooksDiffer
  <2>3. Replaceable(t) /\ (Replaceable(c[i]) => Elems(c[i].dv) \subseteq Elems(t.dv)
                                                  /\ "RunJob" \notin Elems(c[i].dv))
    BY <1>12, <1>16, <2>1 DEF Replaceable
  <2>4. Survives(t, c[i])  BY <1>12, <1>14, <1>16 DEF Survives, Overwritten
  <2> QED  BY <1>16, <2>1, <2>2, <2>3, <2>4 DEF Touched
<1>18. Keeps(c, [c EXCEPT ![i] = t], {"RunCLI"})  BY <1>11, <1>16, <1>17, ExceptKeeps
<1>19. InjectCLIRun(b) = [c EXCEPT ![i] = t]
  BY <1>7, <1>9, <1>15 DEF InjectCLIRun, FirstIndex
<1> QED  BY <1>10, <1>18, <1>19, KeepsFurther

\* The bodies after each job are defined, one from the other.
LEMMA JobBodiesStep ==
  ASSUME NEW b, NEW jobs \in Seq(Names)
  PROVE  \A n \in 0 .. Len(jobs) :
           JobBodies(b, jobs)[n] =
             IF n = 0 THEN b
             ELSE IF jobs[n] = "" THEN JobBodies(b, jobs)[n - 1]
             ELSE InjectJob(JobBodies(b, jobs)[n - 1], jobs[n])
<1> DEFINE Body(h, n) == IF n = 0 THEN b
                         ELSE IF jobs[n] = "" THEN h[n - 1]
                         ELSE InjectJob(h[n - 1], jobs[n])
           Good(m) == \E h : h = [n \in 0 .. m |-> Body(h, n)]
           S == {m \in Nat : Good(m)}
<1>1. 0 \in S
  <2>1. PICK h : h = [n \in 0 .. 0 |-> b]  OBVIOUS
  <2>2. \A n \in 0 .. 0 : Body(h, n) = b  OBVIOUS
  <2>3. h = [n \in 0 .. 0 |-> Body(h, n)]
    <3> HIDE DEF Body
    <3> QED  BY <2>1, <2>2
  <2> QED  BY <2>3
<1>2. ASSUME NEW m \in Nat, m \in S  PROVE m + 1 \in S
  <2>1. PICK h : h = [n \in 0 .. m |-> Body(h, n)]  BY <1>2
  <2>2. PICK z : z = Body(h, m + 1)  OBVIOUS
  <2>3. PICK g : g = [n \in 0 .. m + 1 |-> IF n = m + 1 THEN z ELSE h[n]]  OBVIOUS
  <2>4. ASSUME NEW n \in 0 .. m + 1  PROVE Body(g, n) = g[n]
    <3>1. n # 0 => g[n - 1] = h[n - 1]
      <4> SUFFICES ASSUME n # 0  PROVE g[n - 1] = h[n - 1]  OBVIOUS
      <4>1. n - 1 \in 0 .. m + 1 /\ n - 1 # m + 1  OBVIOUS
      <4> QED  BY <2>3, <4>1
    <3>2. Body(g, n) = Body(h, n)  BY <3>1
    <3>3. CASE n = m + 1
      <4> HIDE DEF Body
      <4> QED  BY <2>2, <2>3, <3>2, <3>3
    <3>4. CASE n # m + 1
      <4>1. n \in 0 .. m /\ g[n] = h[n]  BY <2>3, <3>4
      <4> HIDE DEF Body
      <4>2. h[n] = Body(h, n)  BY <2>1, <4>1
      <4> QED  BY <3>2, <4>1, <4>2
    <3> QED  BY <3>3, <3>4
  <2>5. g = [n \in 0 .. m + 1 |-> g[n]]  BY <2>3
  <2>6. g = [n \in 0 .. m + 1 |-> Body(g, n)]
    <3>1. PICK k : k = [n \in 0 .. m + 1 |-> Body(g, n)]  OBVIOUS
    <3>2. ASSUME NEW n \in 0 .. m + 1  PROVE k[n] = g[n]
      <4> HIDE DEF Body
      <4> QED  BY <2>4, <3>1
    <3>3. k = [n \in 0 .. m + 1 |-> k[n]]
      <4> HIDE DEF Body
      <4> QED  BY <3>1
    <3>4. k = g  BY <2>5, <3>2, <3>3
    <3> QED  BY <3>1, <3>4
  <2>7. Good(m + 1)
    <3> HIDE DEF Body
    <3> QED  BY <2>6
  <2> HIDE DEF Good
  <2> QED  BY <2>7
<1>3. PICK N \in Nat : N = Len(jobs)  BY LenProperties
<1>4. N \in S
  <2> HIDE DEF S
  <2> QED  BY <1>1, <1>2, SetInduction
<1>5. \E h : h = [n \in 0 .. Len(jobs) |-> Body(h, n)]  BY <1>3, <1>4
<1>6. JobBodies(b, jobs) = CHOOSE h : h = [n \in 0 .. Len(jobs) |-> Body(h, n)]
  BY DEF JobBodies
<1>7. PICK k : k = JobBodies(b, jobs)  OBVIOUS
<1>8. k = [n \in 0 .. Len(jobs) |-> Body(k, n)]
  <2> HIDE DEF Body
  <2> QED  BY <1>5, <1>6, <1>7
<1>9. ASSUME NEW n \in 0 .. Len(jobs)  PROVE k[n] = Body(k, n)
  <2> HIDE DEF Body
  <2> QED  BY <1>8
<1> QED  BY <1>7, <1>9

LEMMA InjectJobsKeeps ==
  ASSUME NEW b \in Seq(Stmts), NEW jobs \in Seq(Names)
  PROVE  Keeps(b, InjectJobs(b, jobs), {"RunJob"})
<1>1. PICK N \in Nat : N = Len(jobs)  BY LenProperties
<1>2. \A n \in 1 .. N : jobs[n] \in Names  BY <1>1, ElementOfSeq
<1>3. PICK h : h = JobBodies(b, jobs)  OBVIOUS
<1>4. \A n \in 0 .. N : h[n] = IF n = 0 THEN b
                               ELSE IF jobs[n] = "" THEN h[n - 1]
                               ELSE InjectJob(h[n - 1], jobs[n])
  BY <1>1, <1>3, JobBodiesStep
<1>5. PICK S \in SUBSET Nat : S = {n \in Nat : n <= N => Keeps(b, h[n], {"RunJob"})}  OBVIOUS
<1>6. 0 \in S
  <2>1. h[0] = b
    <3>1. 0 \in 0 .. N  OBVIOUS
    <3> QED  BY <1>4, <3>1
  <2>2. Keeps(b, b, {"RunJob"})  BY KeepsSame DEF Keeps, Touched
  <2> QED  BY <1>5, <2>1, <2>2
<1>7. ASSUME NEW n \in Nat, n \in S  PROVE n + 1 \in S
  <2> SUFFICES ASSUME n + 1 <= N  PROVE Keeps(b, h[n + 1], {"RunJob"})  BY <1>5
  <2>1. n + 1 \in 1 .. N /\ n + 1 \in 0 .. N /\ n + 1 # 0 /\ n + 1 - 1 = n /\ n <= N  BY <1>1
  <2>2. Keeps(b, h[n], {"RunJob"})  BY <1>5, <1>7, <2>1
  <2>3. h[n + 1] = IF jobs[n + 1] = "" THEN h[n] ELSE InjectJob(h[n], jobs[n + 1])
    <3>1. PICK x : x = n + 1  OBVIOUS
    <3>2. h[x] = IF x = 0 THEN b
                 ELSE IF jobs[x] = "" THEN h[x - 1] ELSE InjectJob(h[x - 1], jobs[x])
      BY <1>4, <2>1, <3>1
    <3>3. x # 0 /\ x - 1 = n  BY <2>1, <3>1
    <3> QED  BY <3>1, <3>2, <3>3
  <2>4. h[n] \in Seq(Stmts)  BY <2>2 DEF Keeps
  <2>5. Keeps(h[n], InjectJob(h[n], jobs[n + 1]), {"RunJob"})  BY <1>2, <2>1, <2>4, InjectJobKeeps
  <2>6. Keeps(b, InjectJob(h[n], jobs[n + 1]), {"RunJob"})  BY <2>2, <2>5, KeepsFurther
  <2> QED  BY <2>2, <2>3, <2>6
<1>8. N \in S  BY <1>6, <1>7, SetInduction
<1> QED  BY <1>1, <1>3, <1>5, <1>8 DEF InjectJobs

\* An Execute block without RunCLI is still there when other hooks are in.
LEMMA KeepsCanRunCLI ==
  ASSUME NEW b, NEW c, NEW N, Keeps(b, c, N), "RunCLI" \notin N, CanRunCLI(b)
  PROVE  CanRunCLI(c)
<1>1. PICK i \in DOMAIN b : IsExecute(b[i]) /\ "RunCLI" \notin Elems(b[i].dv)
  BY DEF CanRunCLI, Elems
<1>2. i \in DOMAIN c /\ Touched(b[i], c[i], N)  BY DEF Keeps
<1>3. IsExecute(c[i]) /\ "RunCLI" \notin Elems(c[i].dv)  BY <1>1, <1>2 DEF IsExecute, Touched
<1> QED  BY <1>2, <1>3 DEF CanRunCLI, Elems

LEMMA ConfigureStmtOne ==
  /\ ConfigureStmt \in Stmts /\ ConfigureStmt.gen /\ HooksDiffer(ConfigureStmt)
  /\ ConfigureStmt.k = "other" /\ Elems(ConfigureStmt.dv) = {"Configure"}
<1>1. PICK d : d = <<"Configure">>  OBVIOUS
<1>2. d \in Seq(Library) /\ DOMAIN d = {1} /\ d[1] = "Configure"  BY <1>1 DEF Library
<1>3. PICK u \in SUBSET Packages : u = {"debugviz", "log"}  BY DEF Packages
<1>4. PICK s : s = ConfigureStmt  OBVIOUS
<1>n. PICK none : none = ""  OBVIOUS
<1>N. none \in Constructors /\ none \in Names  BY <1>n, CodegenAssumption DEF Constructors
<1>5. s = [k |-> "other", top |-> TRUE, on |-> none, fw |-> none, dv |-> d,
           job |-> none, args |-> 1, uses |-> u, gen |-> TRUE]
  BY <1>1, <1>3, <1>4, <1>n DEF ConfigureStmt, Stmt
<1>6. s \in Stmts /\ s.gen /\ s.k = "other" /\ s.dv = d
  BY <1>2, <1>5, <1>N DEF Stmts, Kinds
<1>7. HooksDiffer(s) /\ Elems(d) = {"Configure"}  BY <1>2, <1>6 DEF HooksDiffer, Elems
<1> QED  BY <1>4, <1>6, <1>7

\* The generator's Configure goes first, where there was none.
LEMMA ConfigureGood ==
  ASSUME NEW b \in Seq(Stmts), ~HasConfigure(b), NEW was, NEW n, BodyGood(b, "main", was, n)
  PROVE  BodyGood(<<ConfigureStmt>> \o b, "main", was, n)
<1>1. PICK c : c = <<ConfigureStmt>> \o b  OBVIOUS
<1>2. Inserted(b, c, 0, ConfigureStmt)  BY <1>1, HeadInserts, ConfigureStmtOne
<1>3. HooksOnce(c)  BY <1>2, InsertHooks, ConfigureStmtOne DEF BodyGood
<1>4. ConfigureOnce(c)  BY <1>2, InsertConfigure DEF BodyGood
<1>5. Carries(c, was)  BY <1>2, InsertCarries, ConfigureStmtOne DEF BodyGood
<1>6. ASSUME n < 3  PROVE SpanOnce(c)
  <2>1. SpanOnce(b)  BY <1>6 DEF BodyGood
  <2> QED  BY <1>2, <2>1, InsertSpan, ConfigureStmtOne
<1> QED  BY <1>1, <1>3, <1>4, <1>5, <1>6 DEF BodyGood

\* The body of main after each injection: each adds its own hooks and no others.
Steps(b, c, app, plan, b1, b2, b3, b4, b5) ==
  /\ b1 = IF "configure" \in plan.hooks THEN <<ConfigureStmt>> \o b ELSE b
  /\ b2 = IF "listen" \in plan.hooks THEN WrapListens(b1, c, app) ELSE b1
  /\ b3 = IF "grpc" \in plan.hooks THEN InjectInterceptors(b2) ELSE b2
  /\ b4 = IF "cli" \in plan.hooks THEN InjectCLIRun(b3) ELSE b3
  /\ b5 = InjectJobs(b4, plan.jobs)
  /\ b1 \in Seq(Stmts) /\ b2 \in Seq(Stmts) /\ b3 \in Seq(Stmts) /\ b4 \in Seq(Stmts)
  /\ Keeps(b1, b2, {"HTTPMiddleware"})
  /\ Keeps(b2, b3, {"UnaryServerInterceptor", "StreamServerInterceptor"})
  /\ Keeps(b3, b4, {"CLICommandPreRun", "RunCLI"})
  /\ Keeps(b4, b5, {"RunJob"})
  /\ "cli" \in plan.hooks => CanRunCLI(b3)

\* The hooks that a plan for main may name are those that main can take.
LEMMA ApplyMainSteps ==
  ASSUME NEW b \in Seq(Stmts), NEW c, NEW app, NEW plan, plan.jobs \in Seq(Names),
         "grpc" \in plan.hooks => ~HasGRPCWired(b),
         "cli" \in plan.hooks => CanRunCLI(b)
  PROVE  \E b1, b2, b3, b4 : Steps(b, c, app, plan, b1, b2, b3, b4, ApplyMain(b, c, app, plan))
<1>1. PICK b1 : b1 = IF "configure" \in plan.hooks THEN <<ConfigureStmt>> \o b ELSE b  OBVIOUS
<1>2. PICK b2 : b2 = IF "listen" \in plan.hooks THEN WrapListens(b1, c, app) ELSE b1  OBVIOUS
<1>3. PICK b3 : b3 = IF "grpc" \in plan.hooks THEN InjectInterceptors(b2) ELSE b2  OBVIOUS
<1>4. PICK b4 : b4 = IF "cli" \in plan.hooks THEN InjectCLIRun(b3) ELSE b3  OBVIOUS
<1>5. PICK b5 : b5 = InjectJobs(b4, plan.jobs)  OBVIOUS
<1>6. ApplyMain(b, c, app, plan) = b5  BY <1>1, <1>2, <1>3, <1>4, <1>5 DEF ApplyMain
<1>7. /\ b1 \in Seq(Stmts)
      /\ "grpc" \in plan.hooks => \A i \in DOMAIN b1 : "StreamServerInterceptor" \notin Elems(b1[i].dv)
      /\ "cli" \in plan.hooks => CanRunCLI(b1)
  <2>0. "grpc" \in plan.hooks => \A i \in DOMAIN b : "StreamServerInterceptor" \notin Elems(b[i].dv)
    BY DEF HasGRPCWired, Calls, Elems
  <2>1. CASE "configure" \in plan.hooks
    <3>1. b1 = <<ConfigureStmt>> \o b  BY <1>1, <2>1
    <3>2. Inserted(b, b1, 0, ConfigureStmt)  BY <3>1, HeadInserts, ConfigureStmtOne
    <3>3. /\ b1 \in Seq(Stmts) /\ b1[1] = ConfigureStmt
          /\ \A i \in DOMAIN b : Shift(0, i) \in DOMAIN b1 /\ b1[Shift(0, i)] = b[i]
          /\ \A i \in DOMAIN b1 : i = 1 \/ \E j \in DOMAIN b : i = Shift(0, j)
      <4>1. b1 \in Seq(Stmts)  BY <3>2 DEF Inserted
      <4> QED  BY <3>2, <4>1, InsertedPlaces
    <3>4. ASSUME "grpc" \in plan.hooks, NEW i \in DOMAIN b1
          PROVE  "StreamServerInterceptor" \notin Elems(b1[i].dv)
      <4>1. CASE i = 1  BY <3>3, <4>1, ConfigureStmtOne
      <4>2. CASE i # 1  BY <2>0, <3>3, <3>4, <4>2
      <4> QED  BY <4>1, <4>2
    <3>5. ASSUME "cli" \in plan.hooks  PROVE CanRunCLI(b1)
      <4>1. PICK i \in DOMAIN b : IsExecute(b[i]) /\ "RunCLI" \notin Elems(b[i].dv)
        BY <3>5 DEF CanRunCLI, Elems
      <4> QED  BY <3>3, <4>1 DEF CanRunCLI, Elems
    <3> QED  BY <3>3, <3>4, <3>5
  <2>2. CASE "configure" \notin plan.hooks  BY <1>1, <2>0, <2>2
  <2> QED  BY <2>1, <2>2
<1>8. Keeps(b1, b2, {"HTTPMiddleware"})
  <2>1. CASE "listen" \in plan.hooks  BY <1>2, <1>7, <2>1, WrapListensKeeps
  <2>2. CASE "listen" \notin plan.hooks  BY <1>2, <1>7, <2>2, KeepsAtLeast
  <2> QED  BY <2>1, <2>2
<1>9. /\ b2 \in Seq(Stmts)
      /\ "grpc" \in plan.hooks => \A i \in DOMAIN b2 : "StreamServerInterceptor" \notin Elems(b2[i].dv)
  <2>1. b2 \in Seq(Stmts) /\ DOMAIN b2 = DOMAIN b1  BY <1>8 DEF Keeps
  <2>2. \A i \in DOMAIN b1 : Elems(b2[i].dv) \subseteq Elems(b1[i].dv) \cup {"HTTPMiddleware"}
    BY <1>8 DEF Keeps, Touched
  <2>3. ASSUME "grpc" \in plan.hooks, NEW i \in DOMAIN b2
        PROVE  "StreamServerInterceptor" \notin Elems(b2[i].dv)
    <3>1. "StreamServerInterceptor" \notin Elems(b1[i].dv)  BY <1>7, <2>1, <2>3
    <3>2. Elems(b2[i].dv) \subseteq Elems(b1[i].dv) \cup {"HTTPMiddleware"}  BY <2>1, <2>2
    <3> QED  BY <3>1, <3>2
  <2> QED  BY <2>1, <2>3
<1>10. PICK G : G = {"UnaryServerInterceptor", "StreamServerInterceptor"}  OBVIOUS
<1>11. Keeps(b2, b3, G)
  <2>2. CASE "grpc" \in plan.hooks
    <3>1. \A i \in DOMAIN b2 : "StreamServerInterceptor" \notin Elems(b2[i].dv)  BY <1>9, <2>2
    <3> QED  BY <1>3, <1>9, <1>10, <2>2, <3>1, InjectInterceptorsKeeps
  <2>3. CASE "grpc" \notin plan.hooks  BY <1>3, <1>9, <2>3, KeepsAtLeast
  <2> QED  BY <2>2, <2>3
<1>12. b3 \in Seq(Stmts)  BY <1>11 DEF Keeps
<1>13. "cli" \in plan.hooks => CanRunCLI(b3)
  <2> SUFFICES ASSUME "cli" \in plan.hooks  PROVE CanRunCLI(b3)  OBVIOUS
  <2>1. CanRunCLI(b1)  BY <1>7
  <2>2. "RunCLI" \notin {"HTTPMiddleware"} /\ "RunCLI" \notin G  BY <1>10
  <2>3. CanRunCLI(b2)  BY <1>8, <2>1, <2>2, KeepsCanRunCLI
  <2> QED  BY <1>11, <2>2, <2>3, KeepsCanRunCLI
<1>14. PICK K : K = {"CLICommandPreRun", "RunCLI"}  OBVIOUS
<1>15. Keeps(b3, b4, K)
  <2>1. CASE "cli" \in plan.hooks  BY <1>4, <1>12, <1>13, <1>14, <2>1, InjectCLIRunKeeps
  <2>2. CASE "cli" \notin plan.hooks  BY <1>4, <1>12, <2>2, KeepsAtLeast
  <2> QED  BY <2>1, <2>2
<1>16. b4 \in Seq(Stmts)  BY <1>15 DEF Keeps
<1>17. Keeps(b4, b5, {"RunJob"})  BY <1>5, <1>16, InjectJobsKeeps
<1>18. Steps(b, c, app, plan, b1, b2, b3, b4, b5)
  BY <1>1, <1>2, <1>3, <1>4, <1>5, <1>7, <1>8, <1>9, <1>10, <1>11, <1>12, <1>13, <1>14, <1>15,
     <1>16, <1>17 DEF Steps
<1> QED  BY <1>6, <1>18

\* All of them together add hooks.
LEMMA StepsKeep ==
  ASSUME NEW b, NEW c, NEW app, NEW plan, NEW b1, NEW b2, NEW b3, NEW b4, NEW b5,
         Steps(b, c, app, plan, b1, b2, b3, b4, b5)
  PROVE  b1 \in Seq(Stmts) /\ Keeps(b1, b5, HookNames)
<1>1. PICK G, K : /\ G = {"UnaryServerInterceptor", "StreamServerInterceptor"}
                  /\ K = {"CLICommandPreRun", "RunCLI"}
  OBVIOUS
<1>2. Keeps(b1, b2, {"HTTPMiddleware"}) /\ Keeps(b2, b3, G) /\ Keeps(b3, b4, K)
      /\ Keeps(b4, b5, {"RunJob"}) /\ b1 \in Seq(Stmts)
  BY <1>1 DEF Steps
<1>3. Keeps(b1, b3, HookNames)
  <2>1. {"HTTPMiddleware"} \cup G \subseteq HookNames  BY <1>1 DEF HookNames
  <2> QED  BY <1>2, <2>1, KeepsFurther
<1>4. Keeps(b1, b4, HookNames)
  <2>1. HookNames \cup K \subseteq HookNames  BY <1>1 DEF HookNames
  <2> QED  BY <1>2, <1>3, <2>1, KeepsFurther
<1>5. HookNames \cup {"RunJob"} \subseteq HookNames  BY DEF HookNames
<1> QED  BY <1>2, <1>4, <1>5, KeepsFurther

LEMMA ApplyMainGood ==
  ASSUME NEW b \in Seq(Stmts), NEW c, NEW app, NEW plan, plan.jobs \in Seq(Names),
         "configure" \in plan.hooks => ~HasConfigure(b),
         "grpc" \in plan.hooks => ~HasGRPCWired(b),
         "cli" \in plan.hooks => CanRunCLI(b),
         NEW was, NEW n, BodyGood(b, "main", was, n)
  PROVE  /\ ApplyMain(b, c, app, plan) \in Seq(Stmts)
         /\ BodyGood(ApplyMain(b, c, app, plan), "main", was, n)
<1>1. PICK b5 : b5 = ApplyMain(b, c, app, plan)  OBVIOUS
<1>2. PICK b1, b2, b3, b4 : Steps(b, c, app, plan, b1, b2, b3, b4, b5)
  BY <1>1, ApplyMainSteps
<1>3. b1 \in Seq(Stmts) /\ Keeps(b1, b5, HookNames)  BY <1>2, StepsKeep
<1>4. BodyGood(b1, "main", was, n)
  <2>1. b1 = IF "configure" \in plan.hooks THEN <<ConfigureStmt>> \o b ELSE b  BY <1>2 DEF Steps
  <2>2. CASE "configure" \in plan.hooks  BY <2>1, <2>2, ConfigureGood
  <2>3. CASE "configure" \notin plan.hooks  BY <2>1, <2>3
  <2> QED  BY <2>2, <2>3
<1>5. b5 \in Seq(Stmts)  BY <1>3 DEF Keeps
<1> QED  BY <1>1, <1>3, <1>4, <1>5, KeepsGood

-------------------------------------------------------------------------------
(* A file is rewritten.                                                      *)

LEMMA FileParts ==
  ASSUME NEW f \in Files
  PROVE  /\ f.funcs \in Seq(Funcs) /\ DOMAIN f.funcs = 1 .. Len(f.funcs) /\ Len(f.funcs) \in Nat
         /\ \A i \in DOMAIN f.funcs :
              /\ f.funcs[i] \in Funcs
              /\ f.funcs[i].body \in Seq(Stmts) /\ f.funcs[i].name \in Names
<1>1. f.funcs \in Seq(Funcs)  BY DEF Files
<1>2. DOMAIN f.funcs = 1 .. Len(f.funcs) /\ Len(f.funcs) \in Nat
  BY <1>1, LenProperties
<1>3. \A i \in DOMAIN f.funcs : f.funcs[i] \in Funcs  BY <1>1, <1>2, ElementOfSeq
<1>4. \A s \in Funcs : s.body \in Seq(Stmts) /\ s.name \in Names  BY DEF Funcs
<1> QED  BY <1>1, <1>2, <1>3, <1>4

\* One function of it gets another body.
Rebodied(fn, body) == [fn EXCEPT !.body = body]
SameHeader(f, g) == g.skip = f.skip /\ g.app = f.app /\ g.mentions = f.mentions
LEMMA BodyReplaced ==
  ASSUME NEW f \in Files, NEW i \in DOMAIN f.funcs, NEW body \in Seq(Stmts),
         NEW g, g = [f EXCEPT !.funcs[i].body = body]
  PROVE  /\ g \in Files /\ DOMAIN g.funcs = DOMAIN f.funcs
         /\ \A j \in DOMAIN f.funcs : g.funcs[j].name = f.funcs[j].name
         /\ g.funcs[i].body = body
         /\ \A j \in DOMAIN f.funcs : j # i => g.funcs[j].body = f.funcs[j].body
<1>1. PICK n \in Nat : n = Len(f.funcs)  BY FileParts
<1>2. PICK s : s = f.funcs  OBVIOUS
<1>3. DOMAIN s = 1 .. n /\ s \in Seq(Funcs) /\ \A j \in 1 .. n : s[j] \in Funcs
  BY <1>1, <1>2, FileParts
<1>4. PICK x : x = [s[i] EXCEPT !.body = body]  OBVIOUS
<1>5. x \in Funcs /\ x.body = body /\ x.name = s[i].name  BY <1>2, <1>3, <1>4 DEF Funcs
<1>6. PICK t : t = [s EXCEPT ![i] = x]  OBVIOUS
<1>7. t \in [1 .. n -> Funcs]
  <2>1. s \in [1 .. n -> Funcs]  BY <1>3
  <2> QED  BY <1>5, <1>6, <2>1
<1>8. t \in Seq(Funcs)  BY <1>7, SeqDef
<1>9. g = [f EXCEPT !.funcs = t]  BY <1>2, <1>4, <1>6
<1>10. /\ g \in Files /\ g.funcs = t /\ g.imports = f.imports
       /\ g.skip = f.skip /\ g.app = f.app /\ g.mentions = f.mentions
  BY <1>8, <1>9 DEF Files
<1>11. DOMAIN t = DOMAIN s /\ t[i] = x /\ \A j \in DOMAIN s : j # i => t[j] = s[j]
  BY <1>2, <1>3, <1>6
<1> QED  BY <1>2, <1>5, <1>10, <1>11

\* And nothing else of it changes.
LEMMA RestKept ==
  ASSUME NEW f \in Files, NEW i \in DOMAIN f.funcs, NEW body \in Seq(Stmts),
         NEW g, g = [f EXCEPT !.funcs[i].body = body]
  PROVE  /\ \A j \in DOMAIN f.funcs : j # i => g.funcs[j] = f.funcs[j]
         /\ g.funcs[i] = Rebodied(f.funcs[i], body) /\ f.funcs[i] \in Funcs
         /\ g.imports = f.imports /\ SameHeader(f, g)
<1>1. PICK n \in Nat : n = Len(f.funcs)  BY FileParts
<1>2. PICK s : s = f.funcs  OBVIOUS
<1>3. DOMAIN s = 1 .. n /\ s \in Seq(Funcs) /\ \A j \in 1 .. n : s[j] \in Funcs
  BY <1>1, <1>2, FileParts
<1>4. PICK x : x = [s[i] EXCEPT !.body = body]  OBVIOUS
<1>5. x \in Funcs /\ x.body = body /\ x.name = s[i].name  BY <1>2, <1>3, <1>4 DEF Funcs
<1>6. PICK t : t = [s EXCEPT ![i] = x]  OBVIOUS
<1>7. t \in [1 .. n -> Funcs]
  <2>1. s \in [1 .. n -> Funcs]  BY <1>3
  <2> QED  BY <1>5, <1>6, <2>1
<1>8. t \in Seq(Funcs)  BY <1>7, SeqDef
<1>9. g = [f EXCEPT !.funcs = t]  BY <1>2, <1>4, <1>6
<1>10. /\ g \in Files /\ g.funcs = t /\ g.imports = f.imports
       /\ g.skip = f.skip /\ g.app = f.app /\ g.mentions = f.mentions
  BY <1>8, <1>9 DEF Files
<1>11. DOMAIN t = DOMAIN s /\ t[i] = x /\ \A j \in DOMAIN s : j # i => t[j] = s[j]
  BY <1>2, <1>3, <1>6
<1>12. s[i] \in Funcs  BY <1>2, <1>3
<1>13. SameHeader(f, g)  BY <1>10 DEF SameHeader
<1>14. x = Rebodied(s[i], body)  BY <1>4 DEF Rebodied
<1> QED  BY <1>2, <1>10, <1>11, <1>12, <1>13, <1>14

\* And the file more imports.
LEMMA ImportsAdded ==
  ASSUME NEW f \in Files, NEW more \in SUBSET Packages
  PROVE  LET g == [f EXCEPT !.imports = @ \cup more]
         IN  /\ g \in Files /\ g.funcs = f.funcs
             /\ g.imports = f.imports \cup more /\ SameHeader(f, g)
<1>1. PICK g : g = [f EXCEPT !.imports = @ \cup more]  OBVIOUS
<1>2. PICK u \in SUBSET Packages : u = f.imports \cup more  BY DEF Files
<1>3. g = [f EXCEPT !.imports = u]  BY <1>1, <1>2
<1>4. g \in Files /\ g.funcs = f.funcs /\ g.imports = u /\ SameHeader(f, g)
  BY <1>3 DEF Files, SameHeader
<1> QED  BY <1>1, <1>2, <1>4

\* One function of it is another.
OneReplaced(f, g, i) ==
  /\ DOMAIN g.funcs = DOMAIN f.funcs /\ i \in DOMAIN f.funcs
  /\ \A j \in DOMAIN f.funcs : j # i => g.funcs[j] = f.funcs[j]
  /\ g.funcs[i] = Rebodied(f.funcs[i], g.funcs[i].body)
  /\ f.funcs[i] \in Funcs /\ g.funcs[i] \in Funcs
  /\ SameHeader(f, g)

LEMMA RebodiedHead ==
  ASSUME NEW fn \in Funcs, NEW body, NEW g, g = Rebodied(fn, body)
  PROVE  g.name = fn.name /\ g.ctx = fn.ctx /\ g.param = fn.param /\ g.skip = fn.skip
BY DEF Rebodied, Funcs

\* So wire rewrites a file.
Rewrote(f, i, body, more) ==
  [[f EXCEPT !.funcs[i].body = body] EXCEPT !.imports = @ \cup more]

LEMMA FileRewritten ==
  ASSUME NEW f \in Files, NEW i \in DOMAIN f.funcs, NEW body \in Seq(Stmts),
         NEW more \in SUBSET Packages
  PROVE  \E h : /\ h = Rewrote(f, i, body, more) /\ h \in Files /\ OneReplaced(f, h, i)
                /\ h.imports = f.imports \cup more /\ h.funcs[i].body = body
<1>1. PICK g : g = [f EXCEPT !.funcs[i].body = body]  OBVIOUS
<1>2. PICK h : h = [g EXCEPT !.imports = @ \cup more]  OBVIOUS
<1>3. h = Rewrote(f, i, body, more)  BY <1>1, <1>2 DEF Rewrote
<1>4. /\ \A j \in DOMAIN f.funcs : j # i => g.funcs[j] = f.funcs[j]
      /\ g.funcs[i] = Rebodied(f.funcs[i], body)
      /\ g.imports = f.imports /\ SameHeader(f, g)
  <2>1. \A j \in DOMAIN f.funcs : j # i => g.funcs[j] = f.funcs[j]  BY <1>1, RestKept
  <2>2. g.funcs[i] = Rebodied(f.funcs[i], body)  BY <1>1, RestKept
  <2>3. g.imports = f.imports /\ SameHeader(f, g)  BY <1>1, RestKept
  <2> QED  BY <2>1, <2>2, <2>3
<1>5. g \in Files /\ DOMAIN g.funcs = DOMAIN f.funcs /\ g.funcs[i].body = body
  BY <1>1, BodyReplaced
<1>6. h \in Files /\ h.funcs = g.funcs /\ h.imports = g.imports \cup more /\ SameHeader(g, h)
  BY <1>2, <1>5, ImportsAdded
<1>7. SameHeader(f, h)  BY <1>4, <1>6 DEF SameHeader
<1>8. h.funcs[i] \in Funcs /\ f.funcs[i] \in Funcs  BY <1>5, <1>6, FileParts
<1>9. OneReplaced(f, h, i)  BY <1>4, <1>5, <1>6, <1>7, <1>8 DEF OneReplaced
<1> QED  BY <1>3, <1>4, <1>5, <1>6, <1>9

LEMMA FileGoodReplaced ==
  ASSUME NEW f, NEW g, NEW i, OneReplaced(f, g, i), NEW o, NEW n, FileGood(f, o, n),
         BodyGood(g.funcs[i].body, f.funcs[i].name, o.funcs[i].body, n)
  PROVE  FileGood(g, o, n)
<1>1. g.funcs[i].name = f.funcs[i].name  BY RebodiedHead DEF OneReplaced
<1> QED  BY <1>1 DEF OneReplaced, FileGood

LEMMA NeededImportsPackages == ASSUME NEW plan  PROVE NeededImports(plan) \in SUBSET Packages
<1>1. \A h : HookImports(h) \in SUBSET Packages
  <2> SUFFICES ASSUME NEW h  PROVE HookImports(h) \in SUBSET Packages  OBVIOUS
  <2>1. CASE h = "configure"  BY <2>1 DEF HookImports, Packages
  <2>2. CASE h = "listen"  BY <2>2 DEF HookImports, Packages
  <2>3. CASE h = "grpc"  BY <2>3 DEF HookImports, Packages
  <2>4. CASE h = "cli"  BY <2>4 DEF HookImports, Packages
  <2>5. CASE h \notin {"configure", "listen", "grpc", "cli"}  BY <2>5 DEF HookImports
  <2> QED  BY <2>1, <2>2, <2>3, <2>4, <2>5
<1>2. \A b : When("context", b) \in SUBSET Packages  BY DEF When, Packages
<1>3. {"debugviz"} \in SUBSET Packages  BY DEF Packages
<1>4. PICK u : u = UNION {HookImports(h) : h \in plan.hooks}  OBVIOUS
<1>5. u \in SUBSET Packages  BY <1>1, <1>4
<1>6. NeededImports(plan) = {"debugviz"} \cup u \cup When("context", PlannedJobs(plan) # {})
  BY <1>4 DEF NeededImports
<1> QED  BY <1>2, <1>3, <1>5, <1>6

LEMMA MainIndexIsMain ==
  ASSUME NEW f \in Files, HasMain(f)
  PROVE  /\ MainIndex(f) \in DOMAIN f.funcs /\ f.funcs[MainIndex(f)].name = "main"
         /\ \A j \in 1 .. MainIndex(f) - 1 : f.funcs[j].name # "main"
<1>1. PICK n \in Nat : n = Len(f.funcs)  BY FileParts
<1>2. PICK s : s = f.funcs /\ DOMAIN s = 1 .. n  BY <1>1, FileParts
<1>3. PICK S \in SUBSET (1 .. n) : S = {i \in 1 .. n : IsMain(s[i])}  OBVIOUS
<1>4. S # {}  BY <1>2, <1>3 DEF HasMain, Elems
<1>5. \E i \in S : \A j \in 1 .. i - 1 : j \notin S  BY <1>4, FirstPlace
<1>6. \E i \in DOMAIN s : IsMain(s[i]) /\ \A j \in 1 .. i - 1 : ~IsMain(s[j])
  <2>1. PICK i \in S : \A j \in 1 .. i - 1 : j \notin S  BY <1>5
  <2>2. \A j \in 1 .. i - 1 : j \in 1 .. n  OBVIOUS
  <2> QED  BY <1>2, <1>3, <2>1, <2>2
<1>7. MainIndex(f) = CHOOSE i \in DOMAIN s : IsMain(s[i]) /\ \A j \in 1 .. i - 1 : ~IsMain(s[j])
  BY <1>2 DEF MainIndex, FirstIndex
<1> QED  BY <1>2, <1>6, <1>7 DEF IsMain

\* What the analysis of main plans, main can take.
LEMMA MainPlan ==
  ASSUME NEW f \in Files, HasMain(f), NEW c, c.jobs \in Seq(Names), NEW plan,
         plan = AnalyzeMain(f, c), HasChanges(plan), ~MainFails(f, plan),
         NEW b, b = f.funcs[MainIndex(f)].body
  PROVE  /\ plan.jobs \in Seq(Names)
         /\ "configure" \in plan.hooks => ~HasConfigure(b)
         /\ "grpc" \in plan.hooks => ~HasGRPCWired(b)
         /\ "cli" \in plan.hooks => CanRunCLI(b)
<1>1. "wire" \notin f.skip
  <2> SUFFICES ASSUME "wire" \in f.skip  PROVE FALSE  OBVIOUS
  <2>1. plan = [hooks |-> {}, jobs |-> <<>>]  BY DEF AnalyzeMain, NoPlan
  <2>2. Elems(plan.jobs) = {}  BY <2>1 DEF Elems
  <2>3. plan.hooks = {}  BY <2>1
  <2>4. PlannedJobs(plan) = {}  BY <2>2 DEF PlannedJobs
  <2> QED  BY <2>3, <2>4 DEF HasChanges
<1>j. PICK j : j = [n \in DOMAIN c.jobs |->
                      IF HasJobWired(b, c.jobs[n]) THEN "" ELSE c.jobs[n]]
  OBVIOUS
<1>2. plan = [hooks |-> MainHooks(f, b, c), jobs |-> j]
  BY <1>1, <1>j DEF AnalyzeMain
<1>3. plan.jobs \in Seq(Names)
  <2>1. PICK n \in Nat : n = Len(c.jobs)  BY LenProperties
  <2>2. DOMAIN c.jobs = 1 .. n /\ \A i \in 1 .. n : c.jobs[i] \in Names
    BY <2>1, LenProperties, ElementOfSeq
  <2>3. "" \in Names  BY CodegenAssumption
  <2>4. plan.jobs = j  BY <1>2
  <2>5. j = [i \in 1 .. n |-> IF HasJobWired(b, c.jobs[i]) THEN "" ELSE c.jobs[i]]
    BY <1>j, <2>2
  <2>6. j \in [1 .. n -> Names]  BY <2>2, <2>3, <2>5
  <2>7. j \in Seq(Names)  BY <2>6, SeqDef
  <2> QED  BY <2>4, <2>7
<1>4. plan.hooks = MainHooks(f, b, c)  BY <1>2
<1>5. "configure" \in plan.hooks => ~HasConfigure(b)  BY <1>4 DEF MainHooks, When
<1>6. "grpc" \in plan.hooks => ~HasGRPCWired(b)  BY <1>4 DEF MainHooks, When
<1>7. "cli" \in plan.hooks => CanRunCLI(b)  BY DEF MainFails
<1> QED  BY <1>3, <1>5, <1>6, <1>7

\* What wire makes of a file with a main function, by a plan with something to do.
MainWired(f, g, c, plan, i) ==
  /\ OneReplaced(f, g, i) /\ i = MainIndex(f) /\ f.funcs[i].name = "main"
  /\ f.funcs[i].body \in Seq(Stmts) /\ plan.jobs \in Seq(Names)
  /\ g.funcs[i].body = ApplyMain(f.funcs[i].body, c, f.app, plan)
  /\ g.imports = f.imports \cup NeededImports(plan)
  /\ "configure" \in plan.hooks => ~HasConfigure(f.funcs[i].body)
  /\ "grpc" \in plan.hooks => ~HasGRPCWired(f.funcs[i].body)
  /\ "cli" \in plan.hooks => CanRunCLI(f.funcs[i].body)

LEMMA WireMainParts ==
  ASSUME NEW f \in Files, NEW c, c.jobs \in Seq(Names), NEW isMain, isMain,
         ~WireFails(f, c, isMain), NEW plan, plan = AnalyzeMain(f, c), HasChanges(plan),
         NEW h, h = WireFile(f, c, isMain)
  PROVE  h \in Files /\ MainWired(f, h, c, plan, MainIndex(f))
<1>2. PlanOf(f, c, isMain) = plan  BY DEF PlanOf
<1>3. ~MainFails(f, plan)  BY <1>2 DEF WireFails
<1>4. HasMain(f)  BY <1>3 DEF MainFails
<1>5. PICK i : i = MainIndex(f)  OBVIOUS
<1>6. i \in DOMAIN f.funcs /\ f.funcs[i].name = "main"  BY <1>4, <1>5, MainIndexIsMain
<1>7. PICK b : b = f.funcs[i].body  OBVIOUS
<1>8. b \in Seq(Stmts)  BY <1>6, <1>7, FileParts
<1>9. /\ plan.jobs \in Seq(Names)
      /\ "configure" \in plan.hooks => ~HasConfigure(b)
      /\ "grpc" \in plan.hooks => ~HasGRPCWired(b)
      /\ "cli" \in plan.hooks => CanRunCLI(b)
  BY <1>3, <1>4, <1>5, <1>7, MainPlan
<1>10. PICK body : body = ApplyMain(b, c, f.app, plan)  OBVIOUS
<1>11. body \in Seq(Stmts)
  <2>1. PICK b1, b2, b3, b4 : Steps(b, c, f.app, plan, b1, b2, b3, b4, body)
    BY <1>8, <1>9, <1>10, ApplyMainSteps
  <2> QED  BY <2>1 DEF Steps, Keeps
<1>12. PICK u \in SUBSET Packages : u = NeededImports(plan)  BY NeededImportsPackages
<1>13. h = Rewrote(f, i, body, u)
  BY <1>2, <1>5, <1>7, <1>10, <1>12 DEF WireFile, Rewrote
<1>14. PICK k : /\ k = Rewrote(f, i, body, u) /\ k \in Files /\ OneReplaced(f, k, i)
                /\ k.imports = f.imports \cup u /\ k.funcs[i].body = body
  BY <1>6, <1>11, FileRewritten
<1>15. MainWired(f, k, c, plan, i)
  BY <1>5, <1>6, <1>7, <1>8, <1>9, <1>10, <1>12, <1>14 DEF MainWired
<1> QED  BY <1>5, <1>13, <1>14, <1>15

LEMMA WireMainGood ==
  ASSUME NEW f \in Files, NEW o, NEW n, FileGood(f, o, n), NEW c, c.jobs \in Seq(Names),
         NEW isMain, isMain, ~WireFails(f, c, isMain)
  PROVE  WireFile(f, c, isMain) \in Files /\ FileGood(WireFile(f, c, isMain), o, n)
<1>1. PICK plan : plan = AnalyzeMain(f, c)  OBVIOUS
<1>2. PlanOf(f, c, isMain) = plan  BY <1>1 DEF PlanOf
<1>3. CASE ~HasChanges(plan)  BY <1>2, <1>3 DEF WireFile
<1>4. CASE HasChanges(plan)
  <2>1. PICK i : i = MainIndex(f)  OBVIOUS
  <2>2. PICK h : h = WireFile(f, c, isMain)  OBVIOUS
  <2>3. h \in Files /\ MainWired(f, h, c, plan, i)  BY <1>1, <1>4, <2>1, <2>2, WireMainParts
  <2>4. PICK b : b = f.funcs[i].body  OBVIOUS
  <2>5. /\ OneReplaced(f, h, i) /\ f.funcs[i].name = "main" /\ b \in Seq(Stmts)
        /\ plan.jobs \in Seq(Names) /\ h.funcs[i].body = ApplyMain(b, c, f.app, plan)
        /\ "configure" \in plan.hooks => ~HasConfigure(b)
        /\ "grpc" \in plan.hooks => ~HasGRPCWired(b)
        /\ "cli" \in plan.hooks => CanRunCLI(b)
    BY <2>3, <2>4 DEF MainWired
  <2>6. BodyGood(b, "main", o.funcs[i].body, n)  BY <2>4, <2>5 DEF FileGood, OneReplaced
  <2>7. BodyGood(h.funcs[i].body, "main", o.funcs[i].body, n)  BY <2>5, <2>6, ApplyMainGood
  <2> QED  BY <2>2, <2>3, <2>5, <2>7, FileGoodReplaced
<1> QED  BY <1>3, <1>4

LEMMA NoElems == Elems(<<>>) = {}
BY DEF Elems

\* The variable RouterIdent takes and the place insertAfterRouterCreate finds for it.
TakesUse(s, ident) == s.k \in {"use", "middleware"} /\ s.on = ident /\ s.top
TakesAssign(s, lib) == s.k = "create" /\ s.fw = lib /\ s.top
NewRouter(s, lib) == s.k = "create" /\ s.fw = lib

IsIdent(b, lib, v) ==
  \/ \E i \in DOMAIN b : /\ NewRouter(b[i], lib) /\ v = b[i].on
                         /\ \A j \in i + 1 .. Len(b) : ~NewRouter(b[j], lib)
  \/ (\A j \in DOMAIN b : ~NewRouter(b[j], lib)) /\ v = IF lib = "echo" THEN "e" ELSE "r"
IsPlace(b, ident, lib, at) ==
  \/ /\ at \in DOMAIN b /\ TakesUse(b[at], ident)
     /\ \A j \in at + 1 .. Len(b) : ~TakesUse(b[j], ident)
  \/ /\ \A j \in DOMAIN b : ~TakesUse(b[j], ident)
     /\ at \in DOMAIN b /\ TakesAssign(b[at], lib)
     /\ \A j \in 1 .. at - 1 : ~TakesAssign(b[j], lib)
  \/ /\ \A j \in DOMAIN b : ~TakesUse(b[j], ident) /\ ~TakesAssign(b[j], lib)
     /\ at = 0

\* wire's statement names a variable of the function.
LEMMA RouterIdentName ==
  ASSUME NEW b \in Seq(Stmts), NEW lib
  PROVE  RouterIdent(b, lib) \in Names /\ IsIdent(b, lib, RouterIdent(b, lib))
<1>1. "e" \in Names /\ "r" \in Names  BY CodegenAssumption
<1>2. CASE \E s \in Elems(b) : s.k = "create" /\ s.fw = lib
  <2>1. PICK n \in Nat : n = Len(b)  BY LenProperties
  <2>2. DOMAIN b = 1 .. n  BY <2>1, LenProperties
  <2>3. PICK S \in SUBSET (1 .. n) : S = {i \in 1 .. n : b[i].k = "create" /\ b[i].fw = lib}
    OBVIOUS
  <2>4. S # {}  BY <1>2, <2>2, <2>3 DEF Elems
  <2>5. PICK i \in S : \A j \in i + 1 .. n : j \notin S  BY <2>4, LastPlace
  <2>6. \A j \in i + 1 .. n : j \in 1 .. n  OBVIOUS
  <2>7. \E x \in DOMAIN b : (b[x].k = "create" /\ b[x].fw = lib)
          /\ \A j \in x + 1 .. Len(b) : ~(b[j].k = "create" /\ b[j].fw = lib)
    BY <2>1, <2>2, <2>3, <2>5, <2>6
  <2>8. PICK z : z = CHOOSE x \in DOMAIN b : (b[x].k = "create" /\ b[x].fw = lib)
          /\ \A j \in x + 1 .. Len(b) : ~(b[j].k = "create" /\ b[j].fw = lib)
    OBVIOUS
  <2>9. z \in DOMAIN b  BY <2>7, <2>8
  <2>10. RouterIdent(b, lib) = b[z].on  BY <1>2, <2>8 DEF RouterIdent, LastIndex
  <2>11. b[z] \in Stmts  BY <2>9, StmtOf
  <2>12. NewRouter(b[z], lib) /\ \A j \in z + 1 .. Len(b) : ~NewRouter(b[j], lib)
    BY <2>7, <2>8 DEF NewRouter
  <2>13. IsIdent(b, lib, RouterIdent(b, lib))  BY <2>9, <2>10, <2>12 DEF IsIdent
  <2> QED  BY <2>10, <2>11, <2>13 DEF Stmts
<1>3. CASE ~\E s \in Elems(b) : s.k = "create" /\ s.fw = lib
  <2>1. \A j \in DOMAIN b : ~NewRouter(b[j], lib)  BY <1>3 DEF NewRouter, Elems
  <2>2. RouterIdent(b, lib) = IF lib = "echo" THEN "e" ELSE "r"  BY <1>3 DEF RouterIdent
  <2> QED  BY <1>1, <2>1, <2>2 DEF IsIdent
<1> QED  BY <1>2, <1>3

\* It goes behind a use of the router, behind its assignment, or to the head.
LEMMA RouterPlace ==
  ASSUME NEW b \in Seq(Stmts), NEW ident, NEW lib, NEW e
  PROVE  \E at \in 0 .. Len(b) :
           /\ InsertAfterRouterCreate(b, ident, lib, e) = InsertAfter(b, at, e)
           /\ IsPlace(b, ident, lib, at)
           /\ at # 0 => at \in DOMAIN b /\ b[at].k \in Spots
<1>1. PICK n \in Nat : n = Len(b)  BY LenProperties
<1>2. DOMAIN b = 1 .. n  BY <1>1, LenProperties
<1> DEFINE IsUse(s) == TakesUse(s, ident)
           IsAssign(s) == TakesAssign(s, lib)
           LastUse == CHOOSE i \in DOMAIN b :
                        IsUse(b[i]) /\ \A j \in i + 1 .. Len(b) : ~IsUse(b[j])
           FirstAssign == CHOOSE i \in DOMAIN b :
                            IsAssign(b[i]) /\ \A j \in 1 .. i - 1 : ~IsAssign(b[j])
           At == IF \E s \in Elems(b) : IsUse(s) THEN LastUse
                 ELSE IF \E s \in Elems(b) : IsAssign(s) THEN FirstAssign ELSE 0
<1>3. InsertAfterRouterCreate(b, ident, lib, e) = InsertAfter(b, At, e)
  BY DEF InsertAfterRouterCreate, FirstIndex, LastIndex, TakesUse, TakesAssign
<1>4. ASSUME \E s \in Elems(b) : IsUse(s)
      PROVE  /\ LastUse \in DOMAIN b /\ IsUse(b[LastUse])
             /\ \A j \in LastUse + 1 .. Len(b) : ~IsUse(b[j])
  <2>1. PICK S \in SUBSET (1 .. n) : S = {i \in 1 .. n : IsUse(b[i])}  OBVIOUS
  <2> HIDE DEF IsUse
  <2>2. S # {}  BY <1>2, <1>4, <2>1 DEF Elems
  <2>3. PICK i \in S : \A j \in i + 1 .. n : j \notin S  BY <2>2, LastPlace
  <2>4. \A j \in i + 1 .. n : j \in 1 .. n  OBVIOUS
  <2>5. \E x \in DOMAIN b : IsUse(b[x]) /\ \A j \in x + 1 .. Len(b) : ~IsUse(b[j])
    BY <1>1, <1>2, <2>1, <2>3, <2>4
  <2> QED  BY <2>5
<1>5. ASSUME \E s \in Elems(b) : IsAssign(s)
      PROVE  /\ FirstAssign \in DOMAIN b /\ IsAssign(b[FirstAssign])
             /\ \A j \in 1 .. FirstAssign - 1 : ~IsAssign(b[j])
  <2>1. PICK S \in SUBSET (1 .. n) : S = {i \in 1 .. n : IsAssign(b[i])}  OBVIOUS
  <2> HIDE DEF IsAssign
  <2>2. S # {}  BY <1>2, <1>5, <2>1 DEF Elems
  <2>3. PICK i \in S : \A j \in 1 .. i - 1 : j \notin S  BY <2>2, FirstPlace
  <2>4. \A j \in 1 .. i - 1 : j \in 1 .. n  OBVIOUS
  <2>5. \E x \in DOMAIN b : IsAssign(b[x]) /\ \A j \in 1 .. x - 1 : ~IsAssign(b[j])
    BY <1>2, <2>1, <2>3, <2>4
  <2> QED  BY <2>5
<1>6. IsPlace(b, ident, lib, At)
  <2>1. CASE \E s \in Elems(b) : IsUse(s)
    <3>1. At = LastUse  BY <2>1
    <3>2. /\ LastUse \in DOMAIN b /\ TakesUse(b[LastUse], ident)
          /\ \A j \in LastUse + 1 .. Len(b) : ~TakesUse(b[j], ident)
      BY <1>4, <2>1
    <3> HIDE DEF LastUse, At
    <3> QED  BY <3>1, <3>2 DEF IsPlace
  <2>2. CASE ~(\E s \in Elems(b) : IsUse(s)) /\ \E s \in Elems(b) : IsAssign(s)
    <3>1. At = FirstAssign  BY <2>2
    <3>2. /\ FirstAssign \in DOMAIN b /\ TakesAssign(b[FirstAssign], lib)
          /\ \A j \in 1 .. FirstAssign - 1 : ~TakesAssign(b[j], lib)
      BY <1>5, <2>2
    <3>3. \A j \in DOMAIN b : ~TakesUse(b[j], ident)  BY <2>2 DEF Elems
    <3> HIDE DEF FirstAssign, At
    <3> QED  BY <3>1, <3>2, <3>3 DEF IsPlace
  <2>3. CASE ~(\E s \in Elems(b) : IsUse(s)) /\ ~\E s \in Elems(b) : IsAssign(s)
    <3>1. At = 0  BY <2>3
    <3>2. \A j \in DOMAIN b : ~TakesUse(b[j], ident) /\ ~TakesAssign(b[j], lib)
      BY <2>3 DEF Elems
    <3> HIDE DEF At
    <3> QED  BY <3>1, <3>2 DEF IsPlace
  <2> QED  BY <2>1, <2>2, <2>3
<1>7. At \in 0 .. Len(b) /\ (At # 0 => At \in DOMAIN b /\ b[At].k \in Spots)
  <2> HIDE DEF At
  <2> QED  BY <1>1, <1>2, <1>6 DEF Spots, IsPlace, TakesUse, TakesAssign
<1> HIDE DEF At
<1> QED  BY <1>3, <1>6, <1>7

LEMMA MiddlewareStmtOne ==
  ASSUME NEW ident \in Names, NEW lib \in Frameworks, NEW uses \in SUBSET Packages,
         NEW e, e = MiddlewareStmt(ident, lib, uses)
  PROVE  /\ e \in Stmts /\ e.gen /\ e.k = "middleware" /\ HooksDiffer(e)
         /\ "Configure" \notin Elems(e.dv) /\ Elems(e.dv) = {Middleware(lib)}
<1>1. PICK m : m = Middleware(lib)  OBVIOUS
<1>2. m \in Library /\ m # "Configure"
  <2>1. CASE lib = "chi"  BY <1>1, <2>1 DEF Middleware, Library
  <2>2. CASE lib = "gin"  BY <1>1, <2>2 DEF Middleware, Library
  <2>3. CASE lib = "echo"  BY <1>1, <2>3 DEF Middleware, Library
  <2> QED  BY <2>1, <2>2, <2>3 DEF Frameworks
<1>3. PICK d : d = <<m>>  OBVIOUS
<1>4. d \in Seq(Library) /\ DOMAIN d = {1} /\ d[1] = m  BY <1>2, <1>3
<1>5. PICK u : u = {"debugviz"} \cup uses  OBVIOUS
<1>6. u \in SUBSET Packages  BY <1>5 DEF Packages
<1>7. PICK none : none = ""  OBVIOUS
<1>8. none \in Constructors /\ none \in Names  BY <1>7, CodegenAssumption DEF Constructors
<1>9. e = [k |-> "middleware", top |-> TRUE, on |-> ident, fw |-> none, dv |-> d,
           job |-> none, args |-> 1, uses |-> u, gen |-> TRUE]
  BY <1>1, <1>3, <1>5, <1>7 DEF MiddlewareStmt, Stmt
<1>10. e \in Stmts /\ e.gen /\ e.k = "middleware" /\ e.dv = d
  BY <1>4, <1>6, <1>8, <1>9 DEF Stmts, Kinds
<1>11. Elems(d) = {m}  BY <1>4 DEF Elems
<1>12. HooksDiffer(e)  BY <1>4, <1>10 DEF HooksDiffer
<1> QED  BY <1>1, <1>2, <1>10, <1>11, <1>12

LEMMA RouterBodyGood ==
  ASSUME NEW b, NEW c, NEW at, NEW e, Inserted(b, c, at, e), at # 0 => b[at].k \in Spots,
         e.gen, e.k = "middleware", HooksDiffer(e), "Configure" \notin Elems(e.dv),
         NEW name, NEW was, NEW n \in Nat, BodyGood(b, name, was, n)
  PROVE  BodyGood(c, name, was, n)
<1>6. HooksOnce(c)  BY InsertHooks DEF BodyGood
<1>7. ConfigureOnce(c)  BY InsertConfigure DEF BodyGood
<1>8. Carries(c, was)  BY InsertCarries DEF BodyGood
<1>9. ASSUME n < 3  PROVE SpanOnce(c)
  <2>1. SpanOnce(b)  BY <1>9 DEF BodyGood
  <2> QED  BY <2>1, InsertSpan
<1>10. ASSUME n < 3, name # "main"  PROVE Stranded(c) \/ SpanPlaced(c, n)
  <2>1. Stranded(b) \/ SpanPlaced(b, n)  BY <1>10 DEF BodyGood
  <2>2. CASE at = 0  BY <2>2, InsertHeadStranded
  <2>3. CASE at # 0 /\ Stranded(b)  BY <2>3, InsertStranded
  <2>4. CASE at # 0 /\ SpanPlaced(b, n)  BY <2>4, InsertSpotPlaced
  <2> QED  BY <2>1, <2>2, <2>3, <2>4
<1> QED  BY <1>6, <1>7, <1>8, <1>9, <1>10 DEF BodyGood

\* A router file with something to do has a framework, and its plan names that one's middleware.
LEMMA RouterPlan ==
  ASSUME NEW f, NEW plan, plan = AnalyzeRouter(f), HasChanges(plan),
         NEW lib, lib = Framework(f)
  PROVE  /\ lib \in Frameworks /\ "wire" \notin f.skip
         /\ ~\E i \in DOMAIN f.funcs :
               /\ HasMiddleware(f.funcs[i], lib)
               /\ \A j \in 1 .. i - 1 : ~EndsAnalysis(f.funcs[j], lib)
         /\ plan.hooks = {Middleware(lib)} /\ PlannedJobs(plan) = {}
<1>1. PICK none : none = [hooks |-> {}, jobs |-> <<>>]  OBVIOUS
<1>2. none.hooks = {} /\ PlannedJobs(none) = {}
  <2>1. none.jobs = <<>> /\ none.hooks = {}  BY <1>1
  <2> QED  BY <2>1, NoElems DEF PlannedJobs
<1>3. ~HasChanges(none)  BY <1>2 DEF HasChanges
<1>4. lib # "" /\ "wire" \notin f.skip  BY <1>1, <1>3 DEF AnalyzeRouter, NoPlan
<1>5. lib \in Frameworks  BY <1>4 DEF Framework, Frameworks
<1>6. PICK done : done = \E i \in DOMAIN f.funcs :
               /\ HasMiddleware(f.funcs[i], lib)
               /\ \A j \in 1 .. i - 1 : ~EndsAnalysis(f.funcs[j], lib)
  OBVIOUS
<1>7. plan = [hooks |-> When(Middleware(lib), ~done), jobs |-> <<>>]
  BY <1>4, <1>6 DEF AnalyzeRouter
<1>8. plan.hooks = When(Middleware(lib), ~done) /\ plan.jobs = <<>>  BY <1>7
<1>9. PlannedJobs(plan) = {}  BY <1>8, NoElems DEF PlannedJobs
<1>10. plan.hooks # {}  BY <1>9 DEF HasChanges
<1>11. ~done /\ plan.hooks = {Middleware(lib)}  BY <1>8, <1>10 DEF When
<1> QED  BY <1>4, <1>5, <1>6, <1>9, <1>11

\* What wire makes of it: e is its statement, behind the first at of function i.
RouterWired(f, g, lib, i, at, e) ==
  /\ OneReplaced(f, g, i) /\ lib = Framework(f) /\ lib \in Frameworks
  /\ ToWire(f.funcs[i], lib) /\ \A j \in 1 .. i - 1 : ~ToWire(f.funcs[j], lib)
  /\ Inserted(f.funcs[i].body, g.funcs[i].body, at, e)
  /\ at # 0 => f.funcs[i].body[at].k \in Spots
  /\ e.gen /\ e.k = "middleware" /\ HooksDiffer(e)
  /\ "Configure" \notin Elems(e.dv) /\ Elems(e.dv) = {Middleware(lib)}
  /\ g.imports = f.imports \cup {"debugviz"}

\* Which statement the middleware of a function is, and where it goes.
RouterPut(fn, body, app, c, lib, at, e) ==
  LET ident == RouterIdent(fn.body, lib)
  IN  /\ IsIdent(fn.body, lib, ident) /\ IsPlace(fn.body, ident, lib, at)
      /\ e = MiddlewareStmt(ident, lib, ServiceUses(c, app, fn.param))
      /\ body = InsertAfterRouterCreate(fn.body, ident, lib, e)

LEMMA MiddlewareImports ==
  ASSUME NEW lib \in Frameworks, NEW plan, plan.hooks = {Middleware(lib)},
         PlannedJobs(plan) = {}
  PROVE  NeededImports(plan) = {"debugviz"}
<1>1. PICK m : m = Middleware(lib)  OBVIOUS
<1>2. HookImports(m) = {}
  <2>1. CASE lib = "chi"  BY <1>1, <2>1 DEF Middleware, HookImports
  <2>2. CASE lib = "gin"  BY <1>1, <2>2 DEF Middleware, HookImports
  <2>3. CASE lib = "echo"  BY <1>1, <2>3 DEF Middleware, HookImports
  <2> QED  BY <2>1, <2>2, <2>3 DEF Frameworks
<1>3. (UNION {HookImports(h) : h \in {m}}) = {}  BY <1>2
<1>4. When("context", PlannedJobs(plan) # {}) = {}  BY DEF When
<1> QED  BY <1>1, <1>3, <1>4 DEF NeededImports

LEMMA WireRouterParts ==
  ASSUME NEW f \in Files, NEW c, NEW isMain, ~isMain, ~WireFails(f, c, isMain),
         HasChanges(AnalyzeRouter(f)), NEW k, k = WireFile(f, c, isMain)
  PROVE  k \in Files /\ \E lib, i, at, e :
           /\ RouterWired(f, k, lib, i, at, e)
           /\ RouterPut(f.funcs[i], k.funcs[i].body, f.app, c, lib, at, e)
<1>1. PICK plan : plan = AnalyzeRouter(f)  OBVIOUS
<1>2. PlanOf(f, c, isMain) = plan  BY <1>1 DEF PlanOf
<1>3. PICK lib : lib = Framework(f)  OBVIOUS
<1>4. lib \in Frameworks /\ plan.hooks = {Middleware(lib)} /\ PlannedJobs(plan) = {}
  BY <1>1, <1>3, RouterPlan
<1>5. ~RouterFails(f)  BY <1>1, <1>2 DEF WireFails
<1>6. PICK s : s = f.funcs  OBVIOUS
<1>7. PICK m \in Nat : m = Len(s) /\ DOMAIN s = 1 .. m  BY <1>6, FileParts
<1>8. PICK i : i = CHOOSE x \in DOMAIN s :
                   ToWire(s[x], lib) /\ \A j \in 1 .. x - 1 : ~ToWire(s[j], lib)
  OBVIOUS
<1>9. i \in DOMAIN s /\ ToWire(s[i], lib) /\ \A j \in 1 .. i - 1 : ~ToWire(s[j], lib)
  <2>1. PICK S \in SUBSET (1 .. m) : S = {x \in 1 .. m : ToWire(s[x], lib)}  OBVIOUS
  <2>2. S # {}  BY <1>3, <1>5, <1>6, <1>7, <2>1 DEF RouterFails, Elems
  <2>3. PICK x \in S : \A j \in 1 .. x - 1 : j \notin S  BY <2>2, FirstPlace
  <2>4. \A j \in 1 .. x - 1 : j \in 1 .. m  OBVIOUS
  <2>5. \E z \in DOMAIN s : ToWire(s[z], lib) /\ \A j \in 1 .. z - 1 : ~ToWire(s[j], lib)
    BY <1>7, <2>1, <2>3, <2>4
  <2> QED  BY <1>8, <2>5
<1>10. PICK b : b = s[i].body  OBVIOUS
<1>11. b \in Seq(Stmts)  BY <1>6, <1>9, <1>10, FileParts
<1>12. PICK ident \in Names : ident = RouterIdent(b, lib) /\ IsIdent(b, lib, ident)
  BY <1>11, RouterIdentName
<1>13. PICK uses \in SUBSET Packages : uses = ServiceUses(c, f.app, s[i].param)
  BY ServiceUsesNames
<1>14. PICK e : e = MiddlewareStmt(ident, lib, uses)  OBVIOUS
<1>15. /\ e \in Stmts /\ e.gen /\ e.k = "middleware" /\ HooksDiffer(e)
       /\ "Configure" \notin Elems(e.dv) /\ Elems(e.dv) = {Middleware(lib)}
  BY <1>4, <1>14, MiddlewareStmtOne
<1>16. PICK body : body = InsertAfterRouterCreate(b, ident, lib, e)  OBVIOUS
<1>17. PICK at \in 0 .. Len(b) : /\ body = InsertAfter(b, at, e)
                                 /\ IsPlace(b, ident, lib, at)
                                 /\ at # 0 => at \in DOMAIN b /\ b[at].k \in Spots
  BY <1>11, <1>16, RouterPlace
<1>18. Inserted(b, body, at, e)  BY <1>11, <1>15, <1>17, InsertAfterInserts
<1>19. body \in Seq(Stmts)  BY <1>18 DEF Inserted
<1>20. PICK u \in SUBSET Packages : u = NeededImports(plan)  BY NeededImportsPackages
<1>21. u = {"debugviz"}  BY <1>4, <1>20, MiddlewareImports
<1>22. InjectMiddleware(f, c) = [f EXCEPT !.funcs[i].body = body]
  BY <1>3, <1>6, <1>8, <1>10, <1>12, <1>13, <1>14, <1>16 DEF InjectMiddleware, FirstIndex
<1>23. k = Rewrote(f, i, body, u)  BY <1>1, <1>2, <1>20, <1>22 DEF WireFile, Rewrote
<1>24. PICK h : /\ h = Rewrote(f, i, body, u) /\ h \in Files /\ OneReplaced(f, h, i)
                /\ h.imports = f.imports \cup u /\ h.funcs[i].body = body
  BY <1>6, <1>9, <1>19, FileRewritten
<1>25. RouterWired(f, h, lib, i, at, e)
  BY <1>3, <1>4, <1>6, <1>9, <1>10, <1>15, <1>17, <1>18, <1>21, <1>24 DEF RouterWired
<1>26. RouterPut(f.funcs[i], h.funcs[i].body, f.app, c, lib, at, e)
  BY <1>6, <1>10, <1>12, <1>13, <1>14, <1>16, <1>17, <1>24 DEF RouterPut
<1> QED  BY <1>23, <1>24, <1>25, <1>26

LEMMA WireRouterGood ==
  ASSUME NEW f \in Files, NEW o, NEW n \in Nat, FileGood(f, o, n), NEW c,
         NEW isMain, ~isMain, ~WireFails(f, c, isMain)
  PROVE  WireFile(f, c, isMain) \in Files /\ FileGood(WireFile(f, c, isMain), o, n)
<1>1. PICK plan : plan = AnalyzeRouter(f)  OBVIOUS
<1>2. PlanOf(f, c, isMain) = plan  BY <1>1 DEF PlanOf
<1>3. CASE ~HasChanges(plan)  BY <1>2, <1>3 DEF WireFile
<1>4. CASE HasChanges(plan)
  <2>1. PICK k : k = WireFile(f, c, isMain)  OBVIOUS
  <2>2. k \in Files /\ \E lib, i, at, e : RouterWired(f, k, lib, i, at, e)
    BY <1>1, <1>4, <2>1, WireRouterParts
  <2>3. PICK lib, i, at, e : RouterWired(f, k, lib, i, at, e)  BY <2>2
  <2>4. /\ OneReplaced(f, k, i) /\ Inserted(f.funcs[i].body, k.funcs[i].body, at, e)
        /\ at # 0 => f.funcs[i].body[at].k \in Spots
        /\ e.gen /\ e.k = "middleware" /\ HooksDiffer(e) /\ "Configure" \notin Elems(e.dv)
    BY <2>3 DEF RouterWired
  <2>5. BodyGood(f.funcs[i].body, f.funcs[i].name, o.funcs[i].body, n)
    BY <2>4 DEF FileGood, OneReplaced
  <2>6. BodyGood(k.funcs[i].body, f.funcs[i].name, o.funcs[i].body, n)
    BY <2>4, <2>5, RouterBodyGood
  <2>7. FileGood(k, o, n)  BY <2>4, <2>6, FileGoodReplaced
  <2> QED  BY <2>1, <2>2, <2>7
<1> QED  BY <1>3, <1>4

-------------------------------------------------------------------------------
(* instrument puts a span where none is in sight.                            *)

LEMMA SpanStmtOne ==
  ASSUME NEW ctx, NEW e, e = SpanStmt(ctx)
  PROVE  /\ e \in Stmts /\ e.gen /\ e.k = "span" /\ HooksDiffer(e)
         /\ "Configure" \notin Elems(e.dv) /\ Elems(e.dv) = {"StartSpan"}
<1>1. PICK d : d = <<"StartSpan">>  OBVIOUS
<1>2. d \in Seq(Library) /\ DOMAIN d = {1} /\ d[1] = "StartSpan"  BY <1>1 DEF Library
<1>3. PICK u : u = {"debugviz"} \cup (IF ctx = "none" THEN {"context"} ELSE {})  OBVIOUS
<1>4. u \in SUBSET Packages  BY <1>3 DEF Packages
<1>5. PICK none : none = ""  OBVIOUS
<1>6. none \in Constructors /\ none \in Names  BY <1>5, CodegenAssumption DEF Constructors
<1>7. e = [k |-> "span", top |-> TRUE, on |-> none, fw |-> none, dv |-> d,
           job |-> none, args |-> 1, uses |-> u, gen |-> TRUE]
  BY <1>1, <1>3, <1>5 DEF SpanStmt, Stmt
<1>8. e \in Stmts /\ e.gen /\ e.k = "span" /\ e.dv = d
  BY <1>2, <1>4, <1>6, <1>7 DEF Stmts, Kinds
<1>9. HooksDiffer(e) /\ Elems(d) = {"StartSpan"}  BY <1>2, <1>8 DEF HooksDiffer, Elems
<1> QED  BY <1>8, <1>9

LEMMA DeferStmtOne ==
  ASSUME NEW e, e = DeferStmt
  PROVE  /\ e \in Stmts /\ e.gen /\ e.k = "defer" /\ HooksDiffer(e)
         /\ "Configure" \notin Elems(e.dv) /\ Elems(e.dv) = {}
<1>1. PICK d : d = << >>  OBVIOUS
<1>2. d \in Seq(Library) /\ DOMAIN d = {}  BY <1>1
<1>3. PICK u : u = {}  OBVIOUS
<1>4. u \in SUBSET Packages  BY <1>3
<1>5. PICK none : none = ""  OBVIOUS
<1>6. none \in Constructors /\ none \in Names  BY <1>5, CodegenAssumption DEF Constructors
<1>7. e = [k |-> "defer", top |-> TRUE, on |-> none, fw |-> none, dv |-> d,
           job |-> none, args |-> 1, uses |-> u, gen |-> TRUE]
  BY <1>1, <1>3, <1>5 DEF DeferStmt, Stmt
<1>8. e \in Stmts /\ e.gen /\ e.k = "defer" /\ e.dv = d
  BY <1>2, <1>4, <1>6, <1>7 DEF Stmts, Kinds
<1>9. HooksDiffer(e) /\ Elems(d) = {}  BY <1>2, <1>8 DEF HooksDiffer, Elems
<1> QED  BY <1>8, <1>9

\* A statement put first strands nothing that was not, unless it is a middleware.
LEMMA HeadNotStranded ==
  ASSUME NEW b, NEW c, NEW e, Inserted(b, c, 0, e), ~Stranded(b), e.k # "middleware"
  PROVE  ~Stranded(c)
<1> SUFFICES ASSUME Stranded(c)  PROVE FALSE  OBVIOUS
<1>1. PICK i \in DOMAIN c : c[i].k = "middleware" /\ \A j \in 1 .. i - 1 : c[j].k # "create"
  BY DEF Stranded
<1>2. /\ DOMAIN b = 1 .. Len(b) /\ DOMAIN c = 1 .. Len(b) + 1 /\ Len(b) \in Nat
      /\ c[1] = e
      /\ \A j \in DOMAIN b : c[j + 1] = b[j]
      /\ \A x \in DOMAIN c : x = 1 \/ \E j \in DOMAIN b : x = j + 1
  BY InsertedPlaces DEF Shift
<1>3. PICK p \in DOMAIN b : i = p + 1 /\ b[p].k = "middleware"  BY <1>1, <1>2
<1>4. ASSUME NEW j \in 1 .. p - 1  PROVE b[j].k # "create"
  <2>1. j \in DOMAIN b /\ j + 1 \in 1 .. i - 1  BY <1>2, <1>3
  <2>2. c[j + 1] = b[j]  BY <1>2, <2>1
  <2> QED  BY <1>1, <2>1, <2>2
<1> QED  BY <1>3, <1>4 DEF Stranded

\* The span goes first, its end behind it.
LEMMA InjectFuncParts ==
  ASSUME NEW fn \in Funcs, NEW g, g = InjectFunc(fn)
  PROVE  \E b1, s, d :
           /\ Inserted(fn.body, b1, 0, d) /\ d = DeferStmt
           /\ Inserted(b1, g.body, 0, s) /\ s = SpanStmt(fn.ctx)
           /\ g \in Funcs /\ g.name = fn.name /\ g.param = fn.param /\ g.skip = fn.skip
           /\ b1 \in Seq(Stmts) /\ g.body \in Seq(Stmts)
<1>1. PICK b : b = fn.body  OBVIOUS
<1>2. b \in Seq(Stmts)  BY <1>1 DEF Funcs
<1>3. PICK d : d = DeferStmt  OBVIOUS
<1>4. PICK s : s = SpanStmt(fn.ctx)  OBVIOUS
<1>5. d \in Stmts  BY <1>3, DeferStmtOne
<1>6. s \in Stmts  BY <1>4, SpanStmtOne
<1>7. PICK b1 : b1 = <<d>> \o b  OBVIOUS
<1>8. Inserted(b, b1, 0, d) /\ b1 \in Seq(Stmts)
  <2>1. Inserted(b, b1, 0, d)  BY <1>2, <1>5, <1>7, HeadInserts
  <2> QED  BY <2>1 DEF Inserted
<1>9. PICK b2 : b2 = <<s>> \o b1  OBVIOUS
<1>10. Inserted(b1, b2, 0, s) /\ b2 \in Seq(Stmts)
  <2>1. Inserted(b1, b2, 0, s)  BY <1>6, <1>8, <1>9, HeadInserts
  <2> QED  BY <2>1 DEF Inserted
<1>11. <<s, d>> \o b = b2
  <2>1. <<s>> \in Seq(Stmts) /\ <<d>> \in Seq(Stmts)  BY <1>5, <1>6
  <2>2. <<s>> \o (<<d>> \o b) = (<<s>> \o <<d>>) \o b  BY <1>2, <2>1, ConcatAssociative
  <2>3. <<s>> \o <<d>> = <<s, d>>
    <3>1. PICK x : x = <<s>> \o <<d>>  OBVIOUS
    <3>2. x \in Seq(Stmts) /\ Len(x) = 2 /\ x[1] = s /\ x[2] = d
      BY <2>1, <3>1, ConcatProperties
    <3>3. PICK z : z = <<s, d>>  OBVIOUS
    <3>4. z \in Seq(Stmts) /\ Len(z) = 2 /\ z[1] = s /\ z[2] = d  BY <1>5, <1>6, <3>3
    <3>5. \A i \in 1 .. 2 : x[i] = z[i]  BY <3>2, <3>4
    <3> QED  BY <3>1, <3>2, <3>3, <3>4, <3>5, SeqEqual
  <2> QED  BY <1>7, <1>9, <2>2, <2>3
<1>12. PICK ctx : ctx = IF fn.ctx = "blank" THEN "named" ELSE fn.ctx  OBVIOUS
<1>13. g = [fn EXCEPT !.body = b2, !.ctx = ctx]
  BY <1>1, <1>3, <1>4, <1>11, <1>12 DEF InjectFunc
<1>14. g \in Funcs /\ g.name = fn.name /\ g.body = b2 /\ g.param = fn.param /\ g.skip = fn.skip
  <2>1. ctx \in {"none", "blank", "named"}  BY <1>12 DEF Funcs
  <2> QED  BY <1>10, <1>13, <2>1 DEF Funcs
<1> QED  BY <1>1, <1>3, <1>4, <1>8, <1>10, <1>14

LEMMA InjectFuncGood ==
  ASSUME NEW fn \in Funcs, NEW c, IsCandidate(fn, c), ~Stranded(fn.body),
         NEW was, NEW n \in Nat, BodyGood(fn.body, fn.name, was, n),
         NEW g, g = InjectFunc(fn)
  PROVE  /\ g \in Funcs /\ g.name = fn.name /\ ~Stranded(g.body)
         /\ BodyGood(g.body, g.name, was, n)
<1>1. PICK b : b = fn.body  OBVIOUS
<1>2. b \in Seq(Stmts)  BY <1>1 DEF Funcs
<1>3. PICK b1, s, d :
        /\ Inserted(b, b1, 0, d) /\ d = DeferStmt
        /\ Inserted(b1, g.body, 0, s) /\ s = SpanStmt(fn.ctx)
        /\ g \in Funcs /\ g.name = fn.name
        /\ b1 \in Seq(Stmts) /\ g.body \in Seq(Stmts)
  BY <1>1, InjectFuncParts
<1>4. PICK b2 : b2 = g.body  OBVIOUS
<1>5. d \in Stmts /\ d.gen /\ d.k = "defer" /\ HooksDiffer(d) /\ "Configure" \notin Elems(d.dv)
  BY <1>3, DeferStmtOne
<1>6. s \in Stmts /\ s.gen /\ s.k = "span" /\ HooksDiffer(s) /\ "Configure" \notin Elems(s.dv)
  BY <1>3, SpanStmtOne
<1>8. Inserted(b, b1, 0, d) /\ b1 \in Seq(Stmts)  BY <1>3
<1>10. Inserted(b1, b2, 0, s) /\ b2 \in Seq(Stmts)  BY <1>3, <1>4
<1>14. g \in Funcs /\ g.name = fn.name /\ g.body = b2  BY <1>3, <1>4
<1>15. ~Stranded(b2)
  <2>1. ~Stranded(b1)  BY <1>1, <1>5, <1>8, HeadNotStranded
  <2> QED  BY <1>6, <1>10, <2>1, HeadNotStranded
<1>16. HooksOnce(b2)
  <2>1. HooksOnce(b1)  BY <1>1, <1>5, <1>8, InsertHooks DEF BodyGood
  <2> QED  BY <1>6, <1>10, <2>1, InsertHooks
<1>17. ConfigureOnce(b2)
  <2>1. ConfigureOnce(b1)  BY <1>1, <1>5, <1>8, InsertConfigure DEF BodyGood
  <2> QED  BY <1>6, <1>10, <2>1, InsertConfigure
<1>18. Carries(b2, was)
  <2>1. Carries(b1, was)  BY <1>1, <1>5, <1>8, InsertCarries DEF BodyGood
  <2> QED  BY <1>6, <1>10, <2>1, InsertCarries
<1>19. ASSUME n < 3  PROVE SpanOnce(b2) /\ SpanPlaced(b2, n)
  <2>1. fn.name # "main" /\ ~IsAlreadyInstrumented(b)  BY <1>1 DEF IsCandidate
  <2>2. SpanPlaced(b, n)  BY <1>1, <1>19, <2>1 DEF BodyGood
  <2>3. SpanFree(b)
    <3> SUFFICES ASSUME NEW i \in DOMAIN b, b[i].k = "span"  PROVE FALSE  BY DEF SpanFree
    <3>1. i <= n + 1  BY <2>2 DEF SpanPlaced
    <3>2. i \in Nat  BY <1>2, LenProperties
    <3>3. i <= 3  BY <1>19, <3>1, <3>2
    <3> QED  BY <2>1, <3>3 DEF IsAlreadyInstrumented
  <2>4. SpanFree(b1)  BY <1>5, <1>8, <2>3, InsertNoSpan
  <2>5. SpanOnce(b1)  BY <2>4 DEF SpanOnce, SpanFree
  <2>6. SpanOnce(b2)  BY <1>10, <2>4, <2>5, InsertSpan
  <2>7. b2[1].k = "span" /\ 1 \in DOMAIN b2 /\ DOMAIN b2 \subseteq Nat
    BY <1>6, <1>10, InsertedPlaces
  <2>8. SpanPlaced(b2, n)
    <3> SUFFICES ASSUME NEW i \in DOMAIN b2, b2[i].k = "span"
                 PROVE  i <= n + 1 /\ \A j \in 1 .. i - 1 : b2[j].k \notin Spots
      BY DEF SpanPlaced
    <3>1. i = 1  BY <2>6, <2>7 DEF SpanOnce
    <3> QED  BY <3>1
  <2> QED  BY <2>6, <2>8
<1>20. BodyGood(b2, fn.name, was, n)  BY <1>16, <1>17, <1>18, <1>19 DEF BodyGood
<1> QED  BY <1>14, <1>15, <1>20

LEMMA InstrumentFileGood ==
  ASSUME NEW f \in Files, NEW o, NEW n \in Nat, FileGood(f, o, n), Sound(f), NEW c,
         NEW g, g = InstrumentFile(f, c)
  PROVE  g \in Files /\ FileGood(g, o, n) /\ Sound(g)
<1>1. PICK C \in SUBSET DOMAIN f.funcs : C = {i \in DOMAIN f.funcs : IsCandidate(f.funcs[i], c)}
  OBVIOUS
<1>2. CASE C = {}
  <2>1. g = f  BY <1>1, <1>2 DEF InstrumentFile
  <2> QED  BY <2>1
<1>3. CASE C # {}
  <2>1. PICK m \in Nat : m = Len(f.funcs) /\ DOMAIN f.funcs = 1 .. m  BY FileParts
  <2>2. PICK s : s = f.funcs  OBVIOUS
  <2>3. \A i \in 1 .. m : s[i] \in Funcs  BY <2>1, <2>2, FileParts
  <2>4. PICK t : t = [i \in DOMAIN s |-> IF i \in C THEN InjectFunc(s[i]) ELSE s[i]]  OBVIOUS
  <2>5. ASSUME NEW i \in 1 .. m
        PROVE  /\ t[i] \in Funcs /\ ~Stranded(t[i].body)
               /\ BodyGood(t[i].body, t[i].name, o.funcs[i].body, n)
    <3>1. /\ s[i] \in Funcs /\ ~Stranded(s[i].body) /\ i \in DOMAIN s
          /\ BodyGood(s[i].body, s[i].name, o.funcs[i].body, n)
      BY <2>1, <2>2, <2>3 DEF FileGood, Sound
    <3>2. CASE i \in C
      <4>1. t[i] = InjectFunc(s[i]) /\ IsCandidate(s[i], c)  BY <1>1, <2>2, <2>4, <3>1, <3>2
      <4> QED  BY <3>1, <4>1, InjectFuncGood
    <3>3. CASE i \notin C
      <4>1. t[i] = s[i]  BY <2>4, <3>1, <3>3
      <4> QED  BY <3>1, <4>1
    <3> QED  BY <3>2, <3>3
  <2>6. DOMAIN t = 1 .. m /\ t \in [1 .. m -> Funcs]
    <3>1. DOMAIN t = 1 .. m /\ t = [i \in 1 .. m |-> t[i]]  BY <2>1, <2>2, <2>4
    <3> QED  BY <2>5, <3>1
  <2>7. t \in Seq(Funcs)  BY <2>6, SeqDef
  <2>8. PICK u : u = f.imports \cup SpanImports({f.funcs[i] : i \in C})  OBVIOUS
  <2>9. u \in SUBSET Packages
    <3>1. PICK fns : fns = {f.funcs[i] : i \in C}  OBVIOUS
    <3>2. SpanImports(fns) \in SUBSET Packages  BY DEF SpanImports, Packages
    <3>3. f.imports \in SUBSET Packages  BY DEF Files
    <3> QED  BY <2>8, <3>1, <3>2, <3>3
  <2>10. g = [f EXCEPT !.funcs = t, !.imports = u]
    BY <1>1, <1>3, <2>2, <2>4, <2>8 DEF InstrumentFile
  <2>11. g \in Files /\ g.funcs = t  BY <2>7, <2>9, <2>10 DEF Files
  <2> QED  BY <2>1, <2>5, <2>6, <2>11 DEF FileGood, Sound
<1> QED  BY <1>2, <1>3

-------------------------------------------------------------------------------
(* The developer writes.                                                     *)

\* Sources no generator has touched are their own.
LEMMA ByHandGood ==
  ASSUME NEW b \in Seq(Stmts), ByHand(b), NEW name, NEW n
  PROVE  BodyGood(b, name, b, n)
<1>1. \A i \in DOMAIN b :
        ~b[i].gen /\ b[i].k \notin {"span", "defer"} /\ HooksDiffer(b[i])
  BY DEF ByHand, Elems
<1>2. HooksOnce(b)  BY <1>1 DEF HooksOnce
<1>3. ConfigureOnce(b)  BY <1>1 DEF ConfigureOnce
<1>4. Carries(b, b)
  <2>1. PICK at : at = [r \in DOMAIN b |-> r]  OBVIOUS
  <2>2. at \in [DOMAIN b -> DOMAIN b] /\ \A r \in DOMAIN b : at[r] = r  BY <2>1
  <2>3. \A r, q \in DOMAIN b : r < q => at[r] < at[q]  BY <2>2
  <2>4. \A i \in DOMAIN b : ~b[i].gen <=> \E r \in DOMAIN b : at[r] = i  BY <1>1, <2>2
  <2>5. \A r \in DOMAIN b : Look(b[at[r]]) = Look(b[r]) /\ Survives(b[at[r]], b[r])
    BY <2>2, SurvivesSame
  <2> QED  BY <2>2, <2>3, <2>4, <2>5 DEF Carries
<1>5. SpanOnce(b) /\ SpanPlaced(b, n)  BY <1>1 DEF SpanOnce, SpanPlaced
<1> QED  BY <1>2, <1>3, <1>4, <1>5 DEF BodyGood

LEMMA StmtTyped ==
  ASSUME NEW d \in Seq(Library), NEW u \in SUBSET Packages, NEW none, none \in Constructors,
         none \in Names, NEW g \in BOOLEAN, NEW kind \in Kinds, NEW e,
         e = [k |-> kind, top |-> TRUE, on |-> none, fw |-> none, dv |-> d,
              job |-> none, args |-> 1, uses |-> u, gen |-> g]
  PROVE  e \in Stmts
BY DEF Stmts

LEMMA LineStmtOne ==
  ASSUME NEW e, e = Stmt("other", {})
  PROVE  /\ e \in Stmts /\ ~e.gen /\ e.k = "other" /\ HooksDiffer(e)
         /\ "Configure" \notin Elems(e.dv)
<1>1. PICK d : d = << >>  OBVIOUS
<1>2. d \in Seq(Library) /\ DOMAIN d = {}  BY <1>1
<1>3. PICK u : u = {}  OBVIOUS
<1>4. u \in SUBSET Packages  BY <1>3
<1>5. PICK none : none = ""  OBVIOUS
<1>6. none \in Constructors /\ none \in Names  BY <1>5, CodegenAssumption DEF Constructors
<1>f. PICK g \in BOOLEAN : g = FALSE  OBVIOUS
<1>k. PICK kind \in Kinds : kind = "other"  BY DEF Kinds
<1>7. e = [k |-> kind, top |-> TRUE, on |-> none, fw |-> none, dv |-> d,
           job |-> none, args |-> 1, uses |-> u, gen |-> g]
  BY <1>1, <1>3, <1>5, <1>f, <1>k DEF Stmt
<1>8. e \in Stmts  BY <1>2, <1>4, <1>6, <1>7, StmtTyped
<1>9. ~e.gen /\ e.k = "other" /\ e.dv = d  BY <1>7, <1>f, <1>k
<1> QED  BY <1>2, <1>8, <1>9 DEF HooksDiffer, Elems

\* A line more above the span leaves room for one less.
LEMMA MoreAbove ==
  ASSUME NEW b \in Seq(Stmts), NEW name, NEW was, NEW n \in Nat, BodyGood(b, name, was, n)
  PROVE  BodyGood(b, name, was, n + 1)
<1>1. HooksOnce(b) /\ ConfigureOnce(b) /\ Carries(b, was)  BY DEF BodyGood
<1>2. ASSUME n + 1 < 3  PROVE n < 3  BY <1>2
<1>3. ASSUME n + 1 < 3  PROVE SpanOnce(b)  BY <1>2, <1>3 DEF BodyGood
<1>4. ASSUME n + 1 < 3, name # "main"  PROVE Stranded(b) \/ SpanPlaced(b, n + 1)
  <2>1. Stranded(b) \/ SpanPlaced(b, n)  BY <1>2, <1>4 DEF BodyGood
  <2>2. CASE SpanPlaced(b, n)
    <3> SUFFICES ASSUME NEW i \in DOMAIN b, b[i].k = "span"
                 PROVE  i <= n + 1 + 1 /\ \A j \in 1 .. i - 1 : b[j].k \notin Spots
      BY DEF SpanPlaced
    <3>1. i <= n + 1 /\ \A j \in 1 .. i - 1 : b[j].k \notin Spots  BY <2>2 DEF SpanPlaced
    <3>2. i \in Nat  BY LenProperties
    <3> QED  BY <3>1, <3>2
  <2> QED  BY <2>1, <2>2
<1> QED  BY <1>1, <1>3, <1>4 DEF BodyGood

LEMMA LineGood ==
  ASSUME NEW b \in Seq(Stmts), NEW was \in Seq(Stmts), NEW name, NEW n \in Nat,
         BodyGood(b, name, was, n), NEW e, e = Stmt("other", {}),
         NEW c, c = <<e>> \o b, NEW is, is = <<e>> \o was
  PROVE  c \in Seq(Stmts) /\ is \in Seq(Stmts) /\ BodyGood(c, name, is, n + 1)
<1>1. e \in Stmts /\ ~e.gen /\ e.k = "other" /\ HooksDiffer(e) /\ "Configure" \notin Elems(e.dv)
  BY LineStmtOne
<1>2. Inserted(b, c, 0, e) /\ Inserted(was, is, 0, e)  BY <1>1, HeadInserts
<1>3. c \in Seq(Stmts) /\ is \in Seq(Stmts)  BY <1>2 DEF Inserted
<1>4. HooksOnce(c)  BY <1>1, <1>2, InsertHooks DEF BodyGood
<1>5. ConfigureOnce(c)  BY <1>1, <1>2, InsertConfigure DEF BodyGood
<1>6. Carries(c, is)
  <2>1. Carries(b, was)  BY DEF BodyGood
  <2> QED  BY <1>1, <1>2, <2>1, WriteCarries
<1>7. ASSUME n + 1 < 3  PROVE n < 3  BY <1>7
<1>8. ASSUME n + 1 < 3  PROVE SpanOnce(c)
  <2>1. SpanOnce(b)  BY <1>7, <1>8 DEF BodyGood
  <2> QED  BY <1>1, <1>2, <2>1, InsertSpan
<1>9. ASSUME n + 1 < 3, name # "main"  PROVE Stranded(c) \/ SpanPlaced(c, n + 1)
  <2>1. Stranded(b) \/ SpanPlaced(b, n)  BY <1>7, <1>9 DEF BodyGood
  <2>2. CASE Stranded(b)  BY <1>1, <1>2, <2>2, InsertStranded
  <2>3. CASE SpanPlaced(b, n)
    <3>1. e.k \notin Spots \cup {"span"}  BY <1>1 DEF Spots
    <3> QED  BY <1>2, <2>3, <3>1, InsertHeadPlaced
  <2> QED  BY <2>1, <2>2, <2>3
<1> QED  BY <1>3, <1>4, <1>5, <1>6, <1>8, <1>9 DEF BodyGood

LEMMA CallGood ==
  ASSUME NEW b \in Seq(Stmts), NEW was \in Seq(Stmts), NEW n,
         BodyGood(b, "main", was, n), NEW s \in NewCalls,
         NEW c, c = Append(b, s), NEW is, is = Append(was, s)
  PROVE  c \in Seq(Stmts) /\ is \in Seq(Stmts) /\ BodyGood(c, "main", is, n)
<1>1. s \in Stmts /\ ~s.gen /\ s.k # "span" /\ HooksDiffer(s) /\ "Configure" \notin Elems(s.dv)
  <2>1. s \in Stmts /\ ByHand(<<s>>) /\ "Configure" \notin Elems(s.dv)  BY CodegenAssumption
  <2>2. s \in Elems(<<s>>)
    <3>1. PICK q : q = <<s>>  OBVIOUS
    <3>2. 1 \in DOMAIN q /\ q[1] = s  BY <3>1
    <3> QED  BY <3>1, <3>2 DEF Elems
  <2> QED  BY <2>1, <2>2 DEF ByHand
<1>2. Inserted(b, c, Len(b), s) /\ Inserted(was, is, Len(was), s)  BY <1>1, AppendInserts
<1>3. c \in Seq(Stmts) /\ is \in Seq(Stmts)  BY <1>2 DEF Inserted
<1>4. HooksOnce(c)  BY <1>1, <1>2, InsertHooks DEF BodyGood
<1>5. ConfigureOnce(c)  BY <1>1, <1>2, InsertConfigure DEF BodyGood
<1>6. Carries(c, is)
  <2>1. Carries(b, was)  BY DEF BodyGood
  <2> QED  BY <1>1, <1>2, <2>1, WriteCarries
<1>7. ASSUME n < 3  PROVE SpanOnce(c)
  <2>1. SpanOnce(b)  BY <1>7 DEF BodyGood
  <2> QED  BY <1>1, <1>2, <2>1, InsertSpan
<1> QED  BY <1>3, <1>4, <1>5, <1>6, <1>7 DEF BodyGood

\* A file that builds has its middleware behind the router.
LEMMA BuildsSound ==
  ASSUME NEW f \in Files, Builds(f)  PROVE Sound(f)
<1> SUFFICES ASSUME NEW i \in DOMAIN f.funcs, Stranded(f.funcs[i].body)  PROVE FALSE
  BY DEF Sound
<1>1. InScope(f.funcs[i].body)  BY DEF Builds, Elems
<1>2. PICK b : b = f.funcs[i].body  OBVIOUS
<1>3. PICK m \in DOMAIN b : b[m].k = "middleware" /\ \A j \in 1 .. m - 1 : b[j].k # "create"
  BY <1>2 DEF Stranded
<1>4. b[m].k \in {"use", "middleware"}  BY <1>3
<1>5. \E j \in 1 .. (m - 1) : b[j].k = "create" /\ b[j].on = b[m].on
  BY <1>1, <1>2, <1>4 DEF InScope
<1> QED  BY <1>3, <1>5

-------------------------------------------------------------------------------
(* Every step keeps the trees good.                                          *)

LEMMA CodegenInit == Init => IInv
<1> SUFFICES ASSUME Init  PROVE IInv  OBVIOUS
<1>1. PICK p \in Projects : files = p.files /\ own = p.files /\ cfg = p.cfg  BY DEF Init
<1>2. /\ p.files \in [Paths -> Files] /\ p.cfg \in Configs
      /\ \A q \in Paths : \A fn \in Elems(p.files[q].funcs) : ByHand(fn.body)
  BY CodegenAssumption
<1>3. cmd = "idle" /\ todo = <<>> /\ pushed = [q \in Paths |-> 0]  BY DEF Init
<1>4. TypeOK  BY <1>1, <1>2, <1>3 DEF TypeOK
<1>5. ASSUME NEW q \in Paths  PROVE FileGood(files[q], own[q], pushed[q])
  <2>1. PICK f \in Files : f = files[q]  BY <1>1, <1>2
  <2>2. \A i \in DOMAIN f.funcs : f.funcs[i].body \in Seq(Stmts)  BY FileParts
  <2>3. \A i \in DOMAIN f.funcs : ByHand(f.funcs[i].body)  BY <1>1, <1>2, <2>1 DEF Elems
  <2>4. \A i \in DOMAIN f.funcs :
          BodyGood(f.funcs[i].body, f.funcs[i].name, f.funcs[i].body, pushed[q])
    BY <2>2, <2>3, ByHandGood
  <2>5. own[q] = f  BY <1>1, <2>1
  <2> QED  BY <2>1, <2>4, <2>5 DEF FileGood
<1>6. NoneStranded  BY <1>3 DEF NoneStranded
<1>7. AtWork  BY <1>3 DEF AtWork
<1> QED  BY <1>4, <1>5, <1>6, <1>7 DEF IInv, BodiesGood

\* A step that leaves the trees alone; instrument begins only where every file builds.
LEMMA TreesUntouched ==
  ASSUME IInv, UNCHANGED <<files, own, pushed>>, cfg' \in Configs, AtWork',
         \/ cmd' # "instrument"
         \/ cmd' = cmd
         \/ \A p \in Paths : Builds(files[p])
  PROVE  IInv'
<1>1. TypeOK'  BY DEF IInv, TypeOK
<1>2. BodiesGood'  BY DEF IInv, BodiesGood
<1>3. NoneStranded'
  <2>1. CASE cmd' # "instrument"  BY <2>1 DEF NoneStranded
  <2>2. CASE cmd' = cmd  BY <2>2 DEF IInv, NoneStranded
  <2>3. CASE \A p \in Paths : Builds(files[p])
    <3>1. \A p \in Paths : files[p] \in Files  BY DEF IInv, TypeOK
    <3>2. \A p \in Paths : Sound(files[p])  BY <2>3, <3>1, BuildsSound
    <3> QED  BY <3>2 DEF NoneStranded
  <2> QED  BY <2>1, <2>2, <2>3
<1> QED  BY <1>1, <1>2, <1>3 DEF IInv

\* A file takes the place of one of the tree.
LEMMA RewriteGood ==
  ASSUME IInv, todo # <<>>, RewriteTarget  PROVE IInv'
<1>1. PICK t : t = Head(todo)  OBVIOUS
<1>2. CASE cmd = "wire" /\ WireFails(files[t.path], cfg, t.isMain)
  <2>1. End("error")  BY <1>1, <1>2 DEF RewriteTarget
  <2>2. cfg' \in Configs  BY <2>1 DEF End, IInv, TypeOK
  <2>3. AtWork'  BY <2>1 DEF End, AtWork
  <2>4. UNCHANGED <<files, own, pushed>> /\ cmd' # "instrument"  BY <2>1 DEF End
  <2> QED  BY <2>2, <2>3, <2>4, TreesUntouched
<1>3. CASE ~(cmd = "wire" /\ WireFails(files[t.path], cfg, t.isMain))
  <2>1. /\ files' = IF dry THEN files ELSE [files EXCEPT ![t.path] = Rewritten(t)]
        /\ UNCHANGED <<cfg, cmd, own, pushed>>
    BY <1>1, <1>3 DEF RewriteTarget, ghosts
  <2>a. cmd \in Commands  BY DEF IInv, AtWork
  <2>w. AtWork'  BY <2>1, <2>a DEF AtWork
  <2>2. cfg \in Configs /\ cfg' \in Configs /\ cfg.jobs \in Seq(Names)
    BY <2>1 DEF IInv, TypeOK, Configs
  <2>3. CASE dry  BY <2>1, <2>2, <2>3, <2>w, TreesUntouched
  <2>4. CASE ~dry
    <3>1. files' = [files EXCEPT ![t.path] = Rewritten(t)]  BY <2>1, <2>4
    <3>2. /\ files \in [Paths -> Files] /\ own \in [Paths -> Files] /\ pushed \in [Paths -> Nat]
      BY DEF IInv, TypeOK
    <3>3. ASSUME NEW p \in Paths, p = t.path
          PROVE  /\ Rewritten(t) \in Files /\ FileGood(Rewritten(t), own[p], pushed[p])
                 /\ cmd = "instrument" => Sound(Rewritten(t))
      <4>1. PICK f \in Files : f = files[p]  BY <3>2
      <4>2. PICK n \in Nat : n = pushed[p]  BY <3>2
      <4>3. FileGood(f, own[p], n)  BY <4>1, <4>2 DEF IInv, BodiesGood
      <4>4. CASE cmd = "wire"
        <5>1. ~WireFails(f, cfg, t.isMain)  BY <1>3, <3>3, <4>1, <4>4
        <5>2. Rewritten(t) = WireFile(f, cfg, t.isMain)  BY <3>3, <4>1, <4>4 DEF Rewritten
        <5>3. CASE t.isMain  BY <2>2, <4>2, <4>3, <4>4, <5>1, <5>2, <5>3, WireMainGood
        <5>4. CASE ~t.isMain  BY <4>2, <4>3, <4>4, <5>1, <5>2, <5>4, WireRouterGood
        <5> QED  BY <5>3, <5>4
      <4>5. CASE cmd # "wire" /\ ShouldInstrument(t.path, cfg) /\ cmd = "instrument"
        <5>1. Rewritten(t) = InstrumentFile(f, cfg)  BY <3>3, <4>1, <4>5 DEF Rewritten
        <5>2. Sound(f)  BY <4>1, <4>5 DEF IInv, NoneStranded
        <5> QED  BY <4>2, <4>3, <5>1, <5>2, InstrumentFileGood
      <4>6. CASE cmd # "wire" /\ ~ShouldInstrument(t.path, cfg)
        <5>1. Rewritten(t) = f  BY <3>3, <4>1, <4>6 DEF Rewritten
        <5> QED  BY <4>1, <4>2, <4>3, <5>1 DEF IInv, NoneStranded
      <4> QED  BY <2>a, <4>4, <4>5, <4>6 DEF Commands
    <3>4. \A p \in Paths : files'[p] = IF p = t.path THEN Rewritten(t) ELSE files[p]
      BY <3>1, <3>2
    <3>5. files' \in [Paths -> Files]
      <4>1. \A p \in Paths : files'[p] \in Files  BY <3>2, <3>3, <3>4
      <4>2. files' = [p \in Paths |-> files'[p]]  BY <3>1, <3>2
      <4> QED  BY <4>1, <4>2
    <3>6. TypeOK'  BY <2>1, <2>2, <3>2, <3>5 DEF TypeOK
    <3>7. BodiesGood'
      <4> SUFFICES ASSUME NEW p \in Paths  PROVE FileGood(files'[p], own[p], pushed[p])
        BY <2>1 DEF BodiesGood
      <4>1. CASE p = t.path  BY <3>3, <3>4, <4>1
      <4>2. CASE p # t.path  BY <3>4, <4>2 DEF IInv, BodiesGood
      <4> QED  BY <4>1, <4>2
    <3>8. NoneStranded'
      <4> SUFFICES ASSUME cmd = "instrument", NEW p \in Paths  PROVE Sound(files'[p])
        BY <2>1 DEF NoneStranded
      <4>1. CASE p = t.path  BY <3>3, <3>4, <4>1
      <4>2. CASE p # t.path  BY <3>4, <4>2 DEF IInv, NoneStranded
      <4> QED  BY <4>1, <4>2
    <3> QED  BY <2>w, <3>6, <3>7, <3>8 DEF IInv
  <2> QED  BY <2>3, <2>4
<1> QED  BY <1>2, <1>3

\* The developer puts a line at the head of a function.
LEMMA LineKeeps == ASSUME IInv, AddLine  PROVE IInv'
<1>1. /\ cmd = "idle" /\ UNCHANGED <<cmd, todo, cfg>>
      /\ \E p \in Paths : \E i \in DOMAIN files[p].funcs :
           LET Line(tree) == WithBody(tree, p, i, <<Stmt("other", {})>> \o tree[p].funcs[i].body)
           IN  /\ files' = Line(files) /\ own' = Line(own)
               /\ pushed' = [pushed EXCEPT ![p] = @ + 1]
  BY DEF AddLine, Edit
<1>p. PICK p \in Paths : \E i \in DOMAIN files[p].funcs :
        /\ files' = WithBody(files, p, i, <<Stmt("other", {})>> \o files[p].funcs[i].body)
        /\ own' = WithBody(own, p, i, <<Stmt("other", {})>> \o own[p].funcs[i].body)
        /\ pushed' = [pushed EXCEPT ![p] = @ + 1]
  BY <1>1
<1>2. PICK i \in DOMAIN files[p].funcs :
        /\ files' = WithBody(files, p, i, <<Stmt("other", {})>> \o files[p].funcs[i].body)
        /\ own' = WithBody(own, p, i, <<Stmt("other", {})>> \o own[p].funcs[i].body)
        /\ pushed' = [pushed EXCEPT ![p] = @ + 1]
  BY <1>p
<1>3. files \in [Paths -> Files] /\ own \in [Paths -> Files] /\ pushed \in [Paths -> Nat]
      /\ cfg \in Configs
  BY DEF IInv, TypeOK
<1>4. PICK f \in Files : f = files[p]  BY <1>3
<1>5. PICK o \in Files : o = own[p]  BY <1>3
<1>6. PICK n \in Nat : n = pushed[p]  BY <1>3
<1>7. FileGood(f, o, n)  BY <1>4, <1>5, <1>6 DEF IInv, BodiesGood
<1>8. i \in DOMAIN f.funcs /\ i \in DOMAIN o.funcs /\ DOMAIN f.funcs = DOMAIN o.funcs
  BY <1>4, <1>7 DEF FileGood
<1>9. PICK e : e = Stmt("other", {})  OBVIOUS
<1>10. PICK c : c = <<e>> \o f.funcs[i].body  OBVIOUS
<1>11. PICK is : is = <<e>> \o o.funcs[i].body  OBVIOUS
<1>12. c \in Seq(Stmts) /\ is \in Seq(Stmts) /\ BodyGood(c, f.funcs[i].name, is, n + 1)
  <2>1. f.funcs[i].body \in Seq(Stmts) /\ o.funcs[i].body \in Seq(Stmts)  BY <1>8, FileParts
  <2>2. BodyGood(f.funcs[i].body, f.funcs[i].name, o.funcs[i].body, n)
    BY <1>7, <1>8 DEF FileGood
  <2>3. PICK b \in Seq(Stmts) : b = f.funcs[i].body  BY <2>1
  <2>4. PICK w \in Seq(Stmts) : w = o.funcs[i].body  BY <2>1
  <2>5. PICK name : name = f.funcs[i].name  OBVIOUS
  <2>6. BodyGood(b, name, w, n) /\ c = <<e>> \o b /\ is = <<e>> \o w
    BY <1>10, <1>11, <2>2, <2>3, <2>4, <2>5
  <2>7. c \in Seq(Stmts) /\ is \in Seq(Stmts) /\ BodyGood(c, name, is, n + 1)
    BY <1>9, <2>6, LineGood
  <2> QED  BY <2>5, <2>7
<1>13. PICK g : g = [f EXCEPT !.funcs[i].body = c]  OBVIOUS
<1>14. PICK h : h = [o EXCEPT !.funcs[i].body = is]  OBVIOUS
<1>15. /\ g \in Files /\ DOMAIN g.funcs = DOMAIN f.funcs
       /\ \A j \in DOMAIN f.funcs : g.funcs[j].name = f.funcs[j].name
       /\ g.funcs[i].body = c
       /\ \A j \in DOMAIN f.funcs : j # i => g.funcs[j].body = f.funcs[j].body
  BY <1>8, <1>12, <1>13, BodyReplaced
<1>16. /\ h \in Files /\ DOMAIN h.funcs = DOMAIN o.funcs
       /\ h.funcs[i].body = is
       /\ \A j \in DOMAIN o.funcs : j # i => h.funcs[j].body = o.funcs[j].body
  BY <1>8, <1>12, <1>14, BodyReplaced
<1>17. FileGood(g, h, n + 1)
  <2>1. ASSUME NEW j \in DOMAIN f.funcs
        PROVE  BodyGood(g.funcs[j].body, g.funcs[j].name, h.funcs[j].body, n + 1)
    <3>1. CASE j = i  BY <1>12, <1>15, <1>16, <3>1
    <3>2. CASE j # i
      <4>1. BodyGood(f.funcs[j].body, f.funcs[j].name, o.funcs[j].body, n)
        BY <1>7 DEF FileGood
      <4>2. f.funcs[j].body \in Seq(Stmts)  BY FileParts
      <4>3. BodyGood(f.funcs[j].body, f.funcs[j].name, o.funcs[j].body, n + 1)
        BY <4>1, <4>2, MoreAbove
      <4> QED  BY <1>8, <1>15, <1>16, <3>2, <4>3
    <3> QED  BY <3>1, <3>2
  <2> QED  BY <1>8, <1>15, <1>16, <2>1 DEF FileGood
<1>18. files' = [files EXCEPT ![p] = g]
  BY <1>2, <1>4, <1>9, <1>10, <1>13 DEF WithBody
<1>19. own' = [own EXCEPT ![p] = h]
  BY <1>2, <1>5, <1>9, <1>11, <1>14 DEF WithBody
<1>20. TypeOK'
  <2>1. files' \in [Paths -> Files]  BY <1>3, <1>15, <1>18
  <2>2. own' \in [Paths -> Files]  BY <1>3, <1>16, <1>19
  <2>3. pushed' \in [Paths -> Nat]
    <3>1. pushed' = [pushed EXCEPT ![p] = n + 1]  BY <1>2, <1>6
    <3>2. n + 1 \in Nat  OBVIOUS
    <3> QED  BY <1>3, <3>1, <3>2
  <2> QED  BY <1>1, <1>3, <2>1, <2>2, <2>3 DEF TypeOK
<1>21. BodiesGood'
  <2> SUFFICES ASSUME NEW q \in Paths  PROVE FileGood(files'[q], own'[q], pushed'[q])
    BY DEF BodiesGood
  <2>1. CASE q = p
    <3>1. files'[q] = g /\ own'[q] = h /\ pushed'[q] = n + 1
      BY <1>2, <1>3, <1>6, <1>18, <1>19, <2>1
    <3> QED  BY <1>17, <3>1
  <2>2. CASE q # p
    <3>1. files'[q] = files[q] /\ own'[q] = own[q] /\ pushed'[q] = pushed[q]
      BY <1>2, <1>3, <1>18, <1>19, <2>2
    <3> QED  BY <3>1 DEF IInv, BodiesGood
  <2> QED  BY <2>1, <2>2
<1>22. AtWork' /\ NoneStranded'  BY <1>1 DEF IInv, AtWork, NoneStranded
<1> QED  BY <1>20, <1>21, <1>22 DEF IInv

\* And a call at the end of main.
LEMMA CallKeeps == ASSUME IInv, AddCall  PROVE IInv'
<1>1. /\ cmd = "idle" /\ UNCHANGED <<cmd, todo, cfg, pushed>>
      /\ \E s \in NewCalls :
           LET i == MainIndex(files["main"])
               Call(tree) ==
                 [WithBody(tree, "main", i, Append(tree["main"].funcs[i].body, s))
                    EXCEPT !["main"].imports = @ \cup s.uses]
           IN  HasMain(files["main"]) /\ files' = Call(files) /\ own' = Call(own)
  BY DEF AddCall, Edit
<1>2. PICK p : p = "main"  OBVIOUS
<1>3. PICK i : i = MainIndex(files[p])  OBVIOUS
<1>4. PICK s \in NewCalls :
        LET Call(tree) == [WithBody(tree, p, i, Append(tree[p].funcs[i].body, s))
                             EXCEPT ![p].imports = @ \cup s.uses]
        IN  HasMain(files[p]) /\ files' = Call(files) /\ own' = Call(own)
  BY <1>1, <1>2, <1>3
<1>5. /\ files \in [Paths -> Files] /\ own \in [Paths -> Files] /\ pushed \in [Paths -> Nat]
      /\ cfg \in Configs
  BY DEF IInv, TypeOK
<1>6. AtWork' /\ NoneStranded'  BY <1>1 DEF IInv, AtWork, NoneStranded
<1>7. CASE p \notin Paths
  <2>1. files' = files /\ own' = own  BY <1>4, <1>5, <1>7 DEF WithBody
  <2> QED  BY <1>1, <1>5, <1>6, <2>1, TreesUntouched
<1>8. CASE p \in Paths
  <2>1. PICK f \in Files : f = files[p]  BY <1>5, <1>8
  <2>2. PICK o \in Files : o = own[p]  BY <1>5, <1>8
  <2>3. PICK n \in Nat : n = pushed[p]  BY <1>5, <1>8
  <2>4. FileGood(f, o, n)  BY <1>8, <2>1, <2>2, <2>3 DEF IInv, BodiesGood
  <2>5. i \in DOMAIN f.funcs /\ f.funcs[i].name = "main"  BY <1>3, <1>4, <2>1, MainIndexIsMain
  <2>6. i \in DOMAIN o.funcs /\ DOMAIN f.funcs = DOMAIN o.funcs  BY <2>4, <2>5 DEF FileGood
  <2>7. PICK b \in Seq(Stmts) : b = f.funcs[i].body  BY <2>5, FileParts
  <2>8. PICK w \in Seq(Stmts) : w = o.funcs[i].body  BY <2>6, FileParts
  <2>9. BodyGood(b, "main", w, n)  BY <2>4, <2>5, <2>7, <2>8 DEF FileGood
  <2>10. PICK c : c = Append(b, s)  OBVIOUS
  <2>11. PICK is : is = Append(w, s)  OBVIOUS
  <2>12. c \in Seq(Stmts) /\ is \in Seq(Stmts) /\ BodyGood(c, "main", is, n)
    BY <2>9, <2>10, <2>11, CallGood
  <2>13. PICK u \in SUBSET Packages : u = s.uses  BY CodegenAssumption DEF Stmts
  <2>14. PICK g : g = [f EXCEPT !.funcs[i].body = c]  OBVIOUS
  <2>15. PICK h : h = [o EXCEPT !.funcs[i].body = is]  OBVIOUS
  <2>16. PICK gg : gg = [g EXCEPT !.imports = @ \cup u]  OBVIOUS
  <2>17. PICK hh : hh = [h EXCEPT !.imports = @ \cup u]  OBVIOUS
  <2>18. /\ g \in Files /\ DOMAIN g.funcs = DOMAIN f.funcs
         /\ \A j \in DOMAIN f.funcs : g.funcs[j].name = f.funcs[j].name
         /\ g.funcs[i].body = c
         /\ \A j \in DOMAIN f.funcs : j # i => g.funcs[j].body = f.funcs[j].body
    <3>1. i \in DOMAIN f.funcs  BY <2>5
    <3>2. c \in Seq(Stmts)  BY <2>12
    <3> QED  BY <2>14, <3>1, <3>2, BodyReplaced
  <2>19. /\ h \in Files /\ DOMAIN h.funcs = DOMAIN o.funcs
         /\ h.funcs[i].body = is
         /\ \A j \in DOMAIN o.funcs : j # i => h.funcs[j].body = o.funcs[j].body
    BY <2>6, <2>12, <2>15, BodyReplaced
  <2>20. gg \in Files /\ gg.funcs = g.funcs  BY <2>16, <2>18, ImportsAdded
  <2>21. hh \in Files /\ hh.funcs = h.funcs  BY <2>17, <2>19, ImportsAdded
  <2>22. FileGood(gg, hh, n)
    <3>1. ASSUME NEW j \in DOMAIN f.funcs
          PROVE  BodyGood(g.funcs[j].body, g.funcs[j].name, h.funcs[j].body, n)
      <4>1. CASE j = i  BY <2>5, <2>12, <2>18, <2>19, <4>1
      <4>2. CASE j # i
        <5>1. BodyGood(f.funcs[j].body, f.funcs[j].name, o.funcs[j].body, n)
          BY <2>4 DEF FileGood
        <5> QED  BY <2>6, <2>18, <2>19, <4>2, <5>1
      <4> QED  BY <4>1, <4>2
    <3>2. DOMAIN gg.funcs = DOMAIN f.funcs /\ DOMAIN hh.funcs = DOMAIN f.funcs
      BY <2>6, <2>18, <2>19, <2>20, <2>21
    <3> QED  BY <2>20, <2>21, <3>1, <3>2 DEF FileGood
  <2>23. files' = [files EXCEPT ![p] = gg]
    <3>1. WithBody(files, p, i, c) = [files EXCEPT ![p] = g]  BY <2>1, <2>14 DEF WithBody
    <3>2. PICK tree : tree = [files EXCEPT ![p] = g]  OBVIOUS
    <3>3. files' = [tree EXCEPT ![p].imports = @ \cup u]
      BY <1>4, <2>1, <2>7, <2>10, <2>13, <3>1, <3>2
    <3>4. tree[p] = g /\ DOMAIN tree = Paths /\ \A q \in Paths : q # p => tree[q] = files[q]
      BY <1>5, <1>8, <3>2
    <3>5. files' = [tree EXCEPT ![p] = gg]  BY <2>16, <3>3, <3>4
    <3> QED  BY <1>5, <1>8, <3>2, <3>5
  <2>24. own' = [own EXCEPT ![p] = hh]
    <3>1. WithBody(own, p, i, is) = [own EXCEPT ![p] = h]  BY <2>2, <2>15 DEF WithBody
    <3>2. PICK tree : tree = [own EXCEPT ![p] = h]  OBVIOUS
    <3>3. own' = [tree EXCEPT ![p].imports = @ \cup u]
      BY <1>4, <2>2, <2>8, <2>11, <2>13, <3>1, <3>2
    <3>4. tree[p] = h /\ DOMAIN tree = Paths /\ \A q \in Paths : q # p => tree[q] = own[q]
      BY <1>5, <1>8, <3>2
    <3>5. own' = [tree EXCEPT ![p] = hh]  BY <2>17, <3>3, <3>4
    <3> QED  BY <1>5, <1>8, <3>2, <3>5
  <2>25. TypeOK'
    <3>1. files' \in [Paths -> Files]  BY <1>5, <2>20, <2>23
    <3>2. own' \in [Paths -> Files]  BY <1>5, <2>21, <2>24
    <3> QED  BY <1>1, <1>5, <3>1, <3>2 DEF TypeOK
  <2>26. BodiesGood'
    <3> SUFFICES ASSUME NEW q \in Paths  PROVE FileGood(files'[q], own'[q], pushed'[q])
      BY DEF BodiesGood
    <3>1. CASE q = p
      <4>1. files'[q] = gg /\ own'[q] = hh /\ pushed'[q] = n
        BY <1>1, <1>5, <2>3, <2>23, <2>24, <3>1
      <4> QED  BY <2>22, <4>1
    <3>2. CASE q # p
      <4>1. files'[q] = files[q] /\ own'[q] = own[q] /\ pushed'[q] = pushed[q]
        BY <1>1, <1>5, <2>23, <2>24, <3>2
      <4> QED  BY <4>1 DEF IInv, BodiesGood
    <3> QED  BY <3>1, <3>2
  <2> QED  BY <1>6, <2>25, <2>26 DEF IInv
<1> QED  BY <1>7, <1>8

LEMMA CodegenNext == IInv /\ [Next]_vars => IInv'
<1> SUFFICES ASSUME IInv, [Next]_vars  PROVE IInv'  OBVIOUS
<1>1. cfg \in Configs /\ AtWork  BY DEF IInv, TypeOK
<1>2. ASSUME NEW result, End(result)  PROVE IInv'
  <2>1. UNCHANGED <<files, own, pushed>> /\ cfg' = cfg /\ cmd' = "idle" /\ todo' = <<>>
    BY <1>2 DEF End
  <2>2. AtWork'  BY <2>1 DEF AtWork
  <2> QED  BY <1>1, <2>1, <2>2, TreesUntouched
<1>3. ASSUME NEW d \in BOOLEAN, StartWire(d)  PROVE IInv'
  <2>1. CASE End("error")  BY <1>2, <2>1
  <2>2. CASE Begin("wire", d, Targets(files, cfg, Walk))
    <3>1. UNCHANGED <<files, own, pushed>> /\ cfg' = cfg /\ cmd' = "wire"
      BY <2>2 DEF Begin, ghosts
    <3>2. AtWork'  BY <3>1 DEF AtWork, Commands
    <3> QED  BY <1>1, <3>1, <3>2, TreesUntouched
  <2> QED  BY <1>3, <2>1, <2>2 DEF StartWire
<1>4. ASSUME NEW d \in BOOLEAN, StartInstrument(d)  PROVE IInv'
  <2>1. CASE End("error")  BY <1>2, <2>1
  <2>2. CASE (\A p \in Paths : Builds(files[p])) /\ Begin("instrument", d, AsTargets(Walk, FALSE))
    <3>1. UNCHANGED <<files, own, pushed>> /\ cfg' = cfg /\ cmd' = "instrument"
      BY <2>2 DEF Begin, ghosts
    <3>2. AtWork'  BY <3>1 DEF AtWork, Commands
    <3> QED  BY <1>1, <2>2, <3>1, <3>2, TreesUntouched
  <2> QED  BY <1>4, <2>1, <2>2 DEF StartInstrument
<1>5. CASE RewriteTarget  BY <1>5, RewriteGood DEF RewriteTarget
<1>6. CASE Complete  BY <1>2, <1>6 DEF Complete
<1>7. CASE Interrupt  BY <1>2, <1>7 DEF Interrupt
<1>8. CASE Reconfigure
  <2>1. UNCHANGED <<files, own, pushed, cmd, todo>> /\ cfg' \in NewConfigs
    BY <1>8 DEF Reconfigure, Edit
  <2>2. AtWork' /\ cfg' \in Configs  BY <1>1, <2>1, CodegenAssumption DEF AtWork
  <2> QED  BY <2>1, <2>2, TreesUntouched
<1>9. CASE AddLine  BY <1>9, LineKeeps
<1>10. CASE AddCall  BY <1>10, CallKeeps
<1>11. CASE UNCHANGED vars
  <2>1. UNCHANGED <<files, own, pushed, cmd, todo, cfg>>  BY <1>11 DEF vars
  <2>2. AtWork'  BY <1>1, <2>1 DEF AtWork
  <2> QED  BY <1>1, <2>1, <2>2, TreesUntouched
<1> QED  BY <1>3, <1>4, <1>5, <1>6, <1>7, <1>8, <1>9, <1>10, <1>11 DEF Next

LEMMA CodegenInvariant == Spec => []IInv
BY CodegenInit, CodegenNext, PTL DEF Spec

-------------------------------------------------------------------------------
(* What the runs check of it.                                                *)

\* Places in ascending order count the numbers they hold.
LEMMA ImageCounts ==
  ASSUME NEW m \in Nat, NEW S, NEW at \in [1 .. m -> S],
         \A r, q \in 1 .. m : r < q => at[r] < at[q], S \subseteq Nat,
         \A i \in S : \E r \in 1 .. m : at[r] = i
  PROVE  Cardinality(S) = m
<1>1. \A r, q \in 1 .. m : at[r] = at[q] => r = q
  <2> SUFFICES ASSUME NEW r \in 1 .. m, NEW q \in 1 .. m, at[r] = at[q], r # q  PROVE FALSE
    OBVIOUS
  <2>1. at[r] \in Nat /\ at[q] \in Nat  OBVIOUS
  <2>2. CASE r < q  BY <2>1, <2>2
  <2>3. CASE q < r  BY <2>1, <2>3
  <2> QED  BY <2>2, <2>3
<1>2. at \in Injection(1 .. m, S)  BY <1>1 DEF Injection, IsInjective
<1>3. at \in Surjection(1 .. m, S)  BY DEF Surjection
<1>4. ExistsBijection(1 .. m, S)  BY <1>2, <1>3 DEF Bijection, ExistsBijection
<1> QED  BY <1>4, FS_CountingElements

\* The statement that carries the developer's r-th is of rank r among theirs.
LEMMA CarriesRanks ==
  ASSUME NEW now \in Seq(Stmts), NEW was \in Seq(Stmts), Carries(now, was)
  PROVE  /\ Cardinality(Ours(now)) = Len(was)
         /\ \A j \in Ours(now) : /\ Look(now[j]) = Look(was[Rank(now, j)])
                                 /\ Survives(now[j], was[Rank(now, j)])
<1>1. PICK at \in [DOMAIN was -> DOMAIN now] :
        /\ \A r, q \in DOMAIN was : r < q => at[r] < at[q]
        /\ \A i \in DOMAIN now : ~now[i].gen <=> \E r \in DOMAIN was : at[r] = i
        /\ \A r \in DOMAIN was : Look(now[at[r]]) = Look(was[r]) /\ Survives(now[at[r]], was[r])
  BY DEF Carries
<1>2. PICK m \in Nat : m = Len(was)  BY LenProperties
<1>3. PICK n \in Nat : n = Len(now)  BY LenProperties
<1>4. DOMAIN was = 1 .. m /\ DOMAIN now = 1 .. n  BY <1>2, <1>3, LenProperties
<1>5. Ours(now) \in SUBSET (1 .. n) /\ \A i \in 1 .. n : i \in Ours(now) <=> ~now[i].gen
  BY <1>4 DEF Ours
<1>6. \A r \in 1 .. m : at[r] \in Ours(now)  BY <1>1, <1>4, <1>5
<1>7. \A i \in Ours(now) : \E r \in 1 .. m : at[r] = i  BY <1>1, <1>4, <1>5
<1>8. at \in [1 .. m -> Ours(now)]  BY <1>1, <1>4, <1>6
<1>9. \A r, q \in 1 .. m : r < q => at[r] < at[q]  BY <1>1, <1>4
<1>10. Cardinality(Ours(now)) = m
  <2>1. PICK S : S = Ours(now)  OBVIOUS
  <2>2. S \subseteq Nat  BY <1>5, <2>1
  <2>3. at \in [1 .. m -> S] /\ \A i \in S : \E r \in 1 .. m : at[r] = i  BY <1>7, <1>8, <2>1
  <2>4. Cardinality(S) = m  BY <1>9, <2>2, <2>3, ImageCounts
  <2> QED  BY <2>1, <2>4
<1>11. ASSUME NEW j \in Ours(now)
       PROVE  Look(now[j]) = Look(was[Rank(now, j)]) /\ Survives(now[j], was[Rank(now, j)])
  <2>1. PICK r \in 1 .. m : at[r] = j  BY <1>7
  <2>2. PICK S : S = {i \in Ours(now) : i <= j}  OBVIOUS
  <2>3. PICK up : up = [q \in 1 .. r |-> at[q]]  OBVIOUS
  <2>4. ASSUME NEW q \in 1 .. m  PROVE at[q] <= j <=> q <= r
    <3>1. at[q] \in Nat /\ at[r] \in Nat  BY <1>5, <1>6
    <3>2. CASE q < r  BY <1>9, <2>1, <3>1, <3>2
    <3>3. CASE q = r  BY <2>1, <3>1, <3>3
    <3>4. CASE r < q  BY <1>9, <2>1, <3>1, <3>4
    <3> QED  BY <3>2, <3>3, <3>4
  <2>5. r \in Nat /\ \A q \in 1 .. r : q \in 1 .. m  OBVIOUS
  <2>6. up \in [1 .. r -> S]
    <3>1. ASSUME NEW q \in 1 .. r  PROVE at[q] \in S  BY <1>6, <2>2, <2>4, <2>5
    <3> QED  BY <2>3, <3>1
  <2>7. \A q, s \in 1 .. r : q < s => up[q] < up[s]  BY <1>9, <2>3, <2>5
  <2>8. ASSUME NEW i \in S  PROVE \E q \in 1 .. r : up[q] = i
    <3>1. PICK q \in 1 .. m : at[q] = i  BY <1>7, <2>2
    <3>2. q \in 1 .. r  BY <2>2, <2>4, <3>1
    <3> QED  BY <2>3, <3>1, <3>2
  <2>9. S \subseteq Nat  BY <1>5, <2>2
  <2>10. Cardinality(S) = r  BY <2>5, <2>6, <2>7, <2>8, <2>9, ImageCounts
  <2>11. Rank(now, j) = r  BY <2>2, <2>10 DEF Rank
  <2> QED  BY <1>1, <1>4, <2>1, <2>11
<1> QED  BY <1>2, <1>10, <1>11

\* A call is wrapped in each hook at most once, main is configured at most once by the
\* generator, and a function keeps one span as long as fewer than three lines are put above
\* it, whatever the order of runs, interruptions and edits.
THEOREM HookedOnceAlways == Spec => []HookedOnce
<1>1. IInv => HookedOnce
  <2> SUFFICES ASSUME IInv, NEW p \in Paths, NEW fn \in Elems(files[p].funcs)
               PROVE  /\ \A s \in Elems(fn.body) : HooksDiffer(s)
                      /\ ConfigureOnce(fn.body)
                      /\ pushed[p] < 3 => SpanOnce(fn.body)
    BY DEF HookedOnce, ConfigureOnce, SpanOnce
  <2>1. FileGood(files[p], own[p], pushed[p])  BY DEF IInv, BodiesGood
  <2>2. PICK i \in DOMAIN files[p].funcs : fn = files[p].funcs[i]  BY DEF Elems
  <2>3. BodyGood(fn.body, fn.name, own[p].funcs[i].body, pushed[p])
    BY <2>1, <2>2 DEF FileGood
  <2>4. \A s \in Elems(fn.body) : HooksDiffer(s)  BY <2>3 DEF BodyGood, HooksOnce, Elems
  <2> QED  BY <2>3, <2>4 DEF BodyGood
<1> QED  BY <1>1, CodegenInvariant, PTL

\* Wire and instrument put their statements between the developer's and wrap calls where they
\* stand: the statements that no generator inserted are as many as the developer wrote, of the
\* same kinds and in their order, and mention and call what they did.  The exceptions are part
\* of the property: what PersistentPreRun was set to, an Execute block with its error branch,
\* and the further arguments of a Process call are overwritten by wire.
THEOREM DevelopersStatementsKept == Spec => []WrittenKept
<1>1. IInv => WrittenKept
  <2> SUFFICES ASSUME IInv, NEW p \in Paths, NEW i \in DOMAIN files[p].funcs
               PROVE  LET now == files[p].funcs[i].body
                          was == own[p].funcs[i].body
                      IN  /\ Cardinality(Ours(now)) = Len(was)
                          /\ \A j \in Ours(now) :
                               LET old == was[Rank(now, j)]
                               IN  /\ Look(now[j]) = Look(old)
                                   /\ \/ Holds(now[j], old) \/ Overwritten(now[j])
                                      \/ DropsArguments(old)
    BY DEF WrittenKept
  <2>1. FileGood(files[p], own[p], pushed[p])  BY DEF IInv, BodiesGood
  <2>2. files[p] \in Files /\ own[p] \in Files  BY DEF IInv, TypeOK
  <2>3. i \in DOMAIN own[p].funcs  BY <2>1 DEF FileGood
  <2>4. PICK now \in Seq(Stmts) : now = files[p].funcs[i].body  BY <2>2, FileParts
  <2>5. PICK was \in Seq(Stmts) : was = own[p].funcs[i].body  BY <2>2, <2>3, FileParts
  <2>6. Carries(now, was)  BY <2>1, <2>4, <2>5 DEF FileGood, BodyGood
  <2>7. /\ Cardinality(Ours(now)) = Len(was)
        /\ \A j \in Ours(now) : /\ Look(now[j]) = Look(was[Rank(now, j)])
                                /\ Survives(now[j], was[Rank(now, j)])
    BY <2>6, CarriesRanks
  <2>8. ASSUME NEW j \in Ours(now)
        PROVE  LET old == was[Rank(now, j)]
               IN  /\ Look(now[j]) = Look(old)
                   /\ Holds(now[j], old) \/ Overwritten(now[j]) \/ DropsArguments(old)
    BY <2>7 DEF Survives
  <2> QED  BY <2>4, <2>5, <2>7, <2>8
<1> QED  BY <1>1, CodegenInvariant, PTL

-------------------------------------------------------------------------------
(* Running a completed command again writes nothing.                         *)

\* What instrument looks for at the head of a function, and where it looks for nothing: no
\* router is created before something that makes use of one.
Marks == {"span", "defer", "manual"}
Ordered(body) ==
  \A i, j \in DOMAIN body : body[i].k \in Marks /\ body[j].k = "create" => i < j
Headless(body) ==
  \E i \in DOMAIN body : /\ body[i].k \in {"use", "middleware"}
                         /\ \A j \in 1 .. i - 1 : body[j].k # "create"
UseHeadless(body) ==
  \E i \in DOMAIN body : body[i].k = "use" /\ \A j \in 1 .. i - 1 : body[j].k # "create"
AllReplaceable(body) == \A s \in Elems(body) : Replaceable(s)

\* The statements after an insertion, and after calls have been wrapped.
LEMMA InsertElems ==
  ASSUME NEW b, NEW c, NEW at, NEW e, Inserted(b, c, at, e)
  PROVE  Elems(c) = Elems(b) \cup {e}
<1>1. /\ at + 1 \in DOMAIN c /\ c[at + 1] = e
      /\ \A j \in DOMAIN b : Shift(at, j) \in DOMAIN c /\ c[Shift(at, j)] = b[j]
      /\ \A i \in DOMAIN c : i = at + 1 \/ \E j \in DOMAIN b : i = Shift(at, j)
  BY InsertedPlaces
<1>2. ASSUME NEW x \in Elems(c)  PROVE x \in Elems(b) \cup {e}  BY <1>1 DEF Elems
<1>3. ASSUME NEW x \in Elems(b) \cup {e}  PROVE x \in Elems(c)
  <2>1. CASE x = e  BY <1>1, <2>1 DEF Elems
  <2>2. CASE x \in Elems(b)
    <3>1. PICK j \in DOMAIN b : x = b[j]  BY <2>2 DEF Elems
    <3> QED  BY <1>1, <3>1 DEF Elems
  <2> QED  BY <1>3, <2>1, <2>2
<1> QED  BY <1>2, <1>3

LEMMA KeepsElems ==
  ASSUME NEW b, NEW c, NEW N, Keeps(b, c, N)
  PROVE  /\ \A s \in Elems(b) : \E t \in Elems(c) : Touched(s, t, N)
         /\ \A t \in Elems(c) : \E s \in Elems(b) : Touched(s, t, N)
<1>1. DOMAIN c = DOMAIN b /\ \A i \in DOMAIN b : Touched(b[i], c[i], N)  BY DEF Keeps
<1>2. ASSUME NEW s \in Elems(b)  PROVE \E t \in Elems(c) : Touched(s, t, N)
  <2>1. PICK i \in DOMAIN b : s = b[i]  BY DEF Elems
  <2>2. c[i] \in Elems(c)  BY <1>1 DEF Elems
  <2> QED  BY <1>1, <2>1, <2>2
<1>3. ASSUME NEW t \in Elems(c)  PROVE \E s \in Elems(b) : Touched(s, t, N)
  <2>1. PICK i \in DOMAIN b : t = c[i]  BY <1>1 DEF Elems
  <2>2. b[i] \in Elems(b)  BY DEF Elems
  <2> QED  BY <1>1, <2>1, <2>2
<1> QED  BY <1>2, <1>3

\* What wire looks for is there as before, and a hook that is in stays in.
LEMMA KeepsFinds ==
  ASSUME NEW b, NEW c, NEW N, Keeps(b, c, N)
  PROVE  /\ \A kind : HasKind(c, kind) <=> HasKind(b, kind)
         /\ \A lib : (\E s \in Elems(c) : IsCreate(s, lib)) <=> \E s \in Elems(b) : IsCreate(s, lib)
         /\ AllReplaceable(b) =>
              /\ AllReplaceable(c)
              /\ \A name : Calls(b, name) => Calls(c, name)
              /\ \A job : HasJobWired(b, job) => HasJobWired(c, job)
<1>1. /\ \A s \in Elems(b) : \E t \in Elems(c) : Touched(s, t, N)
      /\ \A t \in Elems(c) : \E s \in Elems(b) : Touched(s, t, N)
  BY KeepsElems
<1>2. \A s, t : Touched(s, t, N) => t.k = s.k /\ t.fw = s.fw  BY DEF Touched
<1>3. \A kind : HasKind(c, kind) <=> HasKind(b, kind)  BY <1>1, <1>2 DEF HasKind
<1>4. \A lib : (\E s \in Elems(c) : IsCreate(s, lib)) <=> \E s \in Elems(b) : IsCreate(s, lib)
  BY <1>1, <1>2 DEF IsCreate
<1>5. ASSUME AllReplaceable(b)
      PROVE  /\ AllReplaceable(c)
             /\ \A name : Calls(b, name) => Calls(c, name)
             /\ \A job : HasJobWired(b, job) => HasJobWired(c, job)
  <2>1. \A s \in Elems(b) : \A t : Touched(s, t, N) =>
          /\ Replaceable(t) /\ Elems(s.dv) \subseteq Elems(t.dv)
          /\ "RunJob" \in Elems(s.dv) => t.job = s.job
    BY <1>5 DEF AllReplaceable, Touched
  <2>2. AllReplaceable(c)  BY <1>1, <2>1 DEF AllReplaceable
  <2>3. \A name : Calls(b, name) => Calls(c, name)
    <3> SUFFICES ASSUME NEW name, NEW s \in Elems(b), name \in Elems(s.dv)
                 PROVE  \E t \in Elems(c) : name \in Elems(t.dv)
      BY DEF Calls
    <3>1. PICK t \in Elems(c) : Touched(s, t, N)  BY <1>1
    <3> QED  BY <2>1, <3>1
  <2>4. \A job : HasJobWired(b, job) => HasJobWired(c, job)
    <3> SUFFICES ASSUME NEW job, NEW s \in Elems(b), "RunJob" \in Elems(s.dv), s.job = job
                 PROVE  \E t \in Elems(c) : "RunJob" \in Elems(t.dv) /\ t.job = job
      BY DEF HasJobWired
    <3>1. PICK t \in Elems(c) : Touched(s, t, N)  BY <1>1
    <3> QED  BY <2>1, <3>1
  <2> QED  BY <2>2, <2>3, <2>4
<1> QED  BY <1>3, <1>4, <1>5

LEMMA InsertFinds ==
  ASSUME NEW b, NEW c, NEW at, NEW e, Inserted(b, c, at, e)
  PROVE  /\ \A kind : HasKind(c, kind) <=> HasKind(b, kind) \/ e.k = kind
         /\ \A lib : (\E s \in Elems(c) : IsCreate(s, lib))
                       <=> IsCreate(e, lib) \/ \E s \in Elems(b) : IsCreate(s, lib)
         /\ AllReplaceable(c) <=> AllReplaceable(b) /\ Replaceable(e)
         /\ \A name : Calls(c, name) <=> Calls(b, name) \/ name \in Elems(e.dv)
         /\ \A job : HasJobWired(b, job) => HasJobWired(c, job)
<1>1. Elems(c) = Elems(b) \cup {e}  BY InsertElems
<1>2. \A s : s \in Elems(c) <=> s = e \/ s \in Elems(b)  BY <1>1
<1> QED  BY <1>2 DEF HasKind, AllReplaceable, Calls, HasJobWired

\* The places of routers and marks.
LEMMA InsertOrdered ==
  ASSUME NEW b, NEW c, NEW at, NEW e, Inserted(b, c, at, e), Ordered(b), e.k # "create",
         e.k \in Marks => at = 0
  PROVE  Ordered(c)
<1> SUFFICES ASSUME NEW i \in DOMAIN c, NEW j \in DOMAIN c, c[i].k \in Marks, c[j].k = "create"
             PROVE  i < j
  BY DEF Ordered
<1>1. /\ DOMAIN b \subseteq Nat /\ DOMAIN c \subseteq Nat /\ at \in Nat /\ c[at + 1] = e
      /\ \A x \in DOMAIN c : x = at + 1 \/ \E p \in DOMAIN b : x = Shift(at, p) /\ c[x] = b[p]
      /\ \A x \in DOMAIN c : x >= 1
  <2>1. DOMAIN c = 1 .. Len(b) + 1 /\ DOMAIN b = 1 .. Len(b) /\ Len(b) \in Nat
        /\ at \in Nat /\ c[at + 1] = e
    BY InsertedPlaces
  <2>2. \A x \in DOMAIN c : x = at + 1 \/ \E p \in DOMAIN b : x = Shift(at, p) /\ c[x] = b[p]
    BY InsertedPlaces
  <2>3. DOMAIN b \subseteq Nat /\ DOMAIN c \subseteq Nat /\ \A x \in DOMAIN c : x >= 1  BY <2>1
  <2> QED  BY <2>1, <2>2, <2>3
<1>2. j # at + 1  BY <1>1
<1>3. PICK q \in DOMAIN b : j = Shift(at, q) /\ c[j] = b[q]  BY <1>1, <1>2
<1>4. CASE i = at + 1
  <2>1. at = 0 /\ i = 1 /\ j # 1 /\ j >= 1  BY <1>1, <1>2, <1>4
  <2> QED  BY <1>1, <2>1
<1>5. CASE i # at + 1
  <2>1. PICK p \in DOMAIN b : i = Shift(at, p) /\ c[i] = b[p]  BY <1>1, <1>5
  <2>2. p < q  BY <1>3, <2>1 DEF Ordered
  <2>3. p \in Nat /\ q \in Nat  BY <1>1
  <2>4. Shift(at, p) < Shift(at, q)  BY <1>1, <2>2, <2>3, ShiftOrder
  <2> QED  BY <1>3, <2>1, <2>4
<1> QED  BY <1>4, <1>5

LEMMA InsertHeadless ==
  ASSUME NEW b, NEW c, NEW at, NEW e, Inserted(b, c, at, e), Headless(b), e.k # "create"
  PROVE  Headless(c)
<1>1. PICK i \in DOMAIN b : b[i].k \in {"use", "middleware"}
                              /\ \A j \in 1 .. i - 1 : b[j].k # "create"
  BY DEF Headless
<1>2. /\ DOMAIN b = 1 .. Len(b) /\ DOMAIN c = 1 .. Len(b) + 1 /\ Len(b) \in Nat /\ at \in Nat
      /\ c[at + 1] = e
      /\ Shift(at, i) \in DOMAIN c /\ c[Shift(at, i)] = b[i]
      /\ \A x \in DOMAIN c : x = at + 1 \/ \E j \in DOMAIN b : x = Shift(at, j) /\ c[x] = b[j]
  BY InsertedPlaces
<1>3. ASSUME NEW x \in 1 .. Shift(at, i) - 1  PROVE c[x].k # "create"
  <2>1. x \in DOMAIN c /\ i \in Nat /\ x < Shift(at, i)  BY <1>2
  <2>2. CASE x = at + 1  BY <1>2, <2>2
  <2>3. CASE x # at + 1
    <3>1. PICK j \in DOMAIN b : x = Shift(at, j) /\ c[x] = b[j]  BY <1>2, <2>1, <2>3
    <3>2. j \in Nat /\ j >= 1 /\ j < i
      <4>1. j \in Nat /\ j >= 1 /\ Shift(at, j) < Shift(at, i)  BY <1>2, <2>1, <3>1
      <4> QED  BY <1>2, <2>1, <4>1, ShiftOrder
    <3>3. j \in 1 .. i - 1  BY <2>1, <3>2
    <3> QED  BY <1>1, <3>1, <3>3
  <2> QED  BY <2>2, <2>3
<1> QED  BY <1>1, <1>2, <1>3 DEF Headless

LEMMA KeepsHeadless ==
  ASSUME NEW b \in Seq(Stmts), NEW c, NEW N, Keeps(b, c, N), Headless(b)  PROVE Headless(c)
<1>1. DOMAIN b = 1 .. Len(b) /\ Len(b) \in Nat  BY LenProperties
<1>2. DOMAIN c = DOMAIN b /\ \A i \in DOMAIN b : c[i].k = b[i].k  BY DEF Keeps, Touched
<1>3. PICK i \in DOMAIN b : b[i].k \in {"use", "middleware"}
                              /\ \A j \in 1 .. i - 1 : b[j].k # "create"
  BY DEF Headless
<1>4. \A j \in 1 .. i - 1 : j \in DOMAIN b  BY <1>1
<1> QED  BY <1>2, <1>3, <1>4 DEF Headless

\* A use above every router was there before: nothing else moves a use or takes a router away.
LEMMA InsertUses ==
  ASSUME NEW b, NEW c, NEW at, NEW e, Inserted(b, c, at, e), UseHeadless(c), e.k # "use"
  PROVE  UseHeadless(b)
<1>1. PICK i \in DOMAIN c : c[i].k = "use" /\ \A j \in 1 .. i - 1 : c[j].k # "create"
  BY DEF UseHeadless
<1>2. /\ DOMAIN b = 1 .. Len(b) /\ DOMAIN c = 1 .. Len(b) + 1 /\ Len(b) \in Nat /\ at \in Nat
      /\ c[at + 1] = e
      /\ \A j \in DOMAIN b : Shift(at, j) \in DOMAIN c /\ c[Shift(at, j)] = b[j]
      /\ \A x \in DOMAIN c : x = at + 1 \/ \E j \in DOMAIN b : x = Shift(at, j)
  BY InsertedPlaces
<1>3. PICK j \in DOMAIN b : i = Shift(at, j)  BY <1>1, <1>2
<1>4. ASSUME NEW x \in 1 .. j - 1  PROVE b[x].k # "create"
  <2>1. x \in DOMAIN b /\ j \in Nat /\ x \in Nat /\ x < j  BY <1>2
  <2>2. Shift(at, x) < i /\ Shift(at, x) \in DOMAIN c /\ c[Shift(at, x)] = b[x]
    BY <1>2, <1>3, <2>1, ShiftOrder
  <2>3. Shift(at, x) \in 1 .. i - 1  BY <1>2, <2>2
  <2> QED  BY <1>1, <2>2, <2>3
<1> QED  BY <1>1, <1>2, <1>3, <1>4 DEF UseHeadless

LEMMA KeepsUses ==
  ASSUME NEW b \in Seq(Stmts), NEW c, NEW N, Keeps(b, c, N), UseHeadless(c)
  PROVE  UseHeadless(b)
<1>1. DOMAIN b = 1 .. Len(b) /\ Len(b) \in Nat  BY LenProperties
<1>2. DOMAIN c = DOMAIN b /\ \A i \in DOMAIN b : c[i].k = b[i].k  BY DEF Keeps, Touched
<1>3. PICK i \in DOMAIN c : c[i].k = "use" /\ \A j \in 1 .. i - 1 : c[j].k # "create"
  BY DEF UseHeadless
<1>4. \A j \in 1 .. i - 1 : j \in DOMAIN b  BY <1>1, <1>2
<1> QED  BY <1>2, <1>3, <1>4 DEF UseHeadless

\* A mark that wire's statement pushes out of instrument's sight is pushed by one that stands
\* where no router has been created yet.
LEMMA InsertInSight ==
  ASSUME NEW b, NEW c, NEW at, NEW e, Inserted(b, c, at, e), e.k = "middleware",
         at # 0 => b[at].k \in Spots, Ordered(b), IsAlreadyInstrumented(b)
  PROVE  IsAlreadyInstrumented(c) \/ Headless(c)
<1>1. PICK j \in DOMAIN b : j <= 3 /\ b[j].k \in Marks  BY DEF IsAlreadyInstrumented, Marks
<1>2. /\ DOMAIN b = 1 .. Len(b) /\ DOMAIN c = 1 .. Len(b) + 1 /\ Len(b) \in Nat
      /\ at \in 0 .. Len(b) /\ at + 1 \in DOMAIN c /\ c[at + 1] = e
      /\ \A i \in 1 .. at : c[i] = b[i]
  <2>1. at \in 0 .. Len(b) /\ \A i \in 1 .. at : c[i] = b[i]  BY DEF Inserted
  <2> QED  BY <2>1, InsertedPlaces
<1>3. CASE j <= at
  <2>1. j \in DOMAIN c /\ c[j] = b[j]  BY <1>2, <1>3
  <2> QED  BY <1>1, <2>1 DEF IsAlreadyInstrumented, Marks
<1>4. CASE at < j /\ at = 0
  <2>1. \A i \in 1 .. (at + 1) - 1 : c[i].k # "create"  BY <1>4
  <2> QED  BY <1>2, <2>1 DEF Headless
<1>5. CASE at < j /\ at # 0
  <2>1. at \in DOMAIN b  BY <1>2, <1>5
  <2>2. \A i \in 1 .. at : b[i].k # "create"
    <3> SUFFICES ASSUME NEW i \in 1 .. at, b[i].k = "create"  PROVE FALSE  OBVIOUS
    <3>1. i \in DOMAIN b  BY <1>2
    <3>2. j < i  BY <1>1, <3>1 DEF Ordered
    <3> QED  BY <1>2, <1>5, <3>2
  <2>3. b[at].k \in {"use", "middleware"}
    <3>1. at \in 1 .. at  BY <1>2, <1>5
    <3> QED  BY <1>5, <2>2, <3>1 DEF Spots
  <2>4. at \in DOMAIN c /\ c[at] = b[at] /\ \A i \in 1 .. at - 1 : c[i] = b[i]
    BY <1>2, <1>5
  <2>5. \A i \in 1 .. at - 1 : c[i].k # "create"  BY <1>2, <2>2, <2>4
  <2> QED  BY <2>3, <2>4, <2>5 DEF Headless
<1> QED  BY <1>2, <1>3, <1>4, <1>5

\* Each injection finds what it looks for wired, once it is done.
LEMMA WrapListensWires ==
  ASSUME NEW b \in Seq(Stmts), NEW c, NEW app, HasKind(b, "listen")
  PROVE  HasHTTPWired(WrapListens(b, c, app))
<1>1. PICK w : w = WrapListens(b, c, app)  OBVIOUS
<1>2. PICK u \in SUBSET Packages : u = ServiceUses(c, app, FALSE)  BY ServiceUsesNames
<1>3. w = [i \in DOMAIN b |->
             IF b[i].k = "listen" /\ "HTTPMiddleware" \notin Elems(b[i].dv)
             THEN Hook(b[i], "HTTPMiddleware", u) ELSE b[i]]
  BY <1>1, <1>2 DEF WrapListens
<1>4. PICK i \in DOMAIN b : b[i].k = "listen"  BY DEF HasKind, Elems
<1>5. b[i] \in Stmts /\ "HTTPMiddleware" \in Library  BY StmtOf DEF Library
<1>6. "HTTPMiddleware" \in Elems(w[i].dv)
  <2>1. CASE "HTTPMiddleware" \in Elems(b[i].dv)
    <3>1. w[i] = b[i]  BY <1>3, <2>1
    <3> QED  BY <2>1, <3>1
  <2>2. CASE "HTTPMiddleware" \notin Elems(b[i].dv)
    <3>1. w[i] = Hook(b[i], "HTTPMiddleware", u)  BY <1>3, <1>4, <2>2
    <3>2. PICK N : N = {"HTTPMiddleware"}  OBVIOUS
    <3>3. "HTTPMiddleware" \in N /\ b[i].k \notin {"prerun", "execute"}  BY <1>4, <3>2
    <3>4. Elems(Hook(b[i], "HTTPMiddleware", u).dv) = Elems(b[i].dv) \cup {"HTTPMiddleware"}
      BY <1>5, <2>2, <3>3, HookTouches
    <3> QED  BY <3>1, <3>4
  <2> QED  BY <2>1, <2>2
<1>7. w[i] \in Elems(w)  BY <1>3 DEF Elems
<1> QED  BY <1>1, <1>6, <1>7 DEF HasHTTPWired, Calls

LEMMA InjectInterceptorsWires ==
  ASSUME NEW b \in Seq(Stmts), NEW N, Keeps(b, InjectInterceptors(b), N), HasKind(b, "grpc")
  PROVE  HasGRPCWired(InjectInterceptors(b))
<1>1. PICK w : w = InjectInterceptors(b)  OBVIOUS
<1>3. w = [i \in DOMAIN b |->
             IF b[i].k = "grpc" /\ "UnaryServerInterceptor" \notin Elems(b[i].dv)
             THEN Hook(Hook(b[i], "UnaryServerInterceptor", {}),
                       "StreamServerInterceptor", {})
             ELSE b[i]]
  BY <1>1 DEF InjectInterceptors
<1>4. PICK i \in DOMAIN b : b[i].k = "grpc"  BY DEF HasKind, Elems
<1>5. /\ b[i] \in Stmts /\ "UnaryServerInterceptor" \in Library
      /\ "StreamServerInterceptor" \in Library /\ {} \in SUBSET Packages
  BY StmtOf DEF Library
<1>6. \/ "UnaryServerInterceptor" \in Elems(w[i].dv)
      \/ "StreamServerInterceptor" \in Elems(w[i].dv)
  <2>1. CASE "UnaryServerInterceptor" \in Elems(b[i].dv)
    <3>1. w[i] = b[i]  BY <1>3, <2>1
    <3> QED  BY <2>1, <3>1
  <2>2. CASE "UnaryServerInterceptor" \notin Elems(b[i].dv)
    <3>1. PICK M : M = {"UnaryServerInterceptor", "StreamServerInterceptor"}  OBVIOUS
    <3>2. b[i].k \notin {"prerun", "execute"}  BY <1>4
    <3>3. PICK h : h = Hook(b[i], "UnaryServerInterceptor", {})  OBVIOUS
    <3>4. /\ h \in Stmts /\ h.k = b[i].k
          /\ Elems(h.dv) = Elems(b[i].dv) \cup {"UnaryServerInterceptor"}
      BY <1>5, <2>2, <3>1, <3>2, <3>3, HookTouches
    <3>5. w[i] = Hook(h, "StreamServerInterceptor", {})  BY <1>3, <1>4, <2>2, <3>3
    <3>6. CASE "StreamServerInterceptor" \notin Elems(h.dv)
      <4>1. Elems(Hook(h, "StreamServerInterceptor", {}).dv)
              = Elems(h.dv) \cup {"StreamServerInterceptor"}
        BY <1>5, <3>1, <3>2, <3>4, <3>6, HookTouches
      <4> QED  BY <3>5, <4>1
    <3>7. CASE "StreamServerInterceptor" \in Elems(h.dv)
      <4>1. PICK d : d = h.dv  OBVIOUS
      <4>2. w[i] = [h EXCEPT !.dv = Append(d, "StreamServerInterceptor"),
                             !.uses = h.uses \cup {} \cup {"debugviz"}]
        BY <3>5, <4>1 DEF Hook
      <4>3. w[i].dv = Append(d, "StreamServerInterceptor")  BY <3>4, <4>2 DEF Stmts
      <4>4. d \in Seq(Library)  BY <3>4, <4>1 DEF Stmts
      <4>5. PICK x : x = Append(d, "StreamServerInterceptor")  OBVIOUS
      <4>6. x \in Seq(Library) /\ Len(x) = Len(d) + 1 /\ x[Len(d) + 1] = "StreamServerInterceptor"
        BY <1>5, <4>4, <4>5, AppendProperties
      <4>7. Len(d) + 1 \in DOMAIN x  BY <4>4, <4>6, LenProperties
      <4> QED  BY <4>3, <4>5, <4>6, <4>7 DEF Elems
    <3> QED  BY <3>6, <3>7
  <2> QED  BY <2>1, <2>2
<1>7. w[i] \in Elems(w)  BY <1>3 DEF Elems
<1> QED  BY <1>1, <1>6, <1>7 DEF HasGRPCWired, Calls

LEMMA InjectCLIRunWires ==
  ASSUME NEW b \in Seq(Stmts), CanRunCLI(b)
  PROVE  HasCLIWired(InjectCLIRun(b))
<1>1. PICK n \in Nat : n = Len(b)  BY LenProperties
<1>2. DOMAIN b = 1 .. n  BY <1>1, LenProperties
<1>3. PICK S \in SUBSET (1 .. n) :
        S = {i \in 1 .. n : IsExecute(b[i]) /\ "RunCLI" \notin Elems(b[i].dv)}
  OBVIOUS
<1>4. S # {}  BY <1>2, <1>3 DEF Elems, CanRunCLI
<1>5. \E i \in S : \A j \in 1 .. i - 1 : j \notin S  BY <1>4, FirstPlace
<1>6. \E i \in DOMAIN b :
        (IsExecute(b[i]) /\ "RunCLI" \notin Elems(b[i].dv))
        /\ \A j \in 1 .. i - 1 : ~(IsExecute(b[j]) /\ "RunCLI" \notin Elems(b[j].dv))
  BY <1>2, <1>3, <1>5
<1>7. PICK i : i = CHOOSE x \in DOMAIN b :
        (IsExecute(b[x]) /\ "RunCLI" \notin Elems(b[x].dv))
        /\ \A j \in 1 .. x - 1 : ~(IsExecute(b[j]) /\ "RunCLI" \notin Elems(b[j].dv))
  OBVIOUS
<1>8. i \in DOMAIN b  BY <1>6, <1>7
<1>9. PICK c : c = InjectPreRun(b)  OBVIOUS
<1>10. c \in Seq(Stmts) /\ i \in DOMAIN c  BY <1>8, <1>9, InjectPreRunKeeps DEF Keeps
<1>11. c[i] \in Stmts  BY <1>10, StmtOf
<1>12. PICK d : d = <<"RunCLI">>  OBVIOUS
<1>13. "RunCLI" \in Elems(d)
  <2>1. 1 \in DOMAIN d /\ d[1] = "RunCLI"  BY <1>12
  <2> QED  BY <2>1 DEF Elems
<1>14. PICK t : t = RunByLibrary(c[i])  OBVIOUS
<1>15. t.dv = d
  <2>1. PICK u : u = {"debugviz", "context", "fmt", "os"}  OBVIOUS
  <2>2. t = [c[i] EXCEPT !.dv = d, !.uses = u]  BY <1>12, <1>14, <2>1 DEF RunByLibrary
  <2> QED  BY <1>11, <2>2 DEF Stmts
<1>16. PICK w : w = [c EXCEPT ![i] = t]  OBVIOUS
<1>17. InjectCLIRun(b) = w
  BY <1>7, <1>9, <1>14, <1>16 DEF InjectCLIRun, FirstIndex
<1>18. i \in DOMAIN w /\ w[i] = t  BY <1>10, <1>16
<1>19. t \in Elems(w)  BY <1>18 DEF Elems
<1> QED  BY <1>13, <1>15, <1>17, <1>19 DEF HasCLIWired, Calls

LEMMA InjectJobWires ==
  ASSUME NEW b \in Seq(Stmts), NEW job \in Names, CanRunJob(b)
  PROVE  HasJobWired(InjectJob(b, job), job)
<1>1. PICK w : w = InjectJob(b, job)  OBVIOUS
<1>2. w = [i \in DOMAIN b |->
             IF Unwrapped(b[i])
             THEN [Hook(ContextAlone(b[i]), "RunJob", {"context"}) EXCEPT !.job = job]
             ELSE b[i]]
  BY <1>1 DEF InjectJob
<1>3. PICK i \in DOMAIN b : Unwrapped(b[i])  BY DEF CanRunJob, Elems
<1>4. b[i] \in Stmts /\ "RunJob" \in Library /\ {"context"} \in SUBSET Packages
  BY StmtOf DEF Library, Packages
<1>5. PICK h : h = Hook(ContextAlone(b[i]), "RunJob", {"context"})  OBVIOUS
<1>6. h \in Stmts /\ Elems(h.dv) = Elems(b[i].dv) \cup {"RunJob"}
  <2>1. PICK N : N = {"RunJob"}  OBVIOUS
  <2>2. "RunJob" \in N /\ b[i].k = "process" /\ "RunJob" \notin Elems(b[i].dv)
    BY <1>3, <2>1 DEF Unwrapped
  <2>3. PICK g : g = ContextAlone(b[i])  OBVIOUS
  <2>4. g \in Stmts /\ g.dv = b[i].dv /\ g.k = "process"
    BY <1>4, <2>2, <2>3, ContextAloneTouches
  <2> QED  BY <1>4, <1>5, <2>2, <2>3, <2>4, HookTouches
<1>7. w[i] = [h EXCEPT !.job = job]  BY <1>2, <1>3, <1>5
<1>8. w[i].job = job /\ w[i].dv = h.dv  BY <1>6, <1>7 DEF Stmts
<1>9. w[i] \in Elems(w)  BY <1>2 DEF Elems
<1> QED  BY <1>1, <1>6, <1>8, <1>9 DEF HasJobWired

\* Every call is wrapped by the first job there is something to do for: no second one finds any.
LEMMA JobsOnce ==
  ASSUME NEW b \in Seq(Stmts), NEW job \in Names  PROVE ~CanRunJob(InjectJob(b, job))
<1>1. PICK w : w = InjectJob(b, job)  OBVIOUS
<1>2. w = [i \in DOMAIN b |->
             IF Unwrapped(b[i])
             THEN [Hook(ContextAlone(b[i]), "RunJob", {"context"}) EXCEPT !.job = job]
             ELSE b[i]]
  BY <1>1 DEF InjectJob
<1>3. ASSUME NEW i \in DOMAIN w, Unwrapped(w[i])  PROVE FALSE
  <2>1. i \in DOMAIN b  BY <1>2
  <2>2. CASE ~Unwrapped(b[i])
    <3>1. w[i] = b[i]  BY <1>2, <2>1, <2>2
    <3> QED  BY <1>3, <2>2, <3>1
  <2>3. CASE Unwrapped(b[i])
    <3>1. b[i] \in Stmts /\ "RunJob" \in Library /\ {"context"} \in SUBSET Packages
      BY <2>1, StmtOf DEF Library, Packages
    <3>2. PICK h : h = Hook(ContextAlone(b[i]), "RunJob", {"context"})  OBVIOUS
    <3>3. h \in Stmts /\ Elems(h.dv) = Elems(b[i].dv) \cup {"RunJob"}
      <4>1. PICK N : N = {"RunJob"}  OBVIOUS
      <4>2. "RunJob" \in N /\ b[i].k = "process" /\ "RunJob" \notin Elems(b[i].dv)
        BY <2>3, <4>1 DEF Unwrapped
      <4>3. PICK g : g = ContextAlone(b[i])  OBVIOUS
      <4>4. g \in Stmts /\ g.dv = b[i].dv /\ g.k = "process"
        BY <3>1, <4>2, <4>3, ContextAloneTouches
      <4>5. g.k \notin {"prerun", "execute"} /\ "RunJob" \notin Elems(g.dv)  BY <4>2, <4>4
      <4>6. h = Hook(g, "RunJob", {"context"})  BY <3>2, <4>3
      <4>7. h \in Stmts /\ Elems(h.dv) = Elems(g.dv) \cup {"RunJob"}
        BY <3>1, <4>2, <4>4, <4>5, <4>6, HookTouches
      <4> QED  BY <4>4, <4>7
    <3>4. w[i] = [h EXCEPT !.job = job]  BY <1>2, <2>1, <2>3, <3>2
    <3>5. w[i].dv = h.dv  BY <3>3, <3>4 DEF Stmts
    <3>6. "RunJob" \in Elems(w[i].dv)  BY <3>3, <3>5
    <3> QED  BY <1>3, <3>6 DEF Unwrapped
  <2> QED  BY <2>2, <2>3
<1> QED  BY <1>1, <1>3 DEF CanRunJob, Elems

\* A call without a job is still there when other hooks are in.
LEMMA KeepsCanRunJob ==
  ASSUME NEW b, NEW c, NEW N, Keeps(b, c, N), "RunJob" \notin N, CanRunJob(b)
  PROVE  CanRunJob(c)
<1>1. PICK i \in DOMAIN b : b[i].k = "process" /\ "RunJob" \notin Elems(b[i].dv)
  BY DEF CanRunJob, Unwrapped, Elems
<1>2. i \in DOMAIN c /\ Touched(b[i], c[i], N)  BY DEF Keeps
<1>3. Unwrapped(c[i])  BY <1>1, <1>2 DEF Unwrapped, Touched
<1> QED  BY <1>2, <1>3 DEF CanRunJob, Elems

NoJob == ""
LEMMA JobSteps ==
  ASSUME NEW b, NEW jobs \in Seq(Names)
  PROVE  \A n \in 0 .. Len(jobs) :
           JobBodies(b, jobs)[n] =
             IF n = 0 THEN b
             ELSE IF jobs[n] = NoJob THEN JobBodies(b, jobs)[n - 1]
             ELSE InjectJob(JobBodies(b, jobs)[n - 1], jobs[n])
BY JobBodiesStep DEF NoJob

LEMMA JobsPassed ==
  ASSUME NEW b \in Seq(Stmts), NEW jobs \in Seq(Names), NEW N \in Nat, N = Len(jobs),
         NEW h, h = JobBodies(b, jobs)
  PROVE  \A m \in 0 .. N : /\ h[m] \in Seq(Stmts)
                           /\ CanRunJob(h[m]) => \A x \in 1 .. m : jobs[x] = NoJob
<1>2. \A n \in 1 .. N : jobs[n] \in Names  BY ElementOfSeq
<1>4. \A n \in 0 .. N : h[n] = IF n = 0 THEN b
                               ELSE IF jobs[n] = NoJob THEN h[n - 1]
                               ELSE InjectJob(h[n - 1], jobs[n])
  BY JobSteps
<1>5. PICK S \in SUBSET Nat : S = {m \in Nat : m <= N =>
                /\ h[m] \in Seq(Stmts)
                /\ CanRunJob(h[m]) => \A x \in 1 .. m : jobs[x] = NoJob}
  OBVIOUS
<1>6. 0 \in S
  <2>1. h[0] = b
    <3>1. 0 \in 0 .. N  OBVIOUS
    <3> QED  BY <1>4, <3>1
  <2>2. \A x \in 1 .. 0 : jobs[x] = NoJob  OBVIOUS
  <2> QED  BY <1>5, <2>1, <2>2
<1>7. ASSUME NEW n \in Nat, n \in S  PROVE n + 1 \in S
  <2> SUFFICES ASSUME n + 1 <= N
               PROVE  /\ h[n + 1] \in Seq(Stmts)
                      /\ CanRunJob(h[n + 1]) => \A x \in 1 .. n + 1 : jobs[x] = NoJob
    BY <1>5
  <2>1. PICK z : z = n + 1  OBVIOUS
  <2>2. z \in 1 .. N /\ z \in 0 .. N /\ z # 0 /\ z - 1 = n /\ n <= N  BY <2>1
  <2>3. h[n] \in Seq(Stmts) /\ (CanRunJob(h[n]) => \A x \in 1 .. n : jobs[x] = NoJob)
    BY <1>5, <1>7, <2>2
  <2>4. h[z] = IF jobs[z] = NoJob THEN h[n] ELSE InjectJob(h[n], jobs[z])
    <3>1. h[z] = IF z = 0 THEN b
                 ELSE IF jobs[z] = NoJob THEN h[z - 1] ELSE InjectJob(h[z - 1], jobs[z])
      BY <1>4, <2>2
    <3> QED  BY <2>2, <3>1
  <2>5. PICK job \in Names : job = jobs[z]  BY <1>2, <2>2
  <2>6. CASE jobs[z] = NoJob
    <3>1. h[z] = h[n]  BY <2>4, <2>6
    <3>2. \A x \in 1 .. n + 1 : x \in 1 .. n \/ x = z  BY <2>1
    <3> QED  BY <2>1, <2>3, <2>6, <3>1, <3>2
  <2>7. CASE jobs[z] # NoJob
    <3>1. h[z] = InjectJob(h[n], job)  BY <2>4, <2>5, <2>7
    <3>2. ~CanRunJob(h[z])  BY <2>3, <3>1, JobsOnce
    <3>3. Keeps(h[n], h[z], {"RunJob"})  BY <2>3, <3>1, InjectJobKeeps
    <3>4. h[z] \in Seq(Stmts)  BY <3>3 DEF Keeps
    <3> QED  BY <2>1, <3>2, <3>4
  <2> QED  BY <2>6, <2>7
<1>8. \A m \in Nat : m \in S
  <2>1. Nat \subseteq S  BY <1>6, <1>7, SetInduction
  <2> QED  BY <2>1
<1>9. ASSUME NEW m \in 0 .. N
      PROVE  h[m] \in Seq(Stmts) /\ (CanRunJob(h[m]) => \A x \in 1 .. m : jobs[x] = NoJob)
  <2>1. m \in Nat /\ m <= N  OBVIOUS
  <2> QED  BY <1>5, <1>8, <2>1
<1> QED  BY <1>9

\* A job that main could take before the other hooks were in has its call.
LEMMA JobsWire ==
  ASSUME NEW b \in Seq(Stmts), NEW c \in Seq(Stmts), NEW jobs \in Seq(Names),
         CanRunJobs(b, jobs), CanRunJob(b) => CanRunJob(c), AllReplaceable(c),
         NEW n \in 1 .. Len(jobs), jobs[n] # NoJob
  PROVE  HasJobWired(InjectJobs(c, jobs), jobs[n])
<1>1. PICK N \in Nat : N = Len(jobs)  BY LenProperties
<1>2. \A x \in 1 .. N : jobs[x] \in Names  BY <1>1, ElementOfSeq
<1>3. PICK h : h = JobBodies(b, jobs)  OBVIOUS
<1>4. PICK k : k = JobBodies(c, jobs)  OBVIOUS
<1>5. n \in 1 .. N /\ n - 1 \in 0 .. N  BY <1>1
<1>6. CanRunJob(h[n - 1])  BY <1>3 DEF CanRunJobs, NoJob
<1>7. \A x \in 1 .. n - 1 : jobs[x] = NoJob
  BY <1>1, <1>3, <1>5, <1>6, JobsPassed
<1>8. CanRunJob(c)
  <2>1. 0 \in 0 .. N /\ \A x \in 0 .. N : h[x] = IF x = 0 THEN b
                               ELSE IF jobs[x] = NoJob THEN h[x - 1]
                               ELSE InjectJob(h[x - 1], jobs[x])
    BY <1>1, <1>3, JobSteps
  <2>2. PICK S \in SUBSET Nat : S = {x \in Nat : x <= n - 1 => h[x] = b}  OBVIOUS
  <2>3. 0 \in S  BY <2>1, <2>2
  <2>4. ASSUME NEW x \in Nat, x \in S  PROVE x + 1 \in S
    <3> SUFFICES ASSUME x + 1 <= n - 1  PROVE h[x + 1] = b  BY <2>2
    <3>1. PICK z : z = x + 1  OBVIOUS
    <3>2. z \in 0 .. N /\ z # 0 /\ z - 1 = x /\ z \in 1 .. n - 1 /\ x <= n - 1
      BY <1>5, <3>1
    <3>3. h[x] = b /\ jobs[z] = NoJob  BY <1>7, <2>2, <2>4, <3>2
    <3>4. h[z] = IF z = 0 THEN b ELSE IF jobs[z] = NoJob THEN h[z - 1]
                 ELSE InjectJob(h[z - 1], jobs[z])
      BY <2>1, <3>2
    <3> QED  BY <3>1, <3>2, <3>3, <3>4
  <2>5. n - 1 \in S
    <3>1. n - 1 \in Nat  BY <1>5
    <3> QED  BY <2>3, <2>4, <3>1, SetInduction
  <2>6. h[n - 1] = b
    <3>1. n - 1 \in Nat /\ n - 1 <= n - 1  BY <1>5
    <3> QED  BY <2>2, <2>5, <3>1
  <2> QED  BY <1>6, <2>6
<1>9. \A x \in 0 .. N : k[x] = IF x = 0 THEN c
                               ELSE IF jobs[x] = NoJob THEN k[x - 1]
                               ELSE InjectJob(k[x - 1], jobs[x])
  BY <1>1, <1>4, JobSteps
<1>10. PICK job \in Names : job = jobs[n]  BY <1>2, <1>5
<1>11. PICK S \in SUBSET Nat : S = {x \in Nat : x <= N =>
          /\ k[x] \in Seq(Stmts) /\ AllReplaceable(k[x])
          /\ x < n => k[x] = c
          /\ n <= x => HasJobWired(k[x], job)}
  OBVIOUS
<1>12. 0 \in S
  <2>1. 0 \in 0 .. N /\ ~(n <= 0)  BY <1>5
  <2>2. k[0] = c  BY <1>9, <2>1
  <2> QED  BY <1>11, <2>1, <2>2
<1>13. ASSUME NEW x \in Nat, x \in S  PROVE x + 1 \in S
  <2> SUFFICES ASSUME x + 1 <= N
               PROVE  /\ k[x + 1] \in Seq(Stmts) /\ AllReplaceable(k[x + 1])
                      /\ x + 1 < n => k[x + 1] = c
                      /\ n <= x + 1 => HasJobWired(k[x + 1], job)
    BY <1>11
  <2>1. PICK z : z = x + 1  OBVIOUS
  <2>2. z \in 1 .. N /\ z \in 0 .. N /\ z # 0 /\ z - 1 = x /\ x <= N  BY <2>1
  <2>3. /\ k[x] \in Seq(Stmts) /\ AllReplaceable(k[x])
        /\ x < n => k[x] = c
        /\ n <= x => HasJobWired(k[x], job)
    BY <1>11, <1>13, <2>2
  <2>4. k[z] = IF jobs[z] = NoJob THEN k[x] ELSE InjectJob(k[x], jobs[z])
    <3>1. k[z] = IF z = 0 THEN c ELSE IF jobs[z] = NoJob THEN k[z - 1]
                 ELSE InjectJob(k[z - 1], jobs[z])
      BY <1>9, <2>2
    <3> QED  BY <2>2, <3>1
  <2>p. PICK p : p = k[x]  OBVIOUS
  <2>t. p \in Seq(Stmts)  BY <2>3, <2>p
  <2>q. PICK q : q = k[z]  OBVIOUS
  <2>5. Keeps(p, q, {"RunJob"})
    <3>1. PICK j \in Names : j = jobs[z]  BY <1>2, <2>2
    <3>2. q = p \/ q = InjectJob(p, j)  BY <2>4, <2>p, <2>q, <3>1
    <3>3. CASE q = p  BY <2>t, <3>3, KeepsAtLeast
    <3>4. CASE q = InjectJob(p, j)  BY <2>t, <3>4, InjectJobKeeps
    <3> QED  BY <3>2, <3>3, <3>4
  <2>6. k[z] \in Seq(Stmts) /\ AllReplaceable(k[z])
        /\ (HasJobWired(k[x], job) => HasJobWired(k[z], job))
    <3>1. PICK R : R = {"RunJob"}  OBVIOUS
    <3>2. Keeps(p, q, R) /\ q \in Seq(Stmts)  BY <2>5, <3>1 DEF Keeps
    <3>3. AllReplaceable(p)  BY <2>3, <2>p
    <3>4. AllReplaceable(q) /\ \A jb : HasJobWired(p, jb) => HasJobWired(q, jb)
      BY <3>2, <3>3, KeepsFinds
    <3> QED  BY <2>p, <2>q, <3>2, <3>4
  <2>7. CASE z < n
    <3>1. z \in 1 .. n - 1 /\ x < n /\ ~(n <= z) /\ z < n  BY <1>5, <2>2, <2>7
    <3>2. jobs[z] = NoJob /\ k[x] = c  BY <1>7, <2>3, <3>1
    <3>3. k[z] = c  BY <2>4, <3>2
    <3>4. x + 1 = z /\ (x + 1 < n <=> z < n) /\ (n <= x + 1 <=> n <= z)  BY <2>1
    <3> QED  BY <2>6, <3>1, <3>3, <3>4
  <2>8. CASE z = n
    <3>1. x < n /\ ~(z < n)  BY <2>2, <2>8
    <3>2. k[x] = c /\ jobs[z] # NoJob  BY <2>3, <2>8, <3>1
    <3>3. k[z] = InjectJob(c, job)  BY <1>10, <2>4, <2>8, <3>2
    <3>4. HasJobWired(k[z], job)  BY <1>8, <3>3, InjectJobWires
    <3> QED  BY <2>1, <2>6, <3>1, <3>4
  <2>9. CASE n < z
    <3>1. n <= x /\ ~(z < n)  BY <1>5, <2>2, <2>9
    <3> QED  BY <2>1, <2>3, <2>6, <3>1
  <2> QED  BY <1>5, <2>2, <2>7, <2>8, <2>9
<1>14. N \in S  BY <1>12, <1>13, SetInduction
<1>15. HasJobWired(k[N], job)  BY <1>5, <1>11, <1>14
<1> QED  BY <1>1, <1>4, <1>10, <1>15 DEF InjectJobs

-------------------------------------------------------------------------------
(* What either command leaves of a file for the other to find.               *)

BodyAlike(b, c) ==
  /\ \A lib : (\E s \in Elems(c) : IsCreate(s, lib)) <=> \E s \in Elems(b) : IsCreate(s, lib)
  /\ AllReplaceable(b) => AllReplaceable(c)
  /\ Headless(b) => Headless(c)
  /\ UseHeadless(c) => UseHeadless(b)
FuncAlike(f, g) ==
  /\ g.name = f.name /\ g.param = f.param /\ g.skip = f.skip
  /\ BodyAlike(f.body, g.body)
  /\ f.name # "main" /\ Ordered(f.body) => Ordered(g.body)
Alike(f, g) ==
  /\ DOMAIN g.funcs = DOMAIN f.funcs /\ SameHeader(f, g)
  /\ \A i \in DOMAIN f.funcs : FuncAlike(f.funcs[i], g.funcs[i])

LEMMA KeepsAlike ==
  ASSUME NEW b \in Seq(Stmts), NEW c, NEW N, Keeps(b, c, N)  PROVE BodyAlike(b, c)
<1>1. \A lib : (\E s \in Elems(c) : IsCreate(s, lib)) <=> \E s \in Elems(b) : IsCreate(s, lib)
  BY KeepsFinds
<1>2. AllReplaceable(b) => AllReplaceable(c)  BY KeepsFinds
<1>3. Headless(b) => Headless(c)  BY KeepsHeadless
<1>4. UseHeadless(c) => UseHeadless(b)  BY KeepsUses
<1> QED  BY <1>1, <1>2, <1>3, <1>4 DEF BodyAlike

LEMMA InsertAlike ==
  ASSUME NEW b, NEW c, NEW at, NEW e, Inserted(b, c, at, e),
         e.k \notin {"prerun", "execute", "create", "build", "use"}
  PROVE  BodyAlike(b, c)
<1>1. Replaceable(e) /\ \A lib : ~IsCreate(e, lib)  BY DEF Replaceable, IsCreate
<1>2. \A lib : (\E s \in Elems(c) : IsCreate(s, lib)) <=> \E s \in Elems(b) : IsCreate(s, lib)
  BY <1>1, InsertFinds
<1>3. AllReplaceable(b) => AllReplaceable(c)  BY <1>1, InsertFinds
<1>4. Headless(b) => Headless(c)  BY InsertHeadless
<1>5. UseHeadless(c) => UseHeadless(b)  BY InsertUses
<1> QED  BY <1>2, <1>3, <1>4, <1>5 DEF BodyAlike

LEMMA AlikeFurther ==
  ASSUME NEW b, NEW c, NEW d, BodyAlike(b, c), BodyAlike(c, d)  PROVE BodyAlike(b, d)
<1>1. \A lib : (\E s \in Elems(d) : IsCreate(s, lib)) <=> \E s \in Elems(b) : IsCreate(s, lib)
  BY DEF BodyAlike
<1> QED  BY <1>1 DEF BodyAlike

LEMMA SameAlike == ASSUME NEW f  PROVE Alike(f, f)
BY DEF Alike, SameHeader, FuncAlike, BodyAlike

LEMMA OneReplacedAlike ==
  ASSUME NEW f, NEW g, NEW i, OneReplaced(f, g, i),
         BodyAlike(f.funcs[i].body, g.funcs[i].body),
         f.funcs[i].name # "main" /\ Ordered(f.funcs[i].body) => Ordered(g.funcs[i].body)
  PROVE  Alike(f, g)
<1>1. DOMAIN g.funcs = DOMAIN f.funcs /\ SameHeader(f, g) /\ i \in DOMAIN f.funcs  BY DEF OneReplaced
<1>2. ASSUME NEW j \in DOMAIN f.funcs  PROVE FuncAlike(f.funcs[j], g.funcs[j])
  <2>1. CASE j = i
    <3>1. /\ g.funcs[i].name = f.funcs[i].name /\ g.funcs[i].param = f.funcs[i].param
          /\ g.funcs[i].skip = f.funcs[i].skip
      BY RebodiedHead DEF OneReplaced
    <3> QED  BY <2>1, <3>1 DEF FuncAlike
  <2>2. CASE j # i
    <3>1. g.funcs[j] = f.funcs[j]  BY <2>2 DEF OneReplaced
    <3> QED  BY <3>1 DEF FuncAlike, BodyAlike
  <2> QED  BY <2>1, <2>2
<1> QED  BY <1>1, <1>2 DEF Alike

LEMMA ApplyMainAlike ==
  ASSUME NEW b \in Seq(Stmts), NEW c, NEW app, NEW plan,
         NEW b1, NEW b2, NEW b3, NEW b4, NEW b5, Steps(b, c, app, plan, b1, b2, b3, b4, b5)
  PROVE  BodyAlike(b, b1) /\ BodyAlike(b, b5)
<1>1. b1 \in Seq(Stmts) /\ Keeps(b1, b5, HookNames)  BY StepsKeep
<1>2. BodyAlike(b1, b5)  BY <1>1, KeepsAlike
<1>3. BodyAlike(b, b1)
  <2>1. b1 = IF "configure" \in plan.hooks THEN <<ConfigureStmt>> \o b ELSE b  BY DEF Steps
  <2>2. CASE "configure" \in plan.hooks
    <3>1. b1 = <<ConfigureStmt>> \o b  BY <2>1, <2>2
    <3>2. Inserted(b, b1, 0, ConfigureStmt)  BY <3>1, HeadInserts, ConfigureStmtOne
    <3>3. ConfigureStmt.k \notin {"prerun", "execute", "create", "build", "use"}  BY ConfigureStmtOne
    <3> QED  BY <3>2, <3>3, InsertAlike
  <2>3. CASE "configure" \notin plan.hooks
    <3>1. b1 = b  BY <2>1, <2>3
    <3> QED  BY <3>1 DEF BodyAlike
  <2> QED  BY <2>2, <2>3
<1> QED  BY <1>2, <1>3, AlikeFurther

LEMMA WireAlike ==
  ASSUME NEW f \in Files, NEW c, c.jobs \in Seq(Names), NEW isMain, isMain \in BOOLEAN,
         ~WireFails(f, c, isMain), NEW g, g = WireFile(f, c, isMain)
  PROVE  g \in Files /\ Alike(f, g)
<1>1. PICK plan : plan = PlanOf(f, c, isMain)  OBVIOUS
<1>2. CASE ~HasChanges(plan)
  <2>1. g = f  BY <1>1, <1>2 DEF WireFile
  <2> QED  BY <2>1, SameAlike
<1>3. CASE HasChanges(plan) /\ isMain
  <2>1. plan = AnalyzeMain(f, c)  BY <1>1, <1>3 DEF PlanOf
  <2>2. PICK i : i = MainIndex(f)  OBVIOUS
  <2>3. g \in Files /\ MainWired(f, g, c, plan, i)  BY <1>3, <2>1, <2>2, WireMainParts
  <2>4. PICK b : b = f.funcs[i].body  OBVIOUS
  <2>5. PICK b5 : b5 = g.funcs[i].body  OBVIOUS
  <2>6. /\ OneReplaced(f, g, i) /\ f.funcs[i].name = "main" /\ b \in Seq(Stmts)
        /\ plan.jobs \in Seq(Names) /\ b5 = ApplyMain(b, c, f.app, plan)
        /\ "grpc" \in plan.hooks => ~HasGRPCWired(b)
        /\ "cli" \in plan.hooks => CanRunCLI(b)
    BY <2>3, <2>4, <2>5 DEF MainWired
  <2>7. PICK b1, b2, b3, b4 : Steps(b, c, f.app, plan, b1, b2, b3, b4, b5)
    BY <2>6, ApplyMainSteps
  <2>8. BodyAlike(b, b5)  BY <2>6, <2>7, ApplyMainAlike
  <2> QED  BY <2>3, <2>4, <2>5, <2>6, <2>8, OneReplacedAlike
<1>4. CASE HasChanges(plan) /\ ~isMain
  <2>1. plan = AnalyzeRouter(f)  BY <1>1, <1>4 DEF PlanOf
  <2>2. g \in Files /\ \E lib, i, at, e : RouterWired(f, g, lib, i, at, e)
    BY <1>4, <2>1, WireRouterParts
  <2>3. PICK lib, i, at, e : RouterWired(f, g, lib, i, at, e)  BY <2>2
  <2>4. PICK b, d : b = f.funcs[i].body /\ d = g.funcs[i].body  OBVIOUS
  <2>5. OneReplaced(f, g, i) /\ Inserted(b, d, at, e) /\ e.k = "middleware"
    BY <2>3, <2>4 DEF RouterWired
  <2>6. BodyAlike(b, d)
    <3>1. e.k \notin {"prerun", "execute", "create", "build", "use"}  BY <2>5
    <3> QED  BY <2>5, <3>1, InsertAlike
  <2>7. Ordered(b) => Ordered(d)
    <3>1. e.k # "create" /\ e.k \notin Marks  BY <2>5 DEF Marks
    <3> QED  BY <2>5, <3>1, InsertOrdered
  <2> QED  BY <2>2, <2>4, <2>5, <2>6, <2>7, OneReplacedAlike
<1> QED  BY <1>2, <1>3, <1>4

LEMMA InjectFuncAlike ==
  ASSUME NEW fn \in Funcs, NEW g, g = InjectFunc(fn)
  PROVE  /\ g \in Funcs /\ FuncAlike(fn, g) /\ IsAlreadyInstrumented(g.body)
         /\ \A name : Calls(fn.body, name) => Calls(g.body, name)
<1>1. PICK b1, s, d :
        /\ Inserted(fn.body, b1, 0, d) /\ d = DeferStmt
        /\ Inserted(b1, g.body, 0, s) /\ s = SpanStmt(fn.ctx)
        /\ g \in Funcs /\ g.name = fn.name /\ g.param = fn.param /\ g.skip = fn.skip
        /\ b1 \in Seq(Stmts) /\ g.body \in Seq(Stmts)
  BY InjectFuncParts
<1>2. d.k = "defer"  BY <1>1, DeferStmtOne
<1>3. s.k = "span"  BY <1>1, SpanStmtOne
<1>4. BodyAlike(fn.body, b1)  BY <1>1, <1>2, InsertAlike
<1>5. BodyAlike(b1, g.body)  BY <1>1, <1>3, InsertAlike
<1>6. BodyAlike(fn.body, g.body)  BY <1>4, <1>5, AlikeFurther
<1>7. Ordered(fn.body) => Ordered(g.body)
  <2>1. Ordered(fn.body) => Ordered(b1)  BY <1>1, <1>2, InsertOrdered
  <2>2. Ordered(b1) => Ordered(g.body)  BY <1>1, <1>3, InsertOrdered
  <2> QED  BY <2>1, <2>2
<1>8. IsAlreadyInstrumented(g.body)
  <2>1. 0 + 1 \in DOMAIN g.body /\ g.body[0 + 1] = s  BY <1>1, InsertedPlaces
  <2>2. 1 \in DOMAIN g.body /\ g.body[1].k = "span"  BY <1>3, <2>1
  <2> QED  BY <2>2 DEF IsAlreadyInstrumented
<1>9. ASSUME NEW name, Calls(fn.body, name)  PROVE Calls(g.body, name)
  <2>1. Calls(b1, name)  BY <1>1, <1>9, InsertFinds
  <2> QED  BY <1>1, <2>1, InsertFinds
<1> QED  BY <1>1, <1>6, <1>7, <1>8, <1>9 DEF FuncAlike

\* What instrument makes of a file, function by function.
SpansImport(f, c) ==
  When("debugviz", \E i \in DOMAIN f.funcs : IsCandidate(f.funcs[i], c))
  \cup When("context", \E i \in DOMAIN f.funcs :
                        IsCandidate(f.funcs[i], c) /\ f.funcs[i].ctx = "none")
Spanned(f, g, c) ==
  /\ g \in Files /\ DOMAIN g.funcs = DOMAIN f.funcs /\ SameHeader(f, g)
  /\ g.imports = f.imports \cup SpansImport(f, c)
  /\ f.imports \subseteq g.imports /\ g.imports \subseteq f.imports \cup {"debugviz", "context"}
  /\ \A i \in DOMAIN f.funcs :
       /\ f.funcs[i] \in Funcs
       /\ g.funcs[i] = IF IsCandidate(f.funcs[i], c) THEN InjectFunc(f.funcs[i])
                       ELSE f.funcs[i]

LEMMA InstrumentParts ==
  ASSUME NEW f \in Files, NEW c, NEW g, g = InstrumentFile(f, c)
  PROVE  Spanned(f, g, c)
<1>1. PICK C \in SUBSET DOMAIN f.funcs : C = {i \in DOMAIN f.funcs : IsCandidate(f.funcs[i], c)}
  OBVIOUS
<1>2. PICK m \in Nat : m = Len(f.funcs) /\ DOMAIN f.funcs = 1 .. m  BY FileParts
<1>3. PICK s : s = f.funcs  OBVIOUS
<1>4. \A i \in 1 .. m : s[i] \in Funcs  BY <1>2, <1>3, FileParts
<1>5. CASE C = {}
  <2>1. g = f  BY <1>1, <1>5 DEF InstrumentFile
  <2>2. \A i \in DOMAIN f.funcs : ~IsCandidate(f.funcs[i], c)  BY <1>1, <1>5
  <2>3. SpansImport(f, c) = {}  BY <2>2 DEF SpansImport, When
  <2> QED  BY <1>2, <1>3, <1>4, <2>1, <2>2, <2>3 DEF Spanned, SameHeader
<1>6. CASE C # {}
  <2>4. PICK t : t = [i \in DOMAIN s |-> IF i \in C THEN InjectFunc(s[i]) ELSE s[i]]  OBVIOUS
  <2>5. ASSUME NEW i \in 1 .. m
        PROVE  t[i] \in Funcs /\ t[i] = IF i \in C THEN InjectFunc(s[i]) ELSE s[i]
    <3>1. s[i] \in Funcs /\ i \in DOMAIN s  BY <1>2, <1>3, <1>4
    <3>2. CASE i \in C
      <4>1. t[i] = InjectFunc(s[i])  BY <2>4, <3>1, <3>2
      <4>2. InjectFunc(s[i]) \in Funcs  BY <3>1, InjectFuncAlike
      <4> QED  BY <3>2, <4>1, <4>2
    <3>3. CASE i \notin C  BY <2>4, <3>1, <3>3
    <3> QED  BY <3>2, <3>3
  <2>6. DOMAIN t = 1 .. m /\ t \in [1 .. m -> Funcs]
    <3>1. DOMAIN t = 1 .. m /\ t = [i \in 1 .. m |-> t[i]]  BY <1>2, <1>3, <2>4
    <3> QED  BY <2>5, <3>1
  <2>7. t \in Seq(Funcs)  BY <2>6, SeqDef
  <2>8. PICK u : u = f.imports \cup SpanImports({f.funcs[i] : i \in C})  OBVIOUS
  <2>9. /\ u \in SUBSET Packages /\ f.imports \subseteq u
        /\ u \subseteq f.imports \cup {"debugviz", "context"}
    <3>1. PICK fns : fns = {f.funcs[i] : i \in C}  OBVIOUS
    <3>2. SpanImports(fns) \in SUBSET Packages /\ SpanImports(fns) \subseteq {"debugviz", "context"}
      BY DEF SpanImports, Packages
    <3>3. f.imports \in SUBSET Packages  BY DEF Files
    <3> QED  BY <2>8, <3>1, <3>2, <3>3
  <2>10. g = [f EXCEPT !.funcs = t, !.imports = u]
    BY <1>1, <1>6, <1>3, <2>4, <2>8 DEF InstrumentFile
  <2>11. /\ g \in Files /\ g.funcs = t /\ g.imports = u
         /\ g.skip = f.skip /\ g.app = f.app /\ g.mentions = f.mentions
    BY <2>7, <2>9, <2>10 DEF Files
  <2>12. \A i \in DOMAIN f.funcs :
           /\ f.funcs[i] \in Funcs
           /\ g.funcs[i] = IF IsCandidate(f.funcs[i], c) THEN InjectFunc(f.funcs[i]) ELSE f.funcs[i]
    <3> SUFFICES ASSUME NEW i \in DOMAIN f.funcs
                 PROVE  f.funcs[i] \in Funcs /\ g.funcs[i] = IF IsCandidate(f.funcs[i], c)
                                     THEN InjectFunc(f.funcs[i]) ELSE f.funcs[i]
      OBVIOUS
    <3>1. i \in C <=> IsCandidate(f.funcs[i], c)  BY <1>1
    <3> QED  BY <1>2, <1>3, <1>4, <2>5, <2>11, <3>1
  <2>13. SpanImports({f.funcs[i] : i \in C}) = SpansImport(f, c)
    <3>1. \E i \in DOMAIN f.funcs : IsCandidate(f.funcs[i], c)  BY <1>1, <1>6
    <3>2. PICK fns : fns = {f.funcs[i] : i \in C}  OBVIOUS
    <3>3. (\E fn \in fns : fn.ctx = "none")
            <=> \E i \in DOMAIN f.funcs : IsCandidate(f.funcs[i], c) /\ f.funcs[i].ctx = "none"
      BY <1>1, <3>2
    <3> QED  BY <3>1, <3>2, <3>3 DEF SpanImports, SpansImport, When
  <2>14. g.imports = f.imports \cup SpansImport(f, c)  BY <2>8, <2>11, <2>13
  <2> QED  BY <1>2, <2>6, <2>9, <2>11, <2>12, <2>14 DEF Spanned, SameHeader
<1> QED  BY <1>5, <1>6

LEMMA SpannedAlike ==
  ASSUME NEW f, NEW g, NEW c, Spanned(f, g, c)  PROVE Alike(f, g)
<1>1. DOMAIN g.funcs = DOMAIN f.funcs /\ SameHeader(f, g)  BY DEF Spanned
<1>2. ASSUME NEW i \in DOMAIN f.funcs  PROVE FuncAlike(f.funcs[i], g.funcs[i])
  <2>1. PICK fn, h : fn = f.funcs[i] /\ h = g.funcs[i]  OBVIOUS
  <2>2. fn \in Funcs /\ h = IF IsCandidate(fn, c) THEN InjectFunc(fn) ELSE fn
    BY <2>1 DEF Spanned
  <2>3. CASE h = InjectFunc(fn)  BY <2>1, <2>2, <2>3, InjectFuncAlike
  <2>4. CASE h = fn  BY <2>1, <2>4 DEF FuncAlike, BodyAlike
  <2> QED  BY <2>2, <2>3, <2>4
<1> QED  BY <1>1, <1>2 DEF Alike

-------------------------------------------------------------------------------
(* wire finds nothing to do in what it has written.                          *)

\* An analysis that calls for nothing, or for hooks that no call of main can take.
WiredMain(f, c) ==
  LET plan == AnalyzeMain(f, c)
  IN  HasChanges(plan) =>
        /\ HasMain(f) /\ plan.hooks \subseteq {"listen", "grpc"} /\ PlannedJobs(plan) = {}
        /\ \A h \in plan.hooks : ~HasKind(f.funcs[MainIndex(f)].body, h)
        /\ NeededImports(plan) \subseteq f.imports
WiredRouter(f) == ~HasChanges(AnalyzeRouter(f))
Wired(f, c, isMain) == IF isMain THEN WiredMain(f, c) ELSE WiredRouter(f)

LEMMA MainIndexLeast ==
  ASSUME NEW f \in Files, NEW i \in DOMAIN f.funcs, f.funcs[i].name = "main",
         \A j \in 1 .. i - 1 : f.funcs[j].name # "main"
  PROVE  HasMain(f) /\ MainIndex(f) = i
<1>1. HasMain(f)  BY DEF HasMain, IsMain, Elems
<1>2. PICK n \in Nat : n = Len(f.funcs) /\ DOMAIN f.funcs = 1 .. n  BY FileParts
<1>3. PICK m : m = MainIndex(f)  OBVIOUS
<1>4. /\ m \in 1 .. n /\ f.funcs[m].name = "main"
      /\ \A j \in 1 .. m - 1 : f.funcs[j].name # "main"
  BY <1>1, <1>2, <1>3, MainIndexIsMain
<1>5. ~(m < i)
  <2> SUFFICES ASSUME m < i  PROVE FALSE  OBVIOUS
  <2>1. m \in 1 .. i - 1  BY <1>2, <1>4
  <2> QED  BY <1>4, <2>1
<1>6. ~(i < m)
  <2> SUFFICES ASSUME i < m  PROVE FALSE  OBVIOUS
  <2>1. i \in 1 .. m - 1  BY <1>2, <1>4
  <2> QED  BY <1>4, <2>1
<1> QED  BY <1>1, <1>2, <1>3, <1>4, <1>5, <1>6

LEMMA SameMain ==
  ASSUME NEW f \in Files, NEW g \in Files, DOMAIN g.funcs = DOMAIN f.funcs,
         \A i \in DOMAIN f.funcs : g.funcs[i].name = f.funcs[i].name
  PROVE  /\ HasMain(g) <=> HasMain(f)
         /\ HasMain(f) => MainIndex(g) = MainIndex(f)
<1>1. HasMain(g) <=> HasMain(f)  BY DEF HasMain, IsMain, Elems
<1>2. ASSUME HasMain(f)  PROVE MainIndex(g) = MainIndex(f)
  <2>1. PICK n \in Nat : n = Len(f.funcs) /\ DOMAIN f.funcs = 1 .. n  BY FileParts
  <2>2. PICK i : i = MainIndex(f)  OBVIOUS
  <2>3. /\ i \in DOMAIN f.funcs /\ f.funcs[i].name = "main"
        /\ \A j \in 1 .. i - 1 : f.funcs[j].name # "main"
    BY <1>2, <2>2, MainIndexIsMain
  <2>4. \A j \in 1 .. i - 1 : j \in DOMAIN f.funcs  BY <2>1, <2>3
  <2>5. MainIndex(g) = i  BY <2>3, <2>4, MainIndexLeast
  <2> QED  BY <2>2, <2>5
<1> QED  BY <1>1, <1>2

\* The analysis of a main function, field by field.
LEMMA MainAnalysis ==
  ASSUME NEW f \in Files, NEW c, c.jobs \in Seq(Names), "wire" \notin f.skip, HasMain(f),
         NEW b, b = f.funcs[MainIndex(f)].body, NEW plan, plan = AnalyzeMain(f, c)
  PROVE  /\ plan.hooks = MainHooks(f, b, c)
         /\ plan.jobs \in Seq(Names) /\ Len(plan.jobs) = Len(c.jobs)
         /\ DOMAIN plan.jobs = 1 .. Len(c.jobs)
         /\ \A n \in 1 .. Len(c.jobs) :
              plan.jobs[n] = IF HasJobWired(b, c.jobs[n]) THEN NoJob ELSE c.jobs[n]
<1>1. PICK j : j = [n \in DOMAIN c.jobs |-> IF HasJobWired(b, c.jobs[n]) THEN NoJob ELSE c.jobs[n]]
  OBVIOUS
<1>2. plan = [hooks |-> MainHooks(f, b, c), jobs |-> j]  BY <1>1 DEF AnalyzeMain, NoJob
<1>3. plan.hooks = MainHooks(f, b, c) /\ plan.jobs = j  BY <1>2
<1>4. PICK n \in Nat : n = Len(c.jobs)  BY LenProperties
<1>5. DOMAIN c.jobs = 1 .. n /\ \A i \in 1 .. n : c.jobs[i] \in Names
  BY <1>4, LenProperties, ElementOfSeq
<1>6. NoJob \in Names  BY CodegenAssumption DEF NoJob
<1>7. j \in [1 .. n -> Names]  BY <1>1, <1>5, <1>6
<1>8. j \in Seq(Names) /\ Len(j) = n  BY <1>7, SeqDef, LenProperties
<1>9. \A i \in 1 .. n : j[i] = IF HasJobWired(b, c.jobs[i]) THEN NoJob ELSE c.jobs[i]
  BY <1>1, <1>5
<1> QED  BY <1>3, <1>4, <1>7, <1>8, <1>9

\* What a hook makes of main stays there through the others.
LEMMA StepsWire ==
  ASSUME NEW b \in Seq(Stmts), NEW c, NEW app, NEW plan, plan.jobs \in Seq(Names),
         NEW b1, NEW b2, NEW b3, NEW b4, NEW b5, Steps(b, c, app, plan, b1, b2, b3, b4, b5),
         AllReplaceable(b), CanRunJobs(b, plan.jobs)
  PROVE  /\ \A kind : kind # "other" => (HasKind(b5, kind) <=> HasKind(b, kind))
         /\ \A name : Calls(b, name) => Calls(b5, name)
         /\ \A job : HasJobWired(b, job) => HasJobWired(b5, job)
         /\ "configure" \in plan.hooks => HasConfigure(b5)
         /\ "listen" \in plan.hooks /\ HasKind(b, "listen") => HasHTTPWired(b5)
         /\ "grpc" \in plan.hooks /\ HasKind(b, "grpc") => HasGRPCWired(b5)
         /\ "cli" \in plan.hooks => HasCLIWired(b5)
         /\ \A n \in 1 .. Len(plan.jobs) : plan.jobs[n] # NoJob => HasJobWired(b5, plan.jobs[n])
<1>1. PICK M1, M2, M3, M4 :
        /\ M1 = {"HTTPMiddleware"}
        /\ M2 = {"UnaryServerInterceptor", "StreamServerInterceptor"}
        /\ M3 = {"CLICommandPreRun", "RunCLI"} /\ M4 = {"RunJob"}
  OBVIOUS
<1>2. /\ Keeps(b1, b2, M1) /\ Keeps(b2, b3, M2) /\ Keeps(b3, b4, M3) /\ Keeps(b4, b5, M4)
      /\ b1 \in Seq(Stmts) /\ b2 \in Seq(Stmts) /\ b3 \in Seq(Stmts) /\ b4 \in Seq(Stmts)
  BY <1>1 DEF Steps
<1>3. /\ AllReplaceable(b1)
      /\ \A kind : kind # "other" => (HasKind(b1, kind) <=> HasKind(b, kind))
      /\ \A name : Calls(b, name) => Calls(b1, name)
      /\ \A job : HasJobWired(b, job) => HasJobWired(b1, job)
      /\ "configure" \in plan.hooks => HasConfigure(b1)
      /\ CanRunJob(b) => CanRunJob(b1)
  <2>1. b1 = IF "configure" \in plan.hooks THEN <<ConfigureStmt>> \o b ELSE b  BY DEF Steps
  <2>2. CASE "configure" \in plan.hooks
    <3>1. PICK e : e = ConfigureStmt  OBVIOUS
    <3>2. e \in Stmts /\ e.k = "other" /\ "Configure" \in Elems(e.dv)  BY <3>1, ConfigureStmtOne
    <3>3. b1 = <<e>> \o b  BY <2>1, <2>2, <3>1
    <3>4. Inserted(b, b1, 0, e)  BY <3>2, <3>3, HeadInserts
    <3>5. Replaceable(e)  BY <3>2 DEF Replaceable
    <3>6. AllReplaceable(b1)  BY <3>4, <3>5, InsertFinds
    <3>7. \A kind : HasKind(b1, kind) <=> HasKind(b, kind) \/ e.k = kind  BY <3>4, InsertFinds
    <3>8. \A name : Calls(b1, name) <=> Calls(b, name) \/ name \in Elems(e.dv)
      BY <3>4, InsertFinds
    <3>9. \A job : HasJobWired(b, job) => HasJobWired(b1, job)  BY <3>4, InsertFinds
    <3>10. HasConfigure(b1)  BY <3>2, <3>8 DEF HasConfigure
    <3>11. CanRunJob(b) => CanRunJob(b1)
      <4>1. Elems(b1) = Elems(b) \cup {e}  BY <3>4, InsertElems
      <4> QED  BY <4>1 DEF CanRunJob
    <3> QED  BY <3>2, <3>6, <3>7, <3>8, <3>9, <3>10, <3>11
  <2>3. CASE "configure" \notin plan.hooks
    <3>1. b1 = b  BY <2>1, <2>3
    <3> QED  BY <2>3, <3>1
  <2> QED  BY <2>2, <2>3
<1>4. /\ AllReplaceable(b2) /\ \A kind : HasKind(b2, kind) <=> HasKind(b1, kind)
      /\ \A name : Calls(b1, name) => Calls(b2, name)
      /\ \A job : HasJobWired(b1, job) => HasJobWired(b2, job)
  BY <1>2, <1>3, KeepsFinds
<1>5. /\ AllReplaceable(b3) /\ \A kind : HasKind(b3, kind) <=> HasKind(b2, kind)
      /\ \A name : Calls(b2, name) => Calls(b3, name)
      /\ \A job : HasJobWired(b2, job) => HasJobWired(b3, job)
  BY <1>2, <1>4, KeepsFinds
<1>6. /\ AllReplaceable(b4) /\ \A kind : HasKind(b4, kind) <=> HasKind(b3, kind)
      /\ \A name : Calls(b3, name) => Calls(b4, name)
      /\ \A job : HasJobWired(b3, job) => HasJobWired(b4, job)
  BY <1>2, <1>5, KeepsFinds
<1>7. /\ \A kind : HasKind(b5, kind) <=> HasKind(b4, kind)
      /\ \A name : Calls(b4, name) => Calls(b5, name)
      /\ \A job : HasJobWired(b4, job) => HasJobWired(b5, job)
  BY <1>2, <1>6, KeepsFinds
<1>8. \A kind : kind # "other" => (HasKind(b5, kind) <=> HasKind(b, kind))
  BY <1>3, <1>4, <1>5, <1>6, <1>7
<1>9. \A name : Calls(b, name) => Calls(b5, name)  BY <1>3, <1>4, <1>5, <1>6, <1>7
<1>10. \A job : HasJobWired(b, job) => HasJobWired(b5, job)  BY <1>3, <1>4, <1>5, <1>6, <1>7
<1>11. "configure" \in plan.hooks => HasConfigure(b5)
  BY <1>3, <1>4, <1>5, <1>6, <1>7 DEF HasConfigure
<1>12. ASSUME "listen" \in plan.hooks, HasKind(b, "listen")  PROVE HasHTTPWired(b5)
  <2>1. b2 = WrapListens(b1, c, app)  BY <1>12 DEF Steps
  <2>2. HasKind(b1, "listen")  BY <1>3, <1>12
  <2>3. HasHTTPWired(b2)  BY <1>2, <2>1, <2>2, WrapListensWires
  <2> QED  BY <1>5, <1>6, <1>7, <2>3 DEF HasHTTPWired
<1>13. ASSUME "grpc" \in plan.hooks, HasKind(b, "grpc")  PROVE HasGRPCWired(b5)
  <2>1. b3 = InjectInterceptors(b2)  BY <1>13 DEF Steps
  <2>2. HasKind(b2, "grpc")  BY <1>3, <1>4, <1>13
  <2>3. HasGRPCWired(b3)  BY <1>2, <2>1, <2>2, InjectInterceptorsWires
  <2> QED  BY <1>6, <1>7, <2>3 DEF HasGRPCWired
<1>14. ASSUME "cli" \in plan.hooks  PROVE HasCLIWired(b5)
  <2>1. b4 = InjectCLIRun(b3) /\ CanRunCLI(b3)  BY <1>14 DEF Steps
  <2>2. HasCLIWired(b4)  BY <1>2, <2>1, InjectCLIRunWires
  <2> QED  BY <1>7, <2>2 DEF HasCLIWired
<1>15. \A n \in 1 .. Len(plan.jobs) : plan.jobs[n] # NoJob => HasJobWired(b5, plan.jobs[n])
  <2>1. CanRunJob(b) => CanRunJob(b4)
    <3> SUFFICES ASSUME CanRunJob(b)  PROVE CanRunJob(b4)  OBVIOUS
    <3>1. "RunJob" \notin M1 /\ "RunJob" \notin M2 /\ "RunJob" \notin M3  BY <1>1
    <3>2. CanRunJob(b1)  BY <1>3
    <3>3. CanRunJob(b2)  BY <1>2, <3>1, <3>2, KeepsCanRunJob
    <3>4. CanRunJob(b3)  BY <1>2, <3>1, <3>3, KeepsCanRunJob
    <3> QED  BY <1>2, <3>1, <3>4, KeepsCanRunJob
  <2>2. PICK jobs \in Seq(Names) : jobs = plan.jobs  OBVIOUS
  <2>3. b5 = InjectJobs(b4, jobs)  BY <2>2 DEF Steps
  <2>4. CanRunJobs(b, jobs)  BY <2>2
  <2>5. ASSUME NEW n \in 1 .. Len(jobs), jobs[n] # NoJob  PROVE HasJobWired(b5, jobs[n])
    <3>1. HasJobWired(InjectJobs(b4, jobs), jobs[n])  BY <1>2, <1>6, <2>1, <2>4, <2>5, JobsWire
    <3> QED  BY <2>3, <3>1
  <2> QED  BY <2>2, <2>5
<1> QED  BY <1>8, <1>9, <1>10, <1>11, <1>12, <1>13, <1>14, <1>15

\* d is what b becomes when these hooks are in.
HooksIn(b, d, hooks) ==
  /\ \A kind : kind # "other" => (HasKind(d, kind) <=> HasKind(b, kind))
  /\ \A name : Calls(b, name) => Calls(d, name)
  /\ "configure" \in hooks => HasConfigure(d)
  /\ "listen" \in hooks /\ HasKind(b, "listen") => HasHTTPWired(d)
  /\ "grpc" \in hooks /\ HasKind(b, "grpc") => HasGRPCWired(d)
  /\ "cli" \in hooks => HasCLIWired(d)

\* Of the hooks of main that the second analysis names, each was named by the first.
LEMMA HooksSettle ==
  ASSUME NEW f, NEW g, g.skip = f.skip, NEW c, NEW b, NEW d,
         NEW old, old = MainHooks(f, b, c), NEW new, new = MainHooks(g, d, c),
         HooksIn(b, d, old)
  PROVE  new \subseteq old \cap {"listen", "grpc"} /\ \A h \in new : ~HasKind(d, h)
<1>0. /\ \A kind : kind # "other" => (HasKind(d, kind) <=> HasKind(b, kind))
      /\ \A name : Calls(b, name) => Calls(d, name)
      /\ "configure" \in old => HasConfigure(d)
      /\ "listen" \in old /\ HasKind(b, "listen") => HasHTTPWired(d)
      /\ "grpc" \in old /\ HasKind(b, "grpc") => HasGRPCWired(d)
      /\ "cli" \in old => HasCLIWired(d)
  BY DEF HooksIn
<1>1. \A h \in new : h \in {"configure", "listen", "grpc", "cli"}  BY DEF MainHooks, When
<1>2. "configure" \notin new
  <2> SUFFICES ASSUME "configure" \in new  PROVE FALSE  OBVIOUS
  <2>1. "configure" \notin g.skip /\ ~HasConfigure(d)  BY DEF MainHooks, When
  <2>2. ~HasConfigure(b)  BY <1>0, <2>1 DEF HasConfigure
  <2>3. "configure" \in old  BY <2>1, <2>2 DEF MainHooks, When
  <2> QED  BY <1>0, <2>1, <2>3
<1>3. "cli" \notin new
  <2> SUFFICES ASSUME "cli" \in new  PROVE FALSE  OBVIOUS
  <2>1. (c.cli \/ HasKind(d, "execute")) /\ ~HasCLIWired(d)  BY DEF MainHooks, When
  <2>2. ~HasCLIWired(b) /\ (HasKind(d, "execute") <=> HasKind(b, "execute"))
    BY <1>0, <2>1 DEF HasCLIWired
  <2>3. "cli" \in old  BY <2>1, <2>2 DEF MainHooks, When
  <2> QED  BY <1>0, <2>1, <2>3
<1>4. ASSUME "listen" \in new  PROVE "listen" \in old /\ ~HasKind(d, "listen")
  <2>1. /\ c.routers = <<>> /\ "http" \notin g.skip /\ ~HasHTTPWired(d)
        /\ c.listen \/ HasKind(d, "listen")
    BY <1>4 DEF MainHooks, When
  <2>2. ~HasHTTPWired(b) /\ (HasKind(d, "listen") <=> HasKind(b, "listen"))
    BY <1>0, <2>1 DEF HasHTTPWired
  <2>3. "listen" \in old  BY <2>1, <2>2 DEF MainHooks, When
  <2> QED  BY <1>0, <2>1, <2>2, <2>3
<1>5. ASSUME "grpc" \in new  PROVE "grpc" \in old /\ ~HasKind(d, "grpc")
  <2>1. (c.grpc \/ HasKind(d, "grpc")) /\ ~HasGRPCWired(d)
    BY <1>5 DEF MainHooks, When
  <2>2. ~HasGRPCWired(b) /\ (HasKind(d, "grpc") <=> HasKind(b, "grpc"))
    BY <1>0, <2>1 DEF HasGRPCWired
  <2>3. "grpc" \in old  BY <2>1, <2>2 DEF MainHooks, When
  <2> QED  BY <1>0, <2>1, <2>2, <2>3
<1> QED  BY <1>1, <1>2, <1>3, <1>4, <1>5

LEMMA MoreHooksMoreImports ==
  ASSUME NEW p, NEW q, p.hooks \subseteq q.hooks, PlannedJobs(p) = {}
  PROVE  NeededImports(p) \subseteq NeededImports(q)
<1>1. (UNION {HookImports(h) : h \in p.hooks}) \subseteq UNION {HookImports(h) : h \in q.hooks}
  OBVIOUS
<1>2. When("context", PlannedJobs(p) # {}) = {}  BY DEF When
<1> QED  BY <1>1, <1>2 DEF NeededImports

\* The wrapped jobs of b are wrapped in d, and so are those of the plan.
JobsIn(b, d, jobs) ==
  /\ \A job : HasJobWired(b, job) => HasJobWired(d, job)
  /\ \A n \in 1 .. Len(jobs) : jobs[n] # NoJob => HasJobWired(d, jobs[n])

LEMMA JobsSettle ==
  ASSUME NEW b, NEW d, NEW jobs, JobsIn(b, d, jobs), NEW m \in Nat, Len(jobs) = m,
         NEW named, NEW left, DOMAIN left = 1 .. m,
         \A n \in 1 .. m : jobs[n] = IF HasJobWired(b, named[n]) THEN NoJob ELSE named[n],
         \A n \in 1 .. m : left[n] = IF HasJobWired(d, named[n]) THEN NoJob ELSE named[n]
  PROVE  \A x \in Elems(left) : x = NoJob
<1>1. \A n \in DOMAIN left : left[n] = NoJob
  <2> SUFFICES ASSUME NEW n \in 1 .. m  PROVE left[n] = NoJob  OBVIOUS
  <2>1. CASE HasJobWired(b, named[n])
    <3>1. HasJobWired(d, named[n])  BY <2>1 DEF JobsIn
    <3> QED  BY <3>1
  <2>2. CASE ~HasJobWired(b, named[n]) /\ named[n] # NoJob
    <3>1. jobs[n] = named[n] /\ n \in 1 .. Len(jobs)  BY <2>2
    <3>2. HasJobWired(d, named[n])  BY <2>2, <3>1 DEF JobsIn
    <3> QED  BY <3>2
  <2>3. CASE named[n] = NoJob  BY <2>3
  <2> QED  BY <2>1, <2>2, <2>3
<1> QED  BY <1>1 DEF Elems

LEMMA SettledMain ==
  ASSUME NEW f \in Files, NEW g \in Files, NEW c, c.jobs \in Seq(Names), Alike(f, g),
         HasMain(f), "wire" \notin f.skip, NEW i, i = MainIndex(f),
         NEW b, b = f.funcs[i].body, NEW d, d = g.funcs[i].body,
         NEW plan, plan = AnalyzeMain(f, c), g.imports = f.imports \cup NeededImports(plan),
         HooksIn(b, d, plan.hooks), JobsIn(b, d, plan.jobs)
  PROVE  WiredMain(g, c)
<1>1. g.skip = f.skip /\ DOMAIN g.funcs = DOMAIN f.funcs  BY DEF Alike, SameHeader
<1>2. \A j \in DOMAIN f.funcs : g.funcs[j].name = f.funcs[j].name  BY DEF Alike, FuncAlike
<1>3. HasMain(g) /\ MainIndex(g) = i  BY <1>1, <1>2, SameMain
<1>4. PICK new : new = AnalyzeMain(g, c)  OBVIOUS
<1>5. "wire" \notin g.skip /\ d = g.funcs[MainIndex(g)].body  BY <1>1, <1>3
<1>6. new.hooks = MainHooks(g, d, c)  BY <1>3, <1>4, <1>5, MainAnalysis
<1>7. plan.hooks = MainHooks(f, b, c)  BY MainAnalysis
<1>8. new.hooks \subseteq plan.hooks \cap {"listen", "grpc"} /\ \A h \in new.hooks : ~HasKind(d, h)
  <2>1. PICK old, nw : old = plan.hooks /\ nw = new.hooks  OBVIOUS
  <2>2. old = MainHooks(f, b, c) /\ nw = MainHooks(g, d, c)  BY <1>6, <1>7, <2>1
  <2>3. HooksIn(b, d, old)  BY <2>1
  <2>4. nw \subseteq old \cap {"listen", "grpc"} /\ \A h \in nw : ~HasKind(d, h)
    BY <1>1, <2>2, <2>3, HooksSettle
  <2> QED  BY <2>1, <2>4
<1>9. PICK m \in Nat : m = Len(c.jobs)  BY LenProperties
<1>10. \A n \in 1 .. m : plan.jobs[n] = IF HasJobWired(b, c.jobs[n]) THEN NoJob ELSE c.jobs[n]
  BY <1>9, MainAnalysis
<1>11. Len(plan.jobs) = m  BY <1>9, MainAnalysis
<1>12. \A n \in 1 .. m : new.jobs[n] = IF HasJobWired(d, c.jobs[n]) THEN NoJob ELSE c.jobs[n]
  BY <1>3, <1>4, <1>5, <1>9, MainAnalysis
<1>13. DOMAIN new.jobs = 1 .. m  BY <1>3, <1>4, <1>5, <1>9, MainAnalysis
<1>14. PlannedJobs(new) = {}
  <2>1. PICK jobs, left, named : jobs = plan.jobs /\ left = new.jobs /\ named = c.jobs  OBVIOUS
  <2>a. JobsIn(b, d, jobs) /\ Len(jobs) = m /\ DOMAIN left = 1 .. m  BY <1>11, <1>13, <2>1
  <2>b. \A n \in 1 .. m : jobs[n] = IF HasJobWired(b, named[n]) THEN NoJob ELSE named[n]
    BY <1>10, <2>1
  <2>c. \A n \in 1 .. m : left[n] = IF HasJobWired(d, named[n]) THEN NoJob ELSE named[n]
    BY <1>12, <2>1
  <2>2. \A x \in Elems(left) : x = NoJob  BY <2>a, <2>b, <2>c, JobsSettle
  <2> QED  BY <2>1, <2>2 DEF PlannedJobs, NoJob
<1>15. NeededImports(new) \subseteq g.imports
  <2>1. new.hooks \subseteq plan.hooks  BY <1>8
  <2>2. NeededImports(new) \subseteq NeededImports(plan)  BY <1>14, <2>1, MoreHooksMoreImports
  <2> QED  BY <2>2
<1> QED  BY <1>3, <1>4, <1>8, <1>14, <1>15 DEF WiredMain

LEMMA MainSettles ==
  ASSUME NEW f \in Files, NEW c, c.jobs \in Seq(Names), ~WireFails(f, c, TRUE),
         HasMain(f) => AllReplaceable(f.funcs[MainIndex(f)].body),
         NEW g, g = WireFile(f, c, TRUE)
  PROVE  WiredMain(g, c)
<1>1. PICK plan : plan = AnalyzeMain(f, c)  OBVIOUS
<1>2. PlanOf(f, c, TRUE) = plan  BY <1>1 DEF PlanOf
<1>3. CASE ~HasChanges(plan)
  <2>1. g = f  BY <1>2, <1>3 DEF WireFile
  <2> QED  BY <1>1, <1>3, <2>1 DEF WiredMain
<1>4. CASE HasChanges(plan)
  <2>1. PICK i : i = MainIndex(f)  OBVIOUS
  <2>2. g \in Files /\ MainWired(f, g, c, plan, i)  BY <1>1, <1>4, <2>1, WireMainParts
  <2>3. PICK b, d : b = f.funcs[i].body /\ d = g.funcs[i].body  OBVIOUS
  <2>4. /\ b \in Seq(Stmts)
        /\ plan.jobs \in Seq(Names) /\ d = ApplyMain(b, c, f.app, plan)
        /\ g.imports = f.imports \cup NeededImports(plan)
        /\ "grpc" \in plan.hooks => ~HasGRPCWired(b)
        /\ "cli" \in plan.hooks => CanRunCLI(b)
    BY <2>2, <2>3 DEF MainWired
  <2>5. ~MainFails(f, plan)  BY <1>2, <1>4 DEF WireFails
  <2>6. HasMain(f) /\ CanRunJobs(b, plan.jobs)  BY <2>1, <2>3, <2>5 DEF MainFails
  <2>7. "wire" \notin f.skip
    <3> SUFFICES ASSUME "wire" \in f.skip  PROVE FALSE  OBVIOUS
    <3>1. plan = [hooks |-> {}, jobs |-> <<>>]  BY <1>1 DEF AnalyzeMain, NoPlan
    <3>2. plan.hooks = {} /\ plan.jobs = <<>>  BY <3>1
    <3>3. PlannedJobs(plan) = {}  BY <3>2, NoElems DEF PlannedJobs
    <3> QED  BY <1>4, <3>2, <3>3 DEF HasChanges
  <2>8. PICK app : app = f.app  OBVIOUS
  <2>9. PICK b1, b2, b3, b4 : Steps(b, c, app, plan, b1, b2, b3, b4, d)
    BY <2>4, <2>8, ApplyMainSteps
  <2>10. AllReplaceable(b)  BY <2>1, <2>3, <2>6
  <2>11. HooksIn(b, d, plan.hooks) /\ JobsIn(b, d, plan.jobs)
    <3>1. b \in Seq(Stmts) /\ plan.jobs \in Seq(Names) /\ CanRunJobs(b, plan.jobs)
      BY <2>4, <2>6
    <3>2. HooksIn(b, d, plan.hooks)  BY <2>9, <2>10, <3>1, StepsWire DEF HooksIn
    <3>3. JobsIn(b, d, plan.jobs)  BY <2>9, <2>10, <3>1, StepsWire DEF JobsIn
    <3> QED  BY <3>2, <3>3
  <2>12. Alike(f, g)  BY WireAlike
  <2> QED  BY <1>1, <2>1, <2>2, <2>3, <2>4, <2>6, <2>7, <2>11, <2>12, SettledMain
<1> QED  BY <1>3, <1>4

LEMMA RouterSettles ==
  ASSUME NEW f \in Files, NEW c, ~WireFails(f, c, FALSE), NEW g, g = WireFile(f, c, FALSE)
  PROVE  WiredRouter(g)
<1>1. PICK plan : plan = AnalyzeRouter(f)  OBVIOUS
<1>2. PlanOf(f, c, FALSE) = plan  BY <1>1 DEF PlanOf
<1>3. CASE ~HasChanges(plan)
  <2>1. g = f  BY <1>2, <1>3 DEF WireFile
  <2> QED  BY <1>1, <1>3, <2>1 DEF WiredRouter
<1>4. CASE HasChanges(plan)
  <2>1. g \in Files /\ \E lib, i, at, e : RouterWired(f, g, lib, i, at, e)
    BY <1>1, <1>4, WireRouterParts
  <2>2. PICK lib, i, at, e : RouterWired(f, g, lib, i, at, e)  BY <2>1
  <2>3. /\ OneReplaced(f, g, i) /\ lib = Framework(f) /\ lib \in Frameworks
        /\ \A j \in 1 .. i - 1 : ~ToWire(f.funcs[j], lib)
        /\ Inserted(f.funcs[i].body, g.funcs[i].body, at, e)
        /\ Elems(e.dv) = {Middleware(lib)}
        /\ g.imports = f.imports \cup {"debugviz"}
    BY <2>2 DEF RouterWired
  <2>4. /\ "wire" \notin f.skip
        /\ \A j \in DOMAIN f.funcs : HasMiddleware(f.funcs[j], lib) =>
             \E x \in 1 .. j - 1 : EndsAnalysis(f.funcs[x], lib)
    <3>1. ~\E j \in DOMAIN f.funcs :
               /\ HasMiddleware(f.funcs[j], lib)
               /\ \A x \in 1 .. j - 1 : ~EndsAnalysis(f.funcs[x], lib)
      BY <1>1, <1>4, <2>3, RouterPlan
    <3>2. "wire" \notin f.skip  BY <1>1, <1>4, <2>3, RouterPlan
    <3> QED  BY <3>1, <3>2
  <2>5. PICK m \in Nat : m = Len(f.funcs) /\ DOMAIN f.funcs = 1 .. m  BY FileParts
  <2>6. i \in 1 .. m /\ DOMAIN g.funcs = 1 .. m /\ g.skip = f.skip
    BY <2>3, <2>5 DEF OneReplaced, SameHeader
  <2>7. \A j \in 1 .. i - 1 : ~EndsAnalysis(f.funcs[j], lib)
    <3> SUFFICES ASSUME NEW z \in 1 .. i - 1, EndsAnalysis(f.funcs[z], lib)  PROVE FALSE
      OBVIOUS
    <3>1. PICK S \in SUBSET (1 .. m) :
            S = {j \in 1 .. m : j < i /\ EndsAnalysis(f.funcs[j], lib)}
      OBVIOUS
    <3>2. z \in S  BY <2>6, <3>1
    <3>3. PICK x \in S : \A j \in 1 .. x - 1 : j \notin S  BY <3>2, FirstPlace
    <3>4. x \in 1 .. i - 1 /\ x \in 1 .. m /\ EndsAnalysis(f.funcs[x], lib)  BY <2>6, <3>1
    <3>5. HasMiddleware(f.funcs[x], lib)  BY <2>3, <3>4 DEF EndsAnalysis, ToWire
    <3>6. PICK w \in 1 .. x - 1 : EndsAnalysis(f.funcs[w], lib)  BY <2>4, <2>5, <3>4, <3>5
    <3>7. w \in 1 .. m /\ w < i  BY <2>6, <3>4
    <3>8. w \in S  BY <3>1, <3>6, <3>7
    <3> QED  BY <3>3, <3>8
  <2>8. HasMiddleware(g.funcs[i], lib)
    <3>1. Middleware(lib) \in Elems(e.dv)  BY <2>3
    <3>2. PICK b, d, w : b = f.funcs[i].body /\ d = g.funcs[i].body /\ w = Middleware(lib)
      OBVIOUS
    <3>3. Inserted(b, d, at, e) /\ w \in Elems(e.dv)  BY <2>3, <3>1, <3>2
    <3>4. Calls(d, w)  BY <3>3, InsertFinds
    <3> QED  BY <3>2, <3>4 DEF HasMiddleware
  <2>9. \A j \in 1 .. i - 1 : ~EndsAnalysis(g.funcs[j], lib)
    <3> SUFFICES ASSUME NEW j \in 1 .. i - 1  PROVE ~EndsAnalysis(g.funcs[j], lib)  OBVIOUS
    <3>1. j \in DOMAIN f.funcs /\ j # i  BY <2>5, <2>6
    <3>2. g.funcs[j] = f.funcs[j]  BY <2>3, <3>1 DEF OneReplaced
    <3> QED  BY <2>7, <3>2
  <2>10. Framework(g) = lib /\ lib # ""
    <3>1. \A x \in Frameworks : x \in g.imports <=> x \in f.imports  BY <2>3 DEF Frameworks
    <3>2. Framework(g) = Framework(f)  BY <3>1 DEF Framework, Frameworks
    <3>3. lib # ""  BY <2>3 DEF Frameworks
    <3> QED  BY <2>3, <3>2, <3>3
  <2>11. \E j \in DOMAIN g.funcs : /\ HasMiddleware(g.funcs[j], lib)
                                   /\ \A x \in 1 .. (j - 1) : ~EndsAnalysis(g.funcs[x], lib)
    BY <2>6, <2>8, <2>9
  <2>12. AnalyzeRouter(g) = [hooks |-> When(Middleware(lib), FALSE), jobs |-> <<>>]
    BY <2>4, <2>6, <2>10, <2>11 DEF AnalyzeRouter
  <2>13. PICK new : new = AnalyzeRouter(g)  OBVIOUS
  <2>14. new.hooks = {} /\ new.jobs = <<>>  BY <2>12, <2>13 DEF When
  <2>15. PlannedJobs(new) = {}  BY <2>14, NoElems DEF PlannedJobs
  <2> QED  BY <2>13, <2>14, <2>15 DEF HasChanges, WiredRouter
<1> QED  BY <1>3, <1>4

-------------------------------------------------------------------------------
(* And leaves a file in which it finds nothing as it is.                     *)

LEMMA NothingToWrap ==
  ASSUME NEW b \in Seq(Stmts), NEW c, NEW app
  PROVE  /\ ~HasKind(b, "listen") => WrapListens(b, c, app) = b
         /\ ~HasKind(b, "grpc") => InjectInterceptors(b) = b
<1>1. b = [i \in DOMAIN b |-> b[i]]  OBVIOUS
<1>2. ASSUME ~HasKind(b, "listen")  PROVE WrapListens(b, c, app) = b
  <2>1. \A i \in DOMAIN b : b[i].k # "listen"  BY <1>2 DEF HasKind, Elems
  <2>2. WrapListens(b, c, app) = [i \in DOMAIN b |-> b[i]]  BY <2>1 DEF WrapListens
  <2> QED  BY <1>1, <2>2
<1>3. ASSUME ~HasKind(b, "grpc")  PROVE InjectInterceptors(b) = b
  <2>1. \A i \in DOMAIN b : b[i].k # "grpc"  BY <1>3 DEF HasKind, Elems
  <2>2. InjectInterceptors(b) = [i \in DOMAIN b |-> b[i]]  BY <2>1 DEF InjectInterceptors
  <2> QED  BY <1>1, <2>2
<1> QED  BY <1>2, <1>3

LEMMA NoJobsNoWork ==
  ASSUME NEW b, NEW jobs \in Seq(Names), \A x \in Elems(jobs) : x = NoJob
  PROVE  InjectJobs(b, jobs) = b
<1>1. PICK N \in Nat : N = Len(jobs)  BY LenProperties
<1>2. \A n \in 1 .. N : jobs[n] = NoJob  BY <1>1, LenProperties DEF Elems
<1>3. PICK h : h = JobBodies(b, jobs)  OBVIOUS
<1>4. \A n \in 0 .. N : h[n] = IF n = 0 THEN b
                               ELSE IF jobs[n] = NoJob THEN h[n - 1]
                               ELSE InjectJob(h[n - 1], jobs[n])
  BY <1>1, <1>3, JobSteps
<1>5. PICK S \in SUBSET Nat : S = {n \in Nat : n <= N => h[n] = b}  OBVIOUS
<1>6. 0 \in S
  <2>1. 0 \in 0 .. N  BY <1>1
  <2>2. h[0] = b  BY <1>4, <2>1
  <2> QED  BY <1>5, <2>2
<1>7. ASSUME NEW n \in Nat, n \in S  PROVE n + 1 \in S
  <2> SUFFICES ASSUME n + 1 <= N  PROVE h[n + 1] = b  BY <1>5
  <2>1. PICK z : z = n + 1  OBVIOUS
  <2>2. z \in 1 .. N /\ z \in 0 .. N /\ z # 0 /\ z - 1 = n /\ n <= N  BY <1>1, <2>1
  <2>3. h[n] = b  BY <1>5, <1>7, <2>2
  <2>4. jobs[z] = NoJob  BY <1>2, <2>2
  <2>5. h[z] = IF z = 0 THEN b ELSE IF jobs[z] = NoJob THEN h[z - 1]
               ELSE InjectJob(h[z - 1], jobs[z])
    BY <1>4, <2>2
  <2>6. h[z] = h[n]  BY <2>2, <2>4, <2>5
  <2> QED  BY <2>1, <2>3, <2>6
<1>8. N \in S
  <2>1. Nat \subseteq S  BY <1>6, <1>7, SetInduction
  <2> QED  BY <1>1, <2>1
<1>9. h[N] = b  BY <1>1, <1>5, <1>8
<1> QED  BY <1>1, <1>3, <1>9 DEF InjectJobs

LEMMA SameFile ==
  ASSUME NEW f \in Files, NEW g \in Files, g.funcs = f.funcs, g.imports = f.imports,
         SameHeader(f, g)
  PROVE  g = f
BY DEF Files, SameHeader

\* A function that keeps its body, in a file that has the imports.
LEMMA RewroteNothing ==
  ASSUME NEW f \in Files, NEW i \in DOMAIN f.funcs, NEW more \in SUBSET Packages,
         more \subseteq f.imports
  PROVE  Rewrote(f, i, f.funcs[i].body, more) = f
<1>1. PICK b : b = f.funcs[i].body  OBVIOUS
<1>2. b \in Seq(Stmts)  BY <1>1, FileParts
<1>3. PICK g : /\ g = Rewrote(f, i, b, more) /\ g \in Files /\ OneReplaced(f, g, i)
               /\ g.imports = f.imports \cup more /\ g.funcs[i].body = b
  BY <1>2, FileRewritten
<1>4. PICK fn : fn = f.funcs[i]  OBVIOUS
<1>5. g.funcs[i] = fn
  <2>1. fn \in Funcs /\ g.funcs[i] = Rebodied(fn, b) /\ b = fn.body
    BY <1>1, <1>3, <1>4 DEF OneReplaced
  <2>2. [fn EXCEPT !.body = fn.body] = fn  BY <2>1 DEF Funcs
  <2> QED  BY <2>1, <2>2 DEF Rebodied
<1>6. PICK s, t : s = f.funcs /\ t = g.funcs  OBVIOUS
<1>7. s \in Seq(Funcs) /\ t \in Seq(Funcs) /\ DOMAIN t = DOMAIN s
  BY <1>3, <1>6 DEF Files, OneReplaced
<1>8. \A j \in DOMAIN s : t[j] = s[j]  BY <1>3, <1>4, <1>5, <1>6 DEF OneReplaced
<1>9. t = s  BY <1>7, <1>8
<1>10. g.imports = f.imports /\ SameHeader(f, g)  BY <1>3 DEF OneReplaced
<1>11. g = f  BY <1>3, <1>6, <1>9, <1>10, SameFile
<1> QED  BY <1>1, <1>3, <1>11

LEMMA WiredMainStays ==
  ASSUME NEW f \in Files, NEW c, c.jobs \in Seq(Names), WiredMain(f, c),
         NEW isMain, isMain
  PROVE  WireFile(f, c, isMain) = f
<1>1. PICK plan : plan = AnalyzeMain(f, c)  OBVIOUS
<1>2. PlanOf(f, c, isMain) = plan  BY <1>1 DEF PlanOf
<1>3. CASE ~HasChanges(plan)  BY <1>2, <1>3 DEF WireFile
<1>4. CASE HasChanges(plan)
  <2>1. PICK i : i = MainIndex(f)  OBVIOUS
  <2>2. PICK b : b = f.funcs[i].body  OBVIOUS
  <2>3. /\ HasMain(f) /\ plan.hooks \subseteq {"listen", "grpc"} /\ PlannedJobs(plan) = {}
        /\ \A h \in plan.hooks : ~HasKind(b, h)
        /\ NeededImports(plan) \subseteq f.imports
    BY <1>1, <1>4, <2>1, <2>2 DEF WiredMain
  <2>4. i \in DOMAIN f.funcs  BY <2>1, <2>3, MainIndexIsMain
  <2>5. b \in Seq(Stmts)  BY <2>2, <2>4, FileParts
  <2>6. plan.jobs \in Seq(Names)
    <3>1. CASE "wire" \in f.skip
      <4>1. plan = [hooks |-> {}, jobs |-> <<>>]  BY <1>1, <3>1 DEF AnalyzeMain, NoPlan
      <4>2. plan.jobs = <<>>  BY <4>1
      <4> QED  BY <4>2
    <3>2. CASE "wire" \notin f.skip  BY <1>1, <2>3, <3>2, MainAnalysis
    <3> QED  BY <3>1, <3>2
  <2>7. PICK jobs \in Seq(Names) : jobs = plan.jobs  BY <2>6
  <2>8. InjectJobs(b, jobs) = b
    <3>1. \A x \in Elems(jobs) : x = NoJob  BY <2>3, <2>7 DEF PlannedJobs, NoJob
    <3> QED  BY <3>1, NoJobsNoWork
  <2>9. ApplyMain(b, c, f.app, plan) = b
    <3>1. "configure" \notin plan.hooks /\ "cli" \notin plan.hooks  BY <2>3
    <3>2. "listen" \in plan.hooks => WrapListens(b, c, f.app) = b
      BY <2>3, <2>5, NothingToWrap
    <3>3. "grpc" \in plan.hooks => InjectInterceptors(b) = b
      BY <2>3, <2>5, NothingToWrap
    <3> QED  BY <2>7, <2>8, <3>1, <3>2, <3>3 DEF ApplyMain
  <2>10. PICK u \in SUBSET Packages : u = NeededImports(plan)  BY NeededImportsPackages
  <2>11. WireFile(f, c, isMain) = Rewrote(f, i, b, u)
    BY <1>2, <1>4, <2>1, <2>2, <2>9, <2>10 DEF WireFile, Rewrote
  <2>12. Rewrote(f, i, b, u) = f  BY <2>2, <2>3, <2>4, <2>10, RewroteNothing
  <2> QED  BY <2>11, <2>12
<1> QED  BY <1>3, <1>4

LEMMA WiredStays ==
  ASSUME NEW f \in Files, NEW c, c.jobs \in Seq(Names), NEW isMain, isMain \in BOOLEAN,
         Wired(f, c, isMain)
  PROVE  WireFile(f, c, isMain) = f
<1>1. CASE isMain  BY <1>1, WiredMainStays DEF Wired
<1>2. CASE ~isMain
  <2>1. ~HasChanges(AnalyzeRouter(f))  BY <1>2 DEF Wired, WiredRouter
  <2>2. ~HasChanges(PlanOf(f, c, isMain))  BY <1>2, <2>1 DEF PlanOf
  <2> QED  BY <2>2 DEF WireFile
<1> QED  BY <1>1, <1>2

-------------------------------------------------------------------------------
(* Each command leaves what the other has completed.                         *)

LEMMA WireSettles ==
  ASSUME NEW f \in Files, NEW c, c.jobs \in Seq(Names), NEW isMain, isMain \in BOOLEAN,
         ~WireFails(f, c, isMain),
         \A i \in DOMAIN f.funcs : AllReplaceable(f.funcs[i].body),
         NEW g, g = WireFile(f, c, isMain)
  PROVE  Wired(g, c, isMain)
<1>1. CASE isMain = TRUE
  <2>1. ~WireFails(f, c, TRUE) /\ g = WireFile(f, c, TRUE)  BY <1>1
  <2>2. HasMain(f) => AllReplaceable(f.funcs[MainIndex(f)].body)  BY MainIndexIsMain
  <2>3. WiredMain(g, c)  BY <2>1, <2>2, MainSettles
  <2> QED  BY <1>1, <2>3 DEF Wired
<1>2. CASE isMain = FALSE
  <2>1. ~WireFails(f, c, FALSE) /\ g = WireFile(f, c, FALSE)  BY <1>2
  <2>2. WiredRouter(g)  BY <2>1, RouterSettles
  <2> QED  BY <1>2, <2>2 DEF Wired
<1> QED  BY <1>1, <1>2

\* The function instrument leaves alone.
LEMMA MainSpared ==
  ASSUME NEW f \in Files, NEW g, NEW c, Spanned(f, g, c), HasMain(f)
  PROVE  /\ HasMain(g) /\ MainIndex(g) = MainIndex(f)
         /\ g.funcs[MainIndex(f)] = f.funcs[MainIndex(f)]
<1>1. Alike(f, g) /\ g \in Files  BY SpannedAlike DEF Spanned
<1>2. DOMAIN g.funcs = DOMAIN f.funcs /\ \A j \in DOMAIN f.funcs : g.funcs[j].name = f.funcs[j].name
  BY <1>1 DEF Alike, FuncAlike
<1>3. HasMain(g) /\ MainIndex(g) = MainIndex(f)  BY <1>1, <1>2, SameMain
<1>4. PICK i : i = MainIndex(f)  OBVIOUS
<1>5. i \in DOMAIN f.funcs /\ f.funcs[i].name = "main"  BY <1>4, MainIndexIsMain
<1>6. ~IsCandidate(f.funcs[i], c)  BY <1>5 DEF IsCandidate
<1>7. g.funcs[i] = f.funcs[i]  BY <1>5, <1>6 DEF Spanned
<1> QED  BY <1>3, <1>4, <1>7

LEMMA SpannedKeepsMain ==
  ASSUME NEW f \in Files, NEW g, NEW c, Spanned(f, g, c), WiredMain(f, c)
  PROVE  WiredMain(g, c)
<1>1. g.skip = f.skip /\ f.imports \subseteq g.imports  BY DEF Spanned, SameHeader
<1>2. PICK plan : plan = AnalyzeMain(f, c)  OBVIOUS
<1>3. CASE "wire" \in f.skip
  <2>1. AnalyzeMain(g, c) = plan  BY <1>1, <1>2, <1>3 DEF AnalyzeMain
  <2>2. ~HasChanges(plan)
    <3>1. plan = [hooks |-> {}, jobs |-> <<>>]  BY <1>2, <1>3 DEF AnalyzeMain, NoPlan
    <3>2. plan.hooks = {} /\ plan.jobs = <<>>  BY <3>1
    <3>3. PlannedJobs(plan) = {}  BY <3>2, NoElems DEF PlannedJobs
    <3> QED  BY <3>2, <3>3 DEF HasChanges
  <2> QED  BY <2>1, <2>2 DEF WiredMain
<1>4. CASE "wire" \notin f.skip /\ ~HasMain(f)
  <2>1. plan.hooks # {}
    <3>1. PICK hooks : hooks = {"configure"} \cup When("listen", HttpEnabled(c))
                                 \cup When("grpc", c.grpc) \cup When("cli", c.cli)
      OBVIOUS
    <3>2. plan = [hooks |-> hooks, jobs |-> <<>>]  BY <1>2, <1>4, <3>1 DEF AnalyzeMain
    <3>3. plan.hooks = hooks  BY <3>2
    <3> QED  BY <3>1, <3>3
  <2>2. HasChanges(plan)  BY <2>1 DEF HasChanges
  <2> QED  BY <1>2, <1>4, <2>2 DEF WiredMain
<1>5. CASE "wire" \notin f.skip /\ HasMain(f)
  <2>1. PICK i : i = MainIndex(f)  OBVIOUS
  <2>2. HasMain(g) /\ MainIndex(g) = i /\ g.funcs[i] = f.funcs[i]  BY <1>5, <2>1, MainSpared
  <2>3. PICK b : b = f.funcs[i].body  OBVIOUS
  <2>4. g.funcs[i].body = b  BY <2>2, <2>3
  <2>5. MainHooks(g, b, c) = MainHooks(f, b, c)  BY <1>1 DEF MainHooks
  <2>6. AnalyzeMain(g, c) = plan  BY <1>1, <1>2, <1>5, <2>1, <2>2, <2>3, <2>4, <2>5 DEF AnalyzeMain
  <2>7. HasChanges(plan) =>
          /\ plan.hooks \subseteq {"listen", "grpc"} /\ PlannedJobs(plan) = {}
          /\ \A h \in plan.hooks : ~HasKind(b, h)
          /\ NeededImports(plan) \subseteq f.imports
    BY <1>2, <2>1, <2>3 DEF WiredMain
  <2> QED  BY <1>1, <2>2, <2>4, <2>6, <2>7 DEF WiredMain
<1> QED  BY <1>3, <1>4, <1>5

LEMMA SpannedKeepsRouter ==
  ASSUME NEW f \in Files, NEW g, NEW c, Spanned(f, g, c), WiredRouter(f)
  PROVE  WiredRouter(g)
<1>1. g.skip = f.skip /\ DOMAIN g.funcs = DOMAIN f.funcs  BY DEF Spanned, SameHeader
<1>2. PICK lib : lib = Framework(f)  OBVIOUS
<1>3. Framework(g) = lib
  <2>1. \A x \in Frameworks : x \in g.imports <=> x \in f.imports  BY DEF Spanned, Frameworks
  <2> QED  BY <1>2, <2>1 DEF Framework, Frameworks
<1>4. ASSUME NEW i \in DOMAIN f.funcs, HasMiddleware(f.funcs[i], lib)
      PROVE  HasMiddleware(g.funcs[i], lib)
  <2>1. PICK fn, h : fn = f.funcs[i] /\ h = g.funcs[i]  OBVIOUS
  <2>2. fn \in Funcs /\ h = IF IsCandidate(fn, c) THEN InjectFunc(fn) ELSE fn
    BY <2>1 DEF Spanned
  <2>3. Calls(fn.body, Middleware(lib))  BY <1>4, <2>1 DEF HasMiddleware
  <2>4. CASE h = InjectFunc(fn)
    <3>1. \A name : Calls(fn.body, name) => Calls(h.body, name)  BY <2>2, <2>4, InjectFuncAlike
    <3> QED  BY <2>1, <2>3, <3>1 DEF HasMiddleware
  <2>5. CASE h = fn  BY <1>4, <2>1, <2>5
  <2> QED  BY <2>2, <2>4, <2>5
<1>5. ASSUME NEW j \in DOMAIN f.funcs, ~EndsAnalysis(f.funcs[j], lib)
      PROVE  ~EndsAnalysis(g.funcs[j], lib)
  <2>1. FuncAlike(f.funcs[j], g.funcs[j])  BY SpannedAlike DEF Alike
  <2> QED  BY <1>5, <2>1 DEF EndsAnalysis, FuncAlike, BodyAlike, Creates
<1>6. CASE "wire" \in f.skip \/ lib = ""
  <2>1. AnalyzeRouter(g) = NoPlan  BY <1>1, <1>3, <1>6 DEF AnalyzeRouter
  <2>2. AnalyzeRouter(f) = NoPlan  BY <1>2, <1>6 DEF AnalyzeRouter
  <2> QED  BY <2>1, <2>2 DEF WiredRouter
<1>7. CASE ~("wire" \in f.skip \/ lib = "")
  <2>1. \E i \in DOMAIN f.funcs : /\ HasMiddleware(f.funcs[i], lib)
                                  /\ \A j \in 1 .. i - 1 : ~EndsAnalysis(f.funcs[j], lib)
    <3> SUFFICES ASSUME ~\E i \in DOMAIN f.funcs :
                           /\ HasMiddleware(f.funcs[i], lib)
                           /\ \A j \in 1 .. i - 1 : ~EndsAnalysis(f.funcs[j], lib)
                 PROVE  FALSE
      OBVIOUS
    <3>1. PICK plan : plan = AnalyzeRouter(f)  OBVIOUS
    <3>2. plan = [hooks |-> When(Middleware(lib), TRUE), jobs |-> <<>>]
      BY <1>2, <1>7, <3>1 DEF AnalyzeRouter
    <3>3. plan.hooks # {}  BY <3>2 DEF When
    <3> QED  BY <3>1, <3>3 DEF WiredRouter, HasChanges
  <2>2. PICK i \in DOMAIN f.funcs : /\ HasMiddleware(f.funcs[i], lib)
                                    /\ \A j \in 1 .. i - 1 : ~EndsAnalysis(f.funcs[j], lib)
    BY <2>1
  <2>3. PICK m \in Nat : DOMAIN f.funcs = 1 .. m  BY FileParts
  <2>4. \A j \in 1 .. i - 1 : ~EndsAnalysis(g.funcs[j], lib)
    <3> SUFFICES ASSUME NEW j \in 1 .. i - 1  PROVE ~EndsAnalysis(g.funcs[j], lib)  OBVIOUS
    <3>1. j \in DOMAIN f.funcs  BY <2>2, <2>3
    <3> QED  BY <1>5, <2>2, <3>1
  <2>5. HasMiddleware(g.funcs[i], lib)  BY <1>4, <2>2
  <2>6. PICK new : new = AnalyzeRouter(g)  OBVIOUS
  <2>7. new = [hooks |-> When(Middleware(lib), FALSE), jobs |-> <<>>]
    BY <1>1, <1>3, <1>7, <2>2, <2>4, <2>5, <2>6 DEF AnalyzeRouter
  <2>8. new.hooks = {} /\ new.jobs = <<>>  BY <2>7 DEF When
  <2>9. PlannedJobs(new) = {}  BY <2>8, NoElems DEF PlannedJobs
  <2> QED  BY <2>6, <2>8, <2>9 DEF HasChanges, WiredRouter
<1> QED  BY <1>6, <1>7

LEMMA SpannedKeepsWired ==
  ASSUME NEW f \in Files, NEW g, NEW c, Spanned(f, g, c), NEW isMain, Wired(f, c, isMain)
  PROVE  Wired(g, c, isMain)
BY SpannedKeepsMain, SpannedKeepsRouter DEF Wired

\* A file in which instrument finds nothing to do.
Instrumented(f, c) == \A i \in DOMAIN f.funcs : ~IsCandidate(f.funcs[i], c)
SomeHeadless(f) == \E i \in DOMAIN f.funcs : Headless(f.funcs[i].body)

LEMMA InstrumentSettles ==
  ASSUME NEW f \in Files, NEW g, NEW c, Spanned(f, g, c)
  PROVE  Instrumented(g, c)
<1> SUFFICES ASSUME NEW i \in DOMAIN g.funcs  PROVE ~IsCandidate(g.funcs[i], c)
  BY DEF Instrumented
<1>1. PICK fn, h : fn = f.funcs[i] /\ h = g.funcs[i]  OBVIOUS
<1>2. fn \in Funcs /\ h = IF IsCandidate(fn, c) THEN InjectFunc(fn) ELSE fn
  BY <1>1 DEF Spanned
<1>3. CASE IsCandidate(fn, c)
  <2>1. IsAlreadyInstrumented(h.body)  BY <1>2, <1>3, InjectFuncAlike
  <2> QED  BY <1>1, <2>1 DEF IsCandidate
<1>4. CASE ~IsCandidate(fn, c)  BY <1>1, <1>2, <1>4
<1> QED  BY <1>3, <1>4

LEMMA InstrumentedStays ==
  ASSUME NEW f, NEW c, Instrumented(f, c)  PROVE InstrumentFile(f, c) = f
<1>1. {i \in DOMAIN f.funcs : IsCandidate(f.funcs[i], c)} = {}  BY DEF Instrumented
<1> QED  BY <1>1 DEF InstrumentFile

LEMMA HeadlessStays ==
  ASSUME NEW f, NEW g, Alike(f, g), SomeHeadless(f)  PROVE SomeHeadless(g)
BY DEF Alike, FuncAlike, BodyAlike, SomeHeadless

LEMMA BuildsHeaded == ASSUME NEW f \in Files, Builds(f)  PROVE ~SomeHeadless(f)
<1> SUFFICES ASSUME NEW i \in DOMAIN f.funcs, Headless(f.funcs[i].body)  PROVE FALSE
  BY DEF SomeHeadless
<1>1. InScope(f.funcs[i].body)  BY DEF Builds, Elems
<1>2. PICK b : b = f.funcs[i].body  OBVIOUS
<1>3. PICK x \in DOMAIN b : b[x].k \in {"use", "middleware"} /\ \A j \in 1 .. x - 1 : b[j].k # "create"
  BY <1>2 DEF Headless
<1>4. \E j \in 1 .. x - 1 : b[j].k = "create"  BY <1>1, <1>2, <1>3 DEF InScope
<1> QED  BY <1>3, <1>4

\* wire takes a span out of sight only where a middleware stands above every router.
LEMMA OneKeepsInstrumented ==
  ASSUME NEW f, NEW g, NEW c, NEW i, OneReplaced(f, g, i), Instrumented(f, c),
         \/ f.funcs[i].name = "main"
         \/ IsAlreadyInstrumented(f.funcs[i].body) => IsAlreadyInstrumented(g.funcs[i].body)
  PROVE  Instrumented(g, c)
<1> SUFFICES ASSUME NEW j \in DOMAIN g.funcs  PROVE ~IsCandidate(g.funcs[j], c)
  BY DEF Instrumented
<1>1. j \in DOMAIN f.funcs /\ ~IsCandidate(f.funcs[j], c)  BY DEF OneReplaced, Instrumented
<1>2. CASE j # i
  <2>1. g.funcs[j] = f.funcs[j]  BY <1>1, <1>2 DEF OneReplaced
  <2> QED  BY <1>1, <2>1
<1>3. CASE j = i
  <2>1. PICK fn, h : fn = f.funcs[i] /\ h = g.funcs[i]  OBVIOUS
  <2>2. fn \in Funcs /\ h = Rebodied(fn, h.body)  BY <2>1 DEF OneReplaced
  <2>3. h.name = fn.name /\ h.ctx = fn.ctx /\ h.skip = fn.skip  BY <2>2, RebodiedHead
  <2>4. ~IsCandidate(fn, c)  BY <1>1, <1>3, <2>1
  <2>5. fn.name = "main" \/ (IsAlreadyInstrumented(fn.body) => IsAlreadyInstrumented(h.body))
    BY <2>1
  <2>6. ~IsCandidate(h, c)  BY <2>3, <2>4, <2>5 DEF IsCandidate
  <2> QED  BY <1>3, <2>1, <2>6
<1> QED  BY <1>2, <1>3

LEMMA WireKeepsInstrumented ==
  ASSUME NEW f \in Files, NEW c, c.jobs \in Seq(Names), NEW isMain, isMain \in BOOLEAN,
         ~WireFails(f, c, isMain), NEW g, g = WireFile(f, c, isMain), Instrumented(f, c),
         \A i \in DOMAIN f.funcs : f.funcs[i].name # "main" => Ordered(f.funcs[i].body)
  PROVE  Instrumented(g, c) \/ SomeHeadless(g)
<1>1. PICK plan : plan = PlanOf(f, c, isMain)  OBVIOUS
<1>2. CASE ~HasChanges(plan)
  <2>1. g = f  BY <1>1, <1>2 DEF WireFile
  <2> QED  BY <2>1
<1>3. CASE HasChanges(plan) /\ isMain
  <2>1. plan = AnalyzeMain(f, c)  BY <1>1, <1>3 DEF PlanOf
  <2>2. PICK i : i = MainIndex(f)  OBVIOUS
  <2>3. MainWired(f, g, c, plan, i)  BY <1>3, <2>1, <2>2, WireMainParts
  <2>4. OneReplaced(f, g, i) /\ f.funcs[i].name = "main"  BY <2>3 DEF MainWired
  <2> QED  BY <2>4, OneKeepsInstrumented
<1>4. CASE HasChanges(plan) /\ ~isMain
  <2>1. plan = AnalyzeRouter(f)  BY <1>1, <1>4 DEF PlanOf
  <2>2. \E lib, i, at, e : RouterWired(f, g, lib, i, at, e)  BY <1>4, <2>1, WireRouterParts
  <2>3. PICK lib, i, at, e : RouterWired(f, g, lib, i, at, e)  BY <2>2
  <2>4. PICK b, d : b = f.funcs[i].body /\ d = g.funcs[i].body  OBVIOUS
  <2>5. /\ OneReplaced(f, g, i) /\ Inserted(b, d, at, e) /\ e.k = "middleware"
        /\ at # 0 => b[at].k \in Spots
    BY <2>3, <2>4 DEF RouterWired
  <2>6. i \in DOMAIN f.funcs /\ i \in DOMAIN g.funcs  BY <2>5 DEF OneReplaced
  <2>7. CASE f.funcs[i].name = "main"  BY <2>5, <2>7, OneKeepsInstrumented
  <2>8. CASE ~IsAlreadyInstrumented(b)
    <3>1. IsAlreadyInstrumented(f.funcs[i].body) => IsAlreadyInstrumented(g.funcs[i].body)
      BY <2>4, <2>8
    <3> QED  BY <2>5, <3>1, OneKeepsInstrumented
  <2>9. CASE f.funcs[i].name # "main" /\ IsAlreadyInstrumented(b)
    <3>1. Ordered(b)  BY <2>4, <2>6, <2>9
    <3>2. IsAlreadyInstrumented(d) \/ Headless(d)  BY <2>5, <2>9, <3>1, InsertInSight
    <3>3. CASE IsAlreadyInstrumented(d)
      <4>1. IsAlreadyInstrumented(f.funcs[i].body) => IsAlreadyInstrumented(g.funcs[i].body)
        BY <2>4, <3>3
      <4> QED  BY <2>5, <4>1, OneKeepsInstrumented
    <3>4. CASE Headless(d)  BY <2>4, <2>6, <3>4 DEF SomeHeadless
    <3> QED  BY <3>2, <3>3, <3>4
  <2> QED  BY <2>7, <2>8, <2>9
<1> QED  BY <1>2, <1>3, <1>4

-------------------------------------------------------------------------------
(* The targets of a run.                                                     *)

UpTo(kept, m) == {j \in kept : j <= m}

\* Each number up to the size of a set of places is the rank of one of them.
LEMMA RanksReached ==
  ASSUME NEW m \in Nat, NEW kept \in SUBSET (1 .. m)
  PROVE  \A n \in 1 .. Cardinality(kept) : \E i \in kept : Cardinality(UpTo(kept, i)) = n
<1>1. PICK S \in SUBSET Nat : S = {x \in Nat :
        /\ IsFiniteSet(UpTo(kept, x)) /\ Cardinality(UpTo(kept, x)) \in Nat
        /\ \A n \in 1 .. Cardinality(UpTo(kept, x)) :
             \E i \in kept : Cardinality(UpTo(kept, i)) = n}
  OBVIOUS
<1>0. \A j \in kept : j \in Nat /\ 1 <= j /\ j <= m  OBVIOUS
<1>a. \A x, j : j \in UpTo(kept, x) <=> j \in kept /\ j <= x  BY DEF UpTo
<1>2. 0 \in S
  <2>1. UpTo(kept, 0) = {}
    <3> SUFFICES ASSUME NEW j \in UpTo(kept, 0)  PROVE FALSE  OBVIOUS
    <3>1. j \in kept /\ j <= 0  BY <1>a
    <3>2. j \in Nat /\ 1 <= j  BY <1>0, <3>1
    <3> QED  BY <3>1, <3>2
  <2>2. Cardinality({}) = 0 /\ IsFiniteSet({})  BY FS_EmptySet
  <2> QED  BY <1>1, <2>1, <2>2
<1>3. ASSUME NEW x \in Nat, x \in S  PROVE x + 1 \in S
  <2>1. PICK z, low, up : z = x + 1 /\ low = UpTo(kept, x) /\ up = UpTo(kept, z)  OBVIOUS
  <2>2. /\ IsFiniteSet(low) /\ Cardinality(low) \in Nat
        /\ \A n \in 1 .. Cardinality(low) : \E i \in kept : Cardinality(UpTo(kept, i)) = n
    BY <1>1, <1>3, <2>1
  <2>3. CASE z \notin kept
    <3>0. \A j \in kept : j <= z <=> j <= x  BY <1>0, <2>1, <2>3
    <3>1. up = low
      <4>1. \A j : j \in up <=> j \in kept /\ j <= z  BY <1>a, <2>1
      <4>2. \A j : j \in low <=> j \in kept /\ j <= x  BY <1>a, <2>1
      <4> QED  BY <3>0, <4>1, <4>2, Zenon
    <3> QED  BY <1>1, <2>1, <2>2, <3>1
  <2>4. CASE z \in kept
    <3>0. ~(z <= x) /\ z <= z /\ \A j \in kept : j <= z <=> j <= x \/ j = z  BY <1>0, <2>1
    <3>1. up = low \cup {z} /\ z \notin low  BY <1>a, <2>1, <2>4, <3>0
    <3>2. IsFiniteSet(up) /\ Cardinality(up) = Cardinality(low) + 1
      BY <2>2, <3>1, FS_AddElement
    <3>3. ASSUME NEW n \in 1 .. Cardinality(up)
          PROVE  \E i \in kept : Cardinality(UpTo(kept, i)) = n
      <4>1. n \in 1 .. Cardinality(low) \/ n = Cardinality(up)  BY <2>2, <3>2
      <4>2. CASE n = Cardinality(up)  BY <2>1, <2>4, <4>2
      <4> QED  BY <2>2, <4>1, <4>2
    <3>4. Cardinality(up) \in Nat  BY <2>2, <3>2
    <3> QED  BY <1>1, <2>1, <3>2, <3>3, <3>4
  <2> QED  BY <2>3, <2>4
<1>4. m \in S
  <2>1. Nat \subseteq S  BY <1>2, <1>3, SetInduction
  <2> QED  BY <2>1
<1>5. UpTo(kept, m) = kept  BY <1>0 DEF UpTo
<1> QED  BY <1>1, <1>4, <1>5

LEMMA OnlyKept ==
  ASSUME NEW T, NEW s \in Seq(T), NEW kept \in SUBSET DOMAIN s
  PROVE  /\ Only(s, kept) \in Seq(T)
         /\ \A x \in Elems(Only(s, kept)) : \E i \in kept : x = s[i]
<1>1. PICK m \in Nat : m = Len(s) /\ DOMAIN s = 1 .. m  BY LenProperties
<1>2. \A i \in 1 .. m : s[i] \in T  BY <1>1, ElementOfSeq
<1>3. kept \in SUBSET (1 .. m)  BY <1>1
<1>4. PICK k \in Nat : k = Cardinality(kept)
  <2>1. IsFiniteSet(1 .. m)  BY FS_Interval
  <2>2. IsFiniteSet(kept)  BY <1>3, <2>1, FS_Subset
  <2> QED  BY <2>2, FS_CardinalityType
<1>5. PICK o : o = Only(s, kept)  OBVIOUS
<1>6. o = [n \in 1 .. k |-> s[CHOOSE i \in kept : Cardinality(UpTo(kept, i)) = n]]
  BY <1>4, <1>5 DEF Only, UpTo
<1>7. ASSUME NEW n \in 1 .. k  PROVE \E i \in kept : o[n] = s[i]
  <2>1. \E i \in kept : Cardinality(UpTo(kept, i)) = n  BY <1>3, <1>4, RanksReached
  <2>2. PICK i : i = CHOOSE x \in kept : Cardinality(UpTo(kept, x)) = n  OBVIOUS
  <2>3. i \in kept  BY <2>1, <2>2
  <2>4. o[n] = s[i]  BY <1>6, <2>2
  <2> QED  BY <2>3, <2>4
<1>8. o \in [1 .. k -> T]
  <2>1. \A n \in 1 .. k : o[n] \in T  BY <1>2, <1>3, <1>7
  <2>2. DOMAIN o = 1 .. k /\ o = [n \in 1 .. k |-> o[n]]  BY <1>6
  <2> QED  BY <2>1, <2>2
<1>9. o \in Seq(T)  BY <1>8, SeqDef
<1>10. \A x \in Elems(o) : \E i \in kept : x = s[i]  BY <1>7, <1>8 DEF Elems
<1> QED  BY <1>5, <1>9, <1>10

TargetRecords == [path : Paths, isMain : BOOLEAN]

LEMMA AsTargetsTyped ==
  ASSUME NEW paths \in Seq(Paths), NEW isMain \in BOOLEAN
  PROVE  /\ AsTargets(paths, isMain) \in Seq(TargetRecords)
         /\ \A p \in Elems(paths) : \E t \in Elems(AsTargets(paths, isMain)) : t.path = p
<1>1. PICK m \in Nat : m = Len(paths) /\ DOMAIN paths = 1 .. m  BY LenProperties
<1>2. PICK s : s = AsTargets(paths, isMain)  OBVIOUS
<1>3. s = [i \in 1 .. m |-> [path |-> paths[i], isMain |-> isMain]]
  BY <1>1, <1>2 DEF AsTargets
<1>4. \A i \in 1 .. m : paths[i] \in Paths  BY <1>1, ElementOfSeq
<1>5. s \in [1 .. m -> TargetRecords]  BY <1>3, <1>4 DEF TargetRecords
<1>6. s \in Seq(TargetRecords)  BY <1>5, SeqDef
<1>7. ASSUME NEW p \in Elems(paths)  PROVE \E t \in Elems(s) : t.path = p
  <2>1. PICK i \in 1 .. m : p = paths[i]  BY <1>1 DEF Elems
  <2>2. s[i].path = p /\ s[i] \in Elems(s)  BY <1>3, <2>1 DEF Elems
  <2> QED  BY <2>2
<1> QED  BY <1>2, <1>6, <1>7

\* Every target is a file of the tree, and no file is a target twice.
LEMMA TargetsTyped ==
  ASSUME NEW tree, NEW c \in Configs, NEW targets, targets = Targets(tree, c, Walk)
  PROVE  /\ targets \in Seq(TargetRecords)
         /\ \A t, u \in Elems(targets) : t.path = u.path => t = u
<1>1. /\ c.routers \in Seq(Paths) /\ c.globbed \in Seq(Paths) /\ Walk \in Seq(Paths)
      /\ c.main \in Paths \cup {""}
  BY CodegenAssumption DEF Configs
<1>2. PICK none \in Seq(TargetRecords) : none = <<>>  BY EmptySeq
<1>3. PICK main \in Seq(TargetRecords) :
        main = AsTargets(IF c.main = "" THEN <<>> ELSE <<c.main>>, TRUE)
  <2>1. PICK paths : paths = IF c.main = "" THEN <<>> ELSE <<c.main>>  OBVIOUS
  <2>2. paths \in Seq(Paths)
    <3>1. CASE c.main = ""
      <4>1. paths = <<>>  BY <2>1, <3>1
      <4> QED  BY <4>1
    <3>2. CASE c.main # ""
      <4>1. PICK p \in Paths : p = c.main  BY <1>1, <3>2
      <4>2. paths = <<p>>  BY <2>1, <3>2, <4>1
      <4> QED  BY <4>2
    <3> QED  BY <3>1, <3>2
  <2> QED  BY <2>1, <2>2, AsTargetsTyped
<1>4. PICK routers \in Seq(TargetRecords) : routers = AsTargets(c.routers, FALSE)
  BY <1>1, AsTargetsTyped
<1>5. PICK globs \in Seq(TargetRecords) : globs = AsTargets(c.globbed, TRUE)
  BY <1>1, AsTargetsTyped
<1>6. PICK finds \in Seq(TargetRecords) : finds = AsTargets(Discovered(tree, Walk), FALSE)
  <2>1. PICK kept : kept = {i \in DOMAIN Walk : Walk[i] # "main" /\ IsDiscovered(tree[Walk[i]])}
    OBVIOUS
  <2>2. kept \in SUBSET DOMAIN Walk  BY <2>1
  <2>3. Only(Walk, kept) \in Seq(Paths)  BY <1>1, <2>2, OnlyKept
  <2>4. Discovered(tree, Walk) \in Seq(Paths)  BY <2>1, <2>3 DEF Discovered
  <2> QED  BY <2>4, AsTargetsTyped
<1>7. PICK named \in Seq(TargetRecords) : named = main \o routers  BY ConcatProperties
<1>8. PICK globbed \in Seq(TargetRecords) : globbed = IF named = <<>> THEN globs ELSE none
  OBVIOUS
<1>9. PICK found \in Seq(TargetRecords) :
        found = IF HttpEnabled(c) /\ c.routers = <<>> THEN finds ELSE none
  OBVIOUS
<1>10. PICK s \in Seq(TargetRecords) : s = (named \o globbed) \o found  BY ConcatProperties
<1>11. targets = Dedupe(s)
  BY <1>2, <1>3, <1>4, <1>5, <1>6, <1>7, <1>8, <1>9, <1>10 DEF Targets
<1>12. PICK kept : kept = {i \in DOMAIN s : \A j \in 1 .. (i - 1) : s[j].path # s[i].path}
  OBVIOUS
<1>13. kept \in SUBSET DOMAIN s /\ targets = Only(s, kept)  BY <1>11, <1>12 DEF Dedupe
<1>14. targets \in Seq(TargetRecords)  BY <1>13, OnlyKept
<1>15. \A x \in Elems(targets) : \E i \in kept : x = s[i]  BY <1>13, OnlyKept
<1>16. ASSUME NEW t \in Elems(targets), NEW u \in Elems(targets), t.path = u.path  PROVE t = u
  <2>1. PICK i \in kept : t = s[i]  BY <1>15
  <2>2. PICK j \in kept : u = s[j]  BY <1>15
  <2>3. PICK m \in Nat : DOMAIN s = 1 .. m  BY LenProperties
  <2>4. ~(i < j) /\ ~(j < i)
    <3>1. i \in 1 .. m /\ j \in 1 .. m  BY <1>12, <2>3
    <3>2. \A x \in 1 .. (i - 1) : s[x].path # s[i].path  BY <1>12
    <3>3. \A x \in 1 .. (j - 1) : s[x].path # s[j].path  BY <1>12
    <3>4. s[i].path = s[j].path  BY <1>16, <2>1, <2>2
    <3>5. CASE i < j
      <4>1. i \in 1 .. (j - 1)  BY <3>1, <3>5
      <4> QED  BY <3>3, <3>4, <4>1
    <3>6. CASE j < i
      <4>1. j \in 1 .. (i - 1)  BY <3>1, <3>6
      <4> QED  BY <3>2, <3>4, <4>1
    <3> QED  BY <3>5, <3>6
  <2>5. i = j  BY <1>12, <2>3, <2>4
  <2> QED  BY <2>1, <2>2, <2>5
<1> QED  BY <1>14, <1>16

\* A run changes none of what the choice of targets looks at.
LEMMA SameDiscovery ==
  ASSUME NEW f, NEW g, Alike(f, g)  PROVE IsDiscovered(g) <=> IsDiscovered(f)
<1>1. DOMAIN g.funcs = DOMAIN f.funcs /\ g.mentions = f.mentions  BY DEF Alike, SameHeader
<1>2. \A i \in DOMAIN f.funcs, lib \in Frameworks :
        Creates(g.funcs[i], lib) <=> Creates(f.funcs[i], lib)
  BY DEF Alike, FuncAlike, BodyAlike, Creates
<1> QED  BY <1>1, <1>2 DEF IsDiscovered, Elems

LEMMA SameTargets ==
  ASSUME NEW tree, NEW new, NEW c, \A p \in Paths : Alike(tree[p], new[p])
  PROVE  Targets(new, c, Walk) = Targets(tree, c, Walk)
<1>1. \A i \in DOMAIN Walk : Walk[i] \in Paths  BY DEF Paths, Elems
<1>2. \A i \in DOMAIN Walk : IsDiscovered(new[Walk[i]]) <=> IsDiscovered(tree[Walk[i]])
  BY <1>1, SameDiscovery
<1>3. {i \in DOMAIN Walk : Walk[i] # "main" /\ IsDiscovered(new[Walk[i]])}
        = {i \in DOMAIN Walk : Walk[i] # "main" /\ IsDiscovered(tree[Walk[i]])}
  BY <1>2
<1>4. Discovered(new, Walk) = Discovered(tree, Walk)  BY <1>3 DEF Discovered
<1> QED  BY <1>4 DEF Targets

-------------------------------------------------------------------------------
(* What the developer's sources promise of the files.                        *)

FuncPlain(fn) == AllReplaceable(fn.body) /\ (fn.name # "main" => SpansFirst(fn.body))
FuncNeat(fn) == AllReplaceable(fn.body) /\ (fn.name # "main" => Ordered(fn.body))
NeatFrom(f, o) ==
  /\ DOMAIN f.funcs = DOMAIN o.funcs
  /\ \A i \in DOMAIN o.funcs : /\ f.funcs[i].name = o.funcs[i].name
                               /\ FuncPlain(o.funcs[i]) => FuncNeat(f.funcs[i])

LEMMA NeatAlike ==
  ASSUME NEW f, NEW g, NEW o, Alike(f, g), NeatFrom(f, o)  PROVE NeatFrom(g, o)
<1>1. DOMAIN g.funcs = DOMAIN f.funcs  BY DEF Alike
<1>2. ASSUME NEW i \in DOMAIN o.funcs
      PROVE  /\ g.funcs[i].name = o.funcs[i].name
             /\ FuncPlain(o.funcs[i]) => FuncNeat(g.funcs[i])
  <2>1. PICK fn, h, was : fn = f.funcs[i] /\ h = g.funcs[i] /\ was = o.funcs[i]  OBVIOUS
  <2>2. fn.name = was.name /\ (FuncPlain(was) => FuncNeat(fn)) /\ FuncAlike(fn, h)
    BY <2>1 DEF NeatFrom, Alike
  <2>3. h.name = was.name  BY <2>2 DEF FuncAlike
  <2>4. FuncNeat(fn) => FuncNeat(h)  BY <2>2 DEF FuncNeat, FuncAlike, BodyAlike
  <2> QED  BY <2>1, <2>2, <2>3, <2>4
<1> QED  BY <1>1, <1>2 DEF NeatFrom

LEMMA NeatAtFirst ==
  ASSUME NEW f \in Files, \A fn \in Elems(f.funcs) : ByHand(fn.body)
  PROVE  NeatFrom(f, f)
<1> SUFFICES ASSUME NEW i \in DOMAIN f.funcs, FuncPlain(f.funcs[i])
             PROVE  FuncNeat(f.funcs[i])
  BY DEF NeatFrom
<1>1. PICK fn, b : fn = f.funcs[i] /\ b = fn.body  OBVIOUS
<1>2. ByHand(b)  BY <1>1 DEF Elems
<1>3. AllReplaceable(b) /\ (fn.name # "main" => SpansFirst(b))  BY <1>1 DEF FuncPlain
<1>4. \A x \in DOMAIN b : b[x].k \notin {"span", "defer"}  BY <1>2 DEF ByHand, Elems
<1>5. \A x \in DOMAIN b : b[x].k \in Marks => b[x].k = "manual"  BY <1>4 DEF Marks
<1>6. SpansFirst(b) => Ordered(b)  BY <1>5 DEF SpansFirst, Ordered
<1> QED  BY <1>1, <1>3, <1>6 DEF FuncNeat

\* A statement of the developer's, put in the same function of the file and of its sources.
LEMMA InsertSpansFirst ==
  ASSUME NEW b, NEW c, NEW at, NEW e, Inserted(b, c, at, e), SpansFirst(c)
  PROVE  SpansFirst(b)
<1> SUFFICES ASSUME NEW i \in DOMAIN b, NEW j \in DOMAIN b, b[i].k = "manual", b[j].k = "create"
             PROVE  i < j
  BY DEF SpansFirst
<1>1. /\ DOMAIN b = 1 .. Len(b) /\ DOMAIN c = 1 .. Len(b) + 1 /\ Len(b) \in Nat
      /\ at \in 0 .. Len(b)
      /\ \A x \in DOMAIN b : Shift(at, x) \in DOMAIN c /\ c[Shift(at, x)] = b[x]
  <2>1. at \in 0 .. Len(b)  BY DEF Inserted
  <2> QED  BY <2>1, InsertedPlaces
<1>2. Shift(at, i) < Shift(at, j)  BY <1>1 DEF SpansFirst
<1>3. i \in Nat /\ j \in Nat /\ at \in Nat  BY <1>1
<1> QED  BY <1>2, <1>3 DEF Shift

LEMMA NeatInserted ==
  ASSUME NEW f, NEW g, NEW o, NEW p, NEW i, OneReplaced(f, g, i), OneReplaced(o, p, i),
         NEW at, NEW up, NEW e,
         Inserted(f.funcs[i].body, g.funcs[i].body, at, e),
         Inserted(o.funcs[i].body, p.funcs[i].body, up, e),
         f.funcs[i].name = "main" \/ (e.k # "create" /\ e.k \notin Marks),
         NeatFrom(f, o)
  PROVE  NeatFrom(g, p)
<1>1. /\ DOMAIN f.funcs = DOMAIN o.funcs /\ DOMAIN g.funcs = DOMAIN f.funcs
      /\ DOMAIN p.funcs = DOMAIN o.funcs /\ i \in DOMAIN o.funcs
  BY DEF OneReplaced, NeatFrom
<1>2. ASSUME NEW j \in DOMAIN o.funcs
      PROVE  /\ g.funcs[j].name = p.funcs[j].name
             /\ FuncPlain(p.funcs[j]) => FuncNeat(g.funcs[j])
  <2>1. PICK fn, h, was, is : fn = f.funcs[j] /\ h = g.funcs[j] /\ was = o.funcs[j] /\ is = p.funcs[j]
    OBVIOUS
  <2>2. fn.name = was.name /\ (FuncPlain(was) => FuncNeat(fn))  BY <2>1 DEF NeatFrom
  <2>3. CASE j # i
    <3>1. h = fn /\ is = was  BY <1>1, <2>1, <2>3 DEF OneReplaced
    <3> QED  BY <2>1, <2>2, <3>1
  <2>4. CASE j = i
    <3>1. fn \in Funcs /\ h = Rebodied(fn, h.body) /\ was \in Funcs /\ is = Rebodied(was, is.body)
      BY <2>1, <2>4 DEF OneReplaced
    <3>2. h.name = fn.name /\ is.name = was.name  BY <3>1, RebodiedHead
    <3>3. PICK b, c, w, v : b = fn.body /\ c = h.body /\ w = was.body /\ v = is.body  OBVIOUS
    <3>4. Inserted(b, c, at, e) /\ Inserted(w, v, up, e)  BY <2>1, <2>4, <3>3
    <3>5. AllReplaceable(v) => AllReplaceable(w) /\ Replaceable(e)  BY <3>4, InsertFinds
    <3>6. AllReplaceable(b) /\ Replaceable(e) => AllReplaceable(c)  BY <3>4, InsertFinds
    <3>7. SpansFirst(v) => SpansFirst(w)  BY <3>4, InsertSpansFirst
    <3>8. fn.name = "main" \/ (Ordered(b) => Ordered(c))
      <4>1. CASE e.k # "create" /\ e.k \notin Marks  BY <3>4, <4>1, InsertOrdered
      <4> QED  BY <2>1, <2>4, <4>1
    <3>9. FuncPlain(is) => FuncPlain(was)  BY <3>2, <3>3, <3>5, <3>7 DEF FuncPlain
    <3>10. FuncPlain(is) => Replaceable(e)  BY <3>3, <3>5 DEF FuncPlain
    <3>11. FuncNeat(fn) /\ Replaceable(e) => FuncNeat(h)
      BY <3>2, <3>3, <3>6, <3>8 DEF FuncNeat
    <3> QED  BY <2>1, <2>2, <3>2, <3>9, <3>10, <3>11
  <2> QED  BY <2>3, <2>4
<1> QED  BY <1>1, <1>2 DEF NeatFrom

LEMMA BodySwapped ==
  ASSUME NEW f \in Files, NEW i \in DOMAIN f.funcs, NEW body \in Seq(Stmts),
         NEW g, g = [f EXCEPT !.funcs[i].body = body]
  PROVE  g \in Files /\ OneReplaced(f, g, i) /\ g.funcs[i].body = body
<1>1. g \in Files /\ DOMAIN g.funcs = DOMAIN f.funcs /\ g.funcs[i].body = body
  BY BodyReplaced
<1>2. \A j \in DOMAIN f.funcs : j # i => g.funcs[j] = f.funcs[j]  BY RestKept
<1>3. g.funcs[i] = Rebodied(f.funcs[i], body)  BY RestKept
<1>4. SameHeader(f, g)  BY RestKept
<1>5. g.funcs[i] \in Funcs /\ f.funcs[i] \in Funcs  BY <1>1, FileParts
<1> QED  BY <1>1, <1>2, <1>3, <1>4, <1>5 DEF OneReplaced

\* A tree with another body in one of its functions.
LEMMA WithBodyParts ==
  ASSUME NEW tree \in [Paths -> Files], NEW p \in Paths, NEW i \in DOMAIN tree[p].funcs,
         NEW body \in Seq(Stmts), NEW new, new = WithBody(tree, p, i, body)
  PROVE  /\ new \in [Paths -> Files] /\ OneReplaced(tree[p], new[p], i)
         /\ new[p].funcs[i].body = body
         /\ \A q \in Paths : q # p => new[q] = tree[q]
<1>1. PICK f \in Files : f = tree[p]  OBVIOUS
<1>2. i \in DOMAIN f.funcs  BY <1>1
<1>3. PICK g : g = [f EXCEPT !.funcs[i].body = body]  OBVIOUS
<1>4. g \in Files /\ OneReplaced(f, g, i) /\ g.funcs[i].body = body
  BY <1>2, <1>3, BodySwapped
<1>10. new = [tree EXCEPT ![p] = g]  BY <1>1, <1>3 DEF WithBody
<1>11. new \in [Paths -> Files] /\ new[p] = g /\ \A q \in Paths : q # p => new[q] = tree[q]
  BY <1>4, <1>10
<1> QED  BY <1>1, <1>4, <1>11

Neat == \A p \in Paths : NeatFrom(files[p], own[p])

LEMMA LineNeat == ASSUME IInv, Neat, AddLine  PROVE Neat'
<1>1. PICK p \in Paths : \E i \in DOMAIN files[p].funcs :
        /\ files' = WithBody(files, p, i, <<Stmt("other", {})>> \o files[p].funcs[i].body)
        /\ own' = WithBody(own, p, i, <<Stmt("other", {})>> \o own[p].funcs[i].body)
  BY DEF AddLine
<1>2. PICK i \in DOMAIN files[p].funcs :
        /\ files' = WithBody(files, p, i, <<Stmt("other", {})>> \o files[p].funcs[i].body)
        /\ own' = WithBody(own, p, i, <<Stmt("other", {})>> \o own[p].funcs[i].body)
  BY <1>1
<1>3. files \in [Paths -> Files] /\ own \in [Paths -> Files]  BY DEF IInv, TypeOK
<1>4. PICK f, o : f = files[p] /\ o = own[p]  OBVIOUS
<1>5. f \in Files /\ o \in Files /\ NeatFrom(f, o)  BY <1>3, <1>4 DEF Neat
<1>6. i \in DOMAIN f.funcs /\ i \in DOMAIN o.funcs  BY <1>2, <1>4, <1>5 DEF NeatFrom
<1>7. PICK b \in Seq(Stmts) : b = f.funcs[i].body  BY <1>5, <1>6, FileParts
<1>8. PICK w \in Seq(Stmts) : w = o.funcs[i].body  BY <1>5, <1>6, FileParts
<1>9. PICK e : e = Stmt("other", {})  OBVIOUS
<1>10. e \in Stmts /\ e.k = "other"  BY <1>9, LineStmtOne
<1>11. PICK c, v : c = <<e>> \o b /\ v = <<e>> \o w  OBVIOUS
<1>12. Inserted(b, c, 0, e) /\ Inserted(w, v, 0, e)  BY <1>10, <1>11, HeadInserts
<1>13. c \in Seq(Stmts) /\ v \in Seq(Stmts)  BY <1>12 DEF Inserted
<1>14. files' = WithBody(files, p, i, c) /\ own' = WithBody(own, p, i, v)
  BY <1>2, <1>4, <1>7, <1>8, <1>9, <1>11
<1>15. PICK new, mine : new = files' /\ mine = own'  OBVIOUS
<1>16. /\ OneReplaced(f, new[p], i) /\ new[p].funcs[i].body = c
       /\ \A q \in Paths : q # p => new[q] = files[q]
  BY <1>3, <1>4, <1>6, <1>13, <1>14, <1>15, WithBodyParts
<1>17. /\ OneReplaced(o, mine[p], i) /\ mine[p].funcs[i].body = v
       /\ \A q \in Paths : q # p => mine[q] = own[q]
  BY <1>3, <1>4, <1>6, <1>13, <1>14, <1>15, WithBodyParts
<1>18. NeatFrom(new[p], mine[p])
  <2>1. PICK g, h : g = new[p] /\ h = mine[p]  OBVIOUS
  <2>2. Inserted(f.funcs[i].body, g.funcs[i].body, 0, e)  BY <1>7, <1>12, <1>16, <2>1
  <2>3. Inserted(o.funcs[i].body, h.funcs[i].body, 0, e)  BY <1>8, <1>12, <1>17, <2>1
  <2>4. e.k # "create" /\ e.k \notin Marks  BY <1>10 DEF Marks
  <2>5. OneReplaced(f, g, i) /\ OneReplaced(o, h, i)  BY <1>16, <1>17, <2>1
  <2>6. NeatFrom(g, h)  BY <1>5, <2>2, <2>3, <2>4, <2>5, NeatInserted
  <2> QED  BY <2>1, <2>6
<1>19. \A q \in Paths : NeatFrom(new[q], mine[q])  BY <1>16, <1>17, <1>18 DEF Neat
<1> QED  BY <1>15, <1>19 DEF Neat

LEMMA SameFuncsNeat ==
  ASSUME NEW f, NEW g, NEW o, NEW p, g.funcs = f.funcs, p.funcs = o.funcs, NeatFrom(f, o)
  PROVE  NeatFrom(g, p)
BY DEF NeatFrom

\* A tree with a body and its imports.
MoreImports(tree, p, u) == [tree EXCEPT ![p].imports = @ \cup u]
Called(tree, new, p, i, body) ==
  \E g : /\ OneReplaced(tree[p], g, i) /\ g.funcs[i].body = body
         /\ new[p].funcs = g.funcs
         /\ \A q \in Paths : q # p => new[q] = tree[q]
LEMMA WithCallParts ==
  ASSUME NEW tree \in [Paths -> Files], NEW p \in Paths, NEW i \in DOMAIN tree[p].funcs,
         NEW body \in Seq(Stmts), NEW u \in SUBSET Packages,
         NEW mid, mid = WithBody(tree, p, i, body),
         NEW new, new = MoreImports(mid, p, u)
  PROVE  Called(tree, new, p, i, body)
<1>2. /\ mid \in [Paths -> Files] /\ OneReplaced(tree[p], mid[p], i)
      /\ mid[p].funcs[i].body = body /\ \A q \in Paths : q # p => mid[q] = tree[q]
  BY WithBodyParts
<1>3. PICK g \in Files : g = mid[p]  BY <1>2
<1>4. PICK h : h = [g EXCEPT !.imports = @ \cup u]  OBVIOUS
<1>5. h.funcs = g.funcs  BY <1>4, ImportsAdded
<1>6. new = [mid EXCEPT ![p] = h]  BY <1>3, <1>4 DEF MoreImports
<1>7. new[p] = h /\ \A q \in Paths : q # p => new[q] = mid[q]  BY <1>2, <1>6
<1> QED  BY <1>2, <1>3, <1>5, <1>7 DEF Called

LEMMA CallNeat == ASSUME IInv, Neat, AddCall  PROVE Neat'
<1>1. PICK p : p = "main"  OBVIOUS
<1>2. PICK i : i = MainIndex(files[p])  OBVIOUS
<1>3. PICK s \in NewCalls :
        /\ HasMain(files[p])
        /\ files' = [WithBody(files, p, i, Append(files[p].funcs[i].body, s))
                       EXCEPT ![p].imports = @ \cup s.uses]
        /\ own' = [WithBody(own, p, i, Append(own[p].funcs[i].body, s))
                     EXCEPT ![p].imports = @ \cup s.uses]
  BY <1>1, <1>2 DEF AddCall
<1>4. files \in [Paths -> Files] /\ own \in [Paths -> Files]  BY DEF IInv, TypeOK
<1>5. CASE p \notin Paths
  <2>1. files' = files /\ own' = own  BY <1>3, <1>4, <1>5 DEF WithBody
  <2> QED  BY <2>1 DEF Neat
<1>6. CASE p \in Paths
  <2>1. PICK f, o : f = files[p] /\ o = own[p]  OBVIOUS
  <2>2. f \in Files /\ o \in Files /\ NeatFrom(f, o)  BY <1>4, <1>6, <2>1 DEF Neat
  <2>3. i \in DOMAIN f.funcs /\ f.funcs[i].name = "main"
    BY <1>2, <1>3, <2>1, <2>2, MainIndexIsMain
  <2>4. i \in DOMAIN o.funcs  BY <2>2, <2>3 DEF NeatFrom
  <2>5. PICK b \in Seq(Stmts) : b = f.funcs[i].body  BY <2>2, <2>3, FileParts
  <2>6. PICK w \in Seq(Stmts) : w = o.funcs[i].body  BY <2>2, <2>4, FileParts
  <2>7. PICK c, v : c = Append(b, s) /\ v = Append(w, s)  OBVIOUS
  <2>8. s \in Stmts  BY CodegenAssumption
  <2>9. PICK u \in SUBSET Packages : u = s.uses  BY <2>8 DEF Stmts
  <2>10. Inserted(b, c, Len(b), s) /\ Inserted(w, v, Len(w), s)  BY <2>7, <2>8, AppendInserts
  <2>11. c \in Seq(Stmts) /\ v \in Seq(Stmts)  BY <2>10 DEF Inserted
  <2>12. PICK new, mine : new = files' /\ mine = own'  OBVIOUS
  <2>m. PICK mid, half : mid = WithBody(files, p, i, c) /\ half = WithBody(own, p, i, v)  OBVIOUS
  <2>13. /\ new = MoreImports(mid, p, u)
         /\ mine = MoreImports(half, p, u)
    BY <1>3, <2>1, <2>5, <2>6, <2>7, <2>9, <2>12, <2>m DEF MoreImports
  <2>14. \E g : /\ OneReplaced(f, g, i) /\ g.funcs[i].body = c /\ new[p].funcs = g.funcs
                /\ \A q \in Paths : q # p => new[q] = files[q]
    <3>1. i \in DOMAIN files[p].funcs  BY <2>1, <2>3
    <3>2. Called(files, new, p, i, c)
      BY <1>4, <1>6, <2>11, <2>m, <2>13, <3>1, WithCallParts
    <3> QED  BY <2>1, <3>2 DEF Called
  <2>15. \E h : /\ OneReplaced(o, h, i) /\ h.funcs[i].body = v /\ mine[p].funcs = h.funcs
                /\ \A q \in Paths : q # p => mine[q] = own[q]
    <3>1. i \in DOMAIN own[p].funcs  BY <2>1, <2>4
    <3>2. Called(own, mine, p, i, v)
      BY <1>4, <1>6, <2>11, <2>m, <2>13, <3>1, WithCallParts
    <3> QED  BY <2>1, <3>2 DEF Called
  <2>16. PICK g : /\ OneReplaced(f, g, i) /\ g.funcs[i].body = c /\ new[p].funcs = g.funcs
                  /\ \A q \in Paths : q # p => new[q] = files[q]
    BY <2>14
  <2>17. PICK h : /\ OneReplaced(o, h, i) /\ h.funcs[i].body = v /\ mine[p].funcs = h.funcs
                  /\ \A q \in Paths : q # p => mine[q] = own[q]
    BY <2>15
  <2>18. NeatFrom(g, h)
    <3>1. PICK at, up : at = Len(b) /\ up = Len(w)  OBVIOUS
    <3>2. Inserted(f.funcs[i].body, g.funcs[i].body, at, s)  BY <2>5, <2>10, <2>16, <3>1
    <3>3. Inserted(o.funcs[i].body, h.funcs[i].body, up, s)  BY <2>6, <2>10, <2>17, <3>1
    <3> QED  BY <2>2, <2>3, <2>16, <2>17, <3>2, <3>3, NeatInserted
  <2>19. NeatFrom(new[p], mine[p])  BY <2>16, <2>17, <2>18, SameFuncsNeat
  <2>20. \A q \in Paths : NeatFrom(new[q], mine[q])  BY <2>16, <2>17, <2>19 DEF Neat
  <2> QED  BY <2>12, <2>20 DEF Neat
<1> QED  BY <1>5, <1>6

-------------------------------------------------------------------------------
(* A command that has completed finds nothing to do.                         *)

TargetsNow == Elems(Targets(files, cfg, Walk))
WiredNow(t) == Wired(files[t.path], cfg, t.isMain)
SpannedNow(p) == ShouldInstrument(p, cfg) => Instrumented(files[p], cfg)
HeadlessNow == \E p \in Paths : SomeHeadless(files[p])

\* Once a command has completed, and of the targets that it has visited; instrument is
\* undone only in a file that does not build, and then does not run.
WireSettled == "wire" \in settled => \A t \in TargetsNow : WiredNow(t)
WireUnderway ==
  cmd = "wire" => /\ Elems(todo) \subseteq TargetsNow
                  /\ ~dry => \A t \in TargetsNow : t \in Elems(todo) \/ WiredNow(t)
InstrumentSettled ==
  "instrument" \in settled =>
    (\A p \in Paths : SpannedNow(p)) \/ (cmd # "instrument" /\ HeadlessNow)
InstrumentUnderway ==
  cmd = "instrument" /\ ~dry =>
    \A p \in Paths : SpannedNow(p) \/ \E t \in Elems(todo) : t.path = p
Settling == WireSettled /\ WireUnderway /\ InstrumentSettled /\ InstrumentUnderway

RInv == /\ Neat /\ todo \in Seq(TargetRecords) /\ settled \subseteq Commands
        /\ Plain => Settling

\* What the step makes of a target's file.
RewriteOf(t, g) ==
  \/ /\ cmd = "wire" /\ ~WireFails(files[t.path], cfg, t.isMain)
     /\ g = WireFile(files[t.path], cfg, t.isMain)
  \/ /\ cmd = "instrument" /\ ShouldInstrument(t.path, cfg)
     /\ g = InstrumentFile(files[t.path], cfg)
  \/ cmd = "instrument" /\ ~ShouldInstrument(t.path, cfg) /\ g = files[t.path]

LEMMA RewriteOfAlike ==
  ASSUME IInv, NEW t \in TargetRecords, NEW g, RewriteOf(t, g)
  PROVE  g \in Files /\ Alike(files[t.path], g)
<1>1. t.path \in Paths /\ t.isMain \in BOOLEAN  BY DEF TargetRecords
<1>2. PICK f \in Files : f = files[t.path]  BY <1>1 DEF IInv, TypeOK
<1>3. cfg.jobs \in Seq(Names)  BY DEF IInv, TypeOK, Configs
<1>4. PICK c, isMain : c = cfg /\ isMain = t.isMain  OBVIOUS
<1>5. CASE cmd = "wire" /\ ~WireFails(f, c, isMain) /\ g = WireFile(f, c, isMain)
  <2>1. isMain \in BOOLEAN /\ c.jobs \in Seq(Names)  BY <1>1, <1>3, <1>4
  <2>2. g \in Files /\ Alike(f, g)  BY <1>5, <2>1, WireAlike
  <2> QED  BY <1>2, <2>2
<1>6. CASE g = InstrumentFile(f, c)
  <2>1. Spanned(f, g, c)  BY <1>6, InstrumentParts
  <2>2. g \in Files /\ Alike(f, g)  BY <2>1, SpannedAlike DEF Spanned
  <2> QED  BY <1>2, <2>2
<1>7. CASE g = f  BY <1>2, <1>7, SameAlike
<1> QED  BY <1>2, <1>4, <1>5, <1>6, <1>7 DEF RewriteOf

\* The step, if it is no error.
Rewriting(t, g) ==
  /\ Elems(todo) = {t} \cup Elems(todo') /\ todo' \in Seq(TargetRecords)
  /\ UNCHANGED <<cfg, cmd, dry, own, settled>>
  /\ files' = IF dry THEN files ELSE [files EXCEPT ![t.path] = g]
  /\ RewriteOf(t, g)

LEMMA RewriteParts ==
  ASSUME IInv, RInv, RewriteTarget
  PROVE  \/ End("error") /\ UNCHANGED settled
         \/ \E t \in TargetRecords : \E g : Rewriting(t, g)
<1>1. todo # <<>> /\ todo \in Seq(TargetRecords)  BY DEF RewriteTarget, RInv
<1>2. PICK t : t = Head(todo)  OBVIOUS
<1>3. CASE cmd = "wire" /\ WireFails(files[t.path], cfg, t.isMain)
  BY <1>2, <1>3 DEF RewriteTarget
<1>4. CASE ~(cmd = "wire" /\ WireFails(files[t.path], cfg, t.isMain))
  <2>1. /\ files' = IF dry THEN files ELSE [files EXCEPT ![t.path] = Rewritten(t)]
        /\ todo' = Tail(todo) /\ UNCHANGED <<cfg, cmd, dry, own, settled>>
    BY <1>2, <1>4 DEF RewriteTarget, ghosts
  <2>2. PICK g : g = Rewritten(t)  OBVIOUS
  <2>3. cmd \in Commands  BY <1>1 DEF IInv, AtWork
  <2>4. RewriteOf(t, g)  BY <1>4, <2>2, <2>3 DEF RewriteOf, Rewritten, Commands
  <2>5. /\ t \in TargetRecords /\ todo' \in Seq(TargetRecords)
        /\ Elems(todo) = {t} \cup Elems(todo')
    <3>1. PICK n \in Nat : n = Len(todo)  BY <1>1, LenProperties
    <3>2. DOMAIN todo = 1 .. n /\ n >= 1  BY <1>1, <3>1, LenProperties, EmptySeq
    <3>3. t = todo[1] /\ t \in TargetRecords  BY <1>1, <1>2, <3>2, ElementOfSeq
    <3>4. PICK rest : rest = Tail(todo)  OBVIOUS
    <3>5. rest \in Seq(TargetRecords) /\ Len(rest) = n - 1 /\ DOMAIN rest = 1 .. n - 1
          /\ \A i \in 1 .. n - 1 : rest[i] = todo[i + 1]
      BY <1>1, <3>1, <3>4, HeadTailProperties
    <3>6. ASSUME NEW x \in Elems(todo)  PROVE x = t \/ x \in Elems(rest)
      <4>1. PICK i \in 1 .. n : x = todo[i]  BY <3>2 DEF Elems
      <4>2. CASE i = 1  BY <3>3, <4>1, <4>2
      <4>3. CASE i # 1
        <5>1. i - 1 \in 1 .. n - 1 /\ (i - 1) + 1 = i  BY <4>3
        <5>2. x = rest[i - 1]  BY <3>5, <4>1, <5>1
        <5> QED  BY <3>5, <5>1, <5>2 DEF Elems
      <4> QED  BY <4>2, <4>3
    <3>7. t \in Elems(todo)
      <4>1. 1 \in DOMAIN todo  BY <3>2
      <4> QED  BY <3>3, <4>1 DEF Elems
    <3>8. ASSUME NEW x \in Elems(rest)  PROVE x \in Elems(todo)
      <4>1. PICK i \in 1 .. n - 1 : x = rest[i]  BY <3>5 DEF Elems
      <4>2. i + 1 \in DOMAIN todo /\ x = todo[i + 1]  BY <3>2, <3>5, <4>1
      <4> QED  BY <4>2 DEF Elems
    <3> QED  BY <2>1, <3>3, <3>4, <3>5, <3>6, <3>7, <3>8
  <2>6. Rewriting(t, g)  BY <2>1, <2>2, <2>4, <2>5 DEF Rewriting
  <2> QED  BY <2>5, <2>6
<1> QED  BY <1>3, <1>4

LEMMA RewritingTree ==
  ASSUME IInv, NEW t \in TargetRecords, NEW g, Rewriting(t, g)
  PROVE  /\ t.path \in Paths
         /\ \A p \in Paths : files'[p] = IF p = t.path /\ ~dry THEN g ELSE files[p]
         /\ \A p \in Paths : Alike(files[p], files'[p])
         /\ TargetsNow' = TargetsNow
<1>1. t.path \in Paths  BY DEF TargetRecords
<1>2. files \in [Paths -> Files]  BY DEF IInv, TypeOK
<1>3. \A p \in Paths : files'[p] = IF p = t.path /\ ~dry THEN g ELSE files[p]
  BY <1>1, <1>2 DEF Rewriting
<1>4. Alike(files[t.path], g)  BY RewriteOfAlike DEF Rewriting
<1>5. ASSUME NEW p \in Paths  PROVE Alike(files[p], files'[p])
  <2>1. CASE p = t.path /\ ~dry  BY <1>3, <1>4, <2>1
  <2>2. CASE ~(p = t.path /\ ~dry)
    <3>1. files'[p] = files[p]  BY <1>3, <2>2
    <3> QED  BY <3>1, SameAlike
  <2> QED  BY <2>1, <2>2
<1>6. TargetsNow' = TargetsNow
  <2>1. cfg' = cfg  BY DEF Rewriting
  <2>2. PICK tree, new, c : tree = files /\ new = files' /\ c = cfg  OBVIOUS
  <2>3. \A p \in Paths : Alike(tree[p], new[p])  BY <1>5, <2>2
  <2>4. Targets(new, c, Walk) = Targets(tree, c, Walk)  BY <2>3, SameTargets
  <2> QED  BY <2>1, <2>2, <2>4 DEF TargetsNow
<1> QED  BY <1>1, <1>3, <1>5, <1>6

LEMMA PlainNeat ==
  ASSUME Neat, Plain, NEW p \in Paths, NEW i \in DOMAIN files[p].funcs
  PROVE  FuncNeat(files[p].funcs[i])
<1>1. PICK f, o : f = files[p] /\ o = own[p]  OBVIOUS
<1>2. NeatFrom(f, o)  BY <1>1 DEF Neat
<1>3. i \in DOMAIN o.funcs  BY <1>1, <1>2 DEF NeatFrom
<1>4. PICK fn : fn = o.funcs[i]  OBVIOUS
<1>5. fn \in Elems(o.funcs)  BY <1>3, <1>4 DEF Elems
<1>6. /\ \A s \in Elems(fn.body) : Replaceable(s)
      /\ fn.name # "main" => SpansFirst(fn.body)
  BY <1>1, <1>5 DEF Plain
<1>7. FuncPlain(fn)  BY <1>6 DEF FuncPlain, AllReplaceable
<1> QED  BY <1>1, <1>2, <1>3, <1>4, <1>7 DEF NeatFrom

LEMMA TargetsApart ==
  ASSUME IInv
  PROVE  /\ TargetsNow \subseteq TargetRecords
         /\ \A t, u \in TargetsNow : t.path = u.path => t = u
<1>1. PICK targets : targets = Targets(files, cfg, Walk)  OBVIOUS
<1>2. PICK tree, c : tree = files /\ c = cfg  OBVIOUS
<1>3. c \in Configs /\ targets = Targets(tree, c, Walk)  BY <1>1, <1>2 DEF IInv, TypeOK
<1>4. targets \in Seq(TargetRecords)  BY <1>3, TargetsTyped
<1>5. \A x, y \in Elems(targets) : x.path = y.path => x = y  BY <1>3, TargetsTyped
<1>6. Elems(targets) \subseteq TargetRecords
  <2>1. DOMAIN targets = 1 .. Len(targets)  BY <1>4, LenProperties
  <2>2. \A i \in 1 .. Len(targets) : targets[i] \in TargetRecords  BY <1>4, ElementOfSeq
  <2> QED  BY <2>1, <2>2 DEF Elems
<1> QED  BY <1>1, <1>5, <1>6 DEF TargetsNow

\* A target that is wired stays so, and wire's becomes so.
LEMMA RewritingWires ==
  ASSUME IInv, Neat, Plain, NEW t \in TargetRecords, NEW g, Rewriting(t, g),
         cmd = "wire" => t \in TargetsNow,
         NEW u \in TargetsNow, WiredNow(u) \/ (cmd = "wire" /\ ~dry /\ u = t)
  PROVE  WiredNow(u)'
<1>1. /\ t.path \in Paths /\ t.isMain \in BOOLEAN
      /\ \A p \in Paths : files'[p] = IF p = t.path /\ ~dry THEN g ELSE files[p]
  BY RewritingTree DEF TargetRecords
<1>2. cfg' = cfg /\ RewriteOf(t, g)  BY DEF Rewriting
<1>3. cfg \in Configs /\ files \in [Paths -> Files] /\ own \in [Paths -> Files]
  BY DEF IInv, TypeOK
<1>4. u \in TargetRecords /\ (t \in TargetsNow /\ t.path = u.path => t = u)  BY TargetsApart
<1>5. u.path \in Paths  BY <1>4 DEF TargetRecords
<1>6. CASE ~(u.path = t.path /\ ~dry)
  <2>1. files'[u.path] = files[u.path]  BY <1>1, <1>5, <1>6
  <2>2. WiredNow(u)  BY <1>6
  <2> QED  BY <1>2, <2>1, <2>2 DEF WiredNow
<1>7. CASE u.path = t.path /\ ~dry
  <2>1. PICK f \in Files : f = files[t.path]  BY <1>1, <1>3
  <2>2. files'[u.path] = g  BY <1>1, <1>7
  <2>3. PICK c, isMain : c = cfg /\ isMain = t.isMain  OBVIOUS
  <2>4. c.jobs \in Seq(Names) /\ isMain \in BOOLEAN  BY <1>1, <1>3, <2>3 DEF Configs
  <2>5. CASE cmd = "wire" /\ ~WireFails(f, c, isMain) /\ g = WireFile(f, c, isMain)
    <3>1. \A i \in DOMAIN f.funcs : AllReplaceable(f.funcs[i].body)
      <4> SUFFICES ASSUME NEW i \in DOMAIN f.funcs  PROVE AllReplaceable(f.funcs[i].body)
        OBVIOUS
      <4>1. FuncNeat(f.funcs[i])  BY <1>1, <2>1, PlainNeat
      <4> QED  BY <4>1 DEF FuncNeat
    <3>2. Wired(g, c, isMain)  BY <2>4, <2>5, <3>1, WireSettles
    <3>3. u = t  BY <1>4, <1>7, <2>5
    <3> QED  BY <1>2, <2>2, <2>3, <3>2, <3>3 DEF WiredNow
  <2>6. CASE cmd = "instrument" /\ (g = InstrumentFile(f, c) \/ g = f)
    <3>1. WiredNow(u)  BY <2>6
    <3>2. PICK main : main = u.isMain  OBVIOUS
    <3>3. Wired(f, c, main)  BY <1>7, <2>1, <2>3, <3>1, <3>2 DEF WiredNow
    <3>4. Wired(g, c, main)
      <4>1. CASE g = f  BY <3>3, <4>1
      <4>2. CASE g = InstrumentFile(f, c)
        <5>1. Spanned(f, g, c)  BY <4>2, InstrumentParts
        <5> QED  BY <3>3, <5>1, SpannedKeepsWired
      <4> QED  BY <2>6, <4>1, <4>2
    <3> QED  BY <1>2, <2>2, <2>3, <3>2, <3>4 DEF WiredNow
  <2> QED  BY <1>2, <2>1, <2>3, <2>5, <2>6 DEF RewriteOf
<1> QED  BY <1>6, <1>7

\* A file that has its spans keeps them in sight, or does not build.
LEMMA RewritingSpans ==
  ASSUME IInv, Neat, Plain, NEW t \in TargetRecords, NEW g, Rewriting(t, g),
         NEW p \in Paths, SpannedNow(p) \/ (cmd = "instrument" /\ ~dry /\ t.path = p)
  PROVE  SpannedNow(p)' \/ (cmd = "wire" /\ HeadlessNow')
<1>1. /\ t.path \in Paths /\ t.isMain \in BOOLEAN
      /\ \A q \in Paths : files'[q] = IF q = t.path /\ ~dry THEN g ELSE files[q]
  BY RewritingTree DEF TargetRecords
<1>2. cfg' = cfg /\ RewriteOf(t, g)  BY DEF Rewriting
<1>3. cfg \in Configs /\ files \in [Paths -> Files] /\ own \in [Paths -> Files]
  BY DEF IInv, TypeOK
<1>4. CASE ~(p = t.path /\ ~dry)
  <2>1. files'[p] = files[p]  BY <1>1, <1>4
  <2>2. SpannedNow(p)  BY <1>4
  <2> QED  BY <1>2, <2>1, <2>2 DEF SpannedNow
<1>5. CASE p = t.path /\ ~dry
  <2>1. PICK f \in Files : f = files[p]  BY <1>3
  <2>2. files'[p] = g  BY <1>1, <1>5
  <2>3. PICK c, isMain : c = cfg /\ isMain = t.isMain  OBVIOUS
  <2>4. c.jobs \in Seq(Names) /\ isMain \in BOOLEAN  BY <1>1, <1>3, <2>3 DEF Configs
  <2>5. CASE ~ShouldInstrument(p, cfg)  BY <1>2, <2>5 DEF SpannedNow
  <2>6. CASE /\ ShouldInstrument(p, cfg) /\ cmd = "wire"
             /\ ~WireFails(f, c, isMain) /\ g = WireFile(f, c, isMain)
    <3>1. Instrumented(f, c)  BY <2>1, <2>3, <2>6 DEF SpannedNow
    <3>2. \A i \in DOMAIN f.funcs : f.funcs[i].name # "main" => Ordered(f.funcs[i].body)
      <4> SUFFICES ASSUME NEW i \in DOMAIN f.funcs
                   PROVE  f.funcs[i].name # "main" => Ordered(f.funcs[i].body)
        OBVIOUS
      <4>1. FuncNeat(f.funcs[i])  BY <2>1, PlainNeat
      <4> QED  BY <4>1 DEF FuncNeat
    <3>3. Instrumented(g, c) \/ SomeHeadless(g)
      BY <2>4, <2>6, <3>1, <3>2, WireKeepsInstrumented
    <3>4. CASE Instrumented(g, c)  BY <1>2, <2>2, <2>3, <3>4 DEF SpannedNow
    <3>5. CASE SomeHeadless(g)  BY <2>2, <2>6, <3>5 DEF HeadlessNow
    <3> QED  BY <3>3, <3>4, <3>5
  <2>7. CASE ShouldInstrument(p, cfg) /\ g = InstrumentFile(f, c)
    <3>1. Spanned(f, g, c)  BY <2>7, InstrumentParts
    <3>2. Instrumented(g, c)  BY <3>1, InstrumentSettles
    <3> QED  BY <1>2, <2>2, <2>3, <3>2 DEF SpannedNow
  <2> QED  BY <1>2, <1>5, <2>1, <2>3, <2>5, <2>6, <2>7 DEF RewriteOf
<1> QED  BY <1>4, <1>5

\* A step that ends a run, or leaves everything alone.
LEMMA SettlesStill ==
  ASSUME RInv, UNCHANGED <<files, cfg, own>>,
         settled' = settled, todo' \in Seq(TargetRecords),
         \/ cmd' = cmd /\ dry' = dry /\ todo' = todo
         \/ cmd' = "idle"
  PROVE  RInv'
<1>1. Neat /\ settled \subseteq Commands /\ (Plain => Settling)  BY DEF RInv
<1>2. Neat'  BY <1>1 DEF Neat
<1>3. ASSUME Plain'  PROVE Settling'
  <2>1. Plain  BY <1>3 DEF Plain
  <2>2. WireSettled /\ WireUnderway /\ InstrumentSettled /\ InstrumentUnderway
    BY <1>1, <2>1 DEF Settling
  <2>3. /\ TargetsNow' = TargetsNow /\ (HeadlessNow' <=> HeadlessNow)
        /\ \A t : WiredNow(t)' <=> WiredNow(t)
        /\ \A p : SpannedNow(p)' <=> SpannedNow(p)
    BY DEF TargetsNow, HeadlessNow, WiredNow, SpannedNow
  <2>4. WireSettled'  BY <2>2, <2>3 DEF WireSettled
  <2>5. WireUnderway'  BY <2>2, <2>3 DEF WireUnderway
  <2>6. InstrumentSettled'  BY <2>2, <2>3 DEF InstrumentSettled
  <2>7. InstrumentUnderway'  BY <2>2, <2>3 DEF InstrumentUnderway
  <2> QED  BY <2>4, <2>5, <2>6, <2>7 DEF Settling
<1> QED  BY <1>1, <1>2, <1>3 DEF RInv

LEMMA SettlesEnd ==
  ASSUME RInv, NEW result, End(result), UNCHANGED settled  PROVE RInv'
<1>1. /\ UNCHANGED <<files, cfg, own>> /\ settled' = settled /\ cmd' = "idle" /\ todo' = <<>>
  BY DEF End
<1>2. todo' \in Seq(TargetRecords)  BY <1>1, EmptySeq
<1> QED  BY <1>1, <1>2, SettlesStill

LEMMA SettlesComplete == ASSUME IInv, RInv, Complete  PROVE RInv'
<1>1. /\ UNCHANGED <<files, cfg, own>> /\ cmd' = "idle" /\ todo' = <<>> /\ todo = <<>>
      /\ settled' = IF dry THEN settled ELSE settled \cup {cmd}
  BY DEF Complete, End
<1>2. cmd \in Commands  BY DEF IInv, AtWork, Complete
<1>3. Neat /\ settled \subseteq Commands /\ (Plain => Settling)  BY DEF RInv
<1>4. Neat' /\ settled' \subseteq Commands /\ todo' \in Seq(TargetRecords)
  <2>1. Neat'  BY <1>1, <1>3 DEF Neat
  <2>2. todo' \in Seq(TargetRecords)  BY <1>1, EmptySeq
  <2>3. settled' \subseteq Commands  BY <1>1, <1>2, <1>3
  <2> QED  BY <2>1, <2>2, <2>3
<1>5. ASSUME Plain'  PROVE Settling'
  <2>1. Plain  BY <1>1, <1>5 DEF Plain
  <2>2. WireSettled /\ WireUnderway /\ InstrumentSettled /\ InstrumentUnderway
    BY <1>3, <2>1 DEF Settling
  <2>3. /\ TargetsNow' = TargetsNow /\ (HeadlessNow' <=> HeadlessNow)
        /\ \A t : WiredNow(t)' <=> WiredNow(t)
        /\ \A p : SpannedNow(p)' <=> SpannedNow(p)
    BY <1>1 DEF TargetsNow, HeadlessNow, WiredNow, SpannedNow
  <2>4. Elems(todo) = {}  BY <1>1, NoElems
  <2>5. WireSettled'
    <3> SUFFICES ASSUME "wire" \in settled'  PROVE \A t \in TargetsNow : WiredNow(t)
      BY <2>3 DEF WireSettled
    <3>1. "wire" \in settled \/ (cmd = "wire" /\ ~dry)  BY <1>1
    <3>2. CASE "wire" \in settled  BY <2>2, <3>2 DEF WireSettled
    <3>3. CASE cmd = "wire" /\ ~dry  BY <2>2, <2>4, <3>3 DEF WireUnderway
    <3> QED  BY <3>1, <3>2, <3>3
  <2>6. WireUnderway' /\ InstrumentUnderway'
    BY <1>1 DEF WireUnderway, InstrumentUnderway
  <2>7. InstrumentSettled'
    <3> SUFFICES ASSUME "instrument" \in settled'
                 PROVE  (\A p \in Paths : SpannedNow(p)) \/ HeadlessNow
      BY <1>1, <2>3 DEF InstrumentSettled
    <3>1. "instrument" \in settled \/ (cmd = "instrument" /\ ~dry)  BY <1>1
    <3>2. CASE "instrument" \in settled  BY <2>2, <3>2 DEF InstrumentSettled
    <3>3. CASE cmd = "instrument" /\ ~dry  BY <2>2, <2>4, <3>3 DEF InstrumentUnderway
    <3> QED  BY <3>1, <3>2, <3>3
  <2> QED  BY <2>5, <2>6, <2>7 DEF Settling
<1> QED  BY <1>4, <1>5 DEF RInv

LEMMA SettlesStart ==
  ASSUME IInv, RInv, NEW d \in BOOLEAN, StartWire(d) \/ StartInstrument(d)  PROVE RInv'
<1>1. Neat /\ settled \subseteq Commands /\ (Plain => Settling)  BY DEF RInv
<1>2. CASE End("error") /\ UNCHANGED settled  BY <1>2, SettlesEnd
<1>3. ASSUME NEW c, NEW targets, Begin(c, d, targets), targets \in Seq(TargetRecords),
             c = "wire" => Elems(targets) = TargetsNow,
             c = "instrument" => /\ \A p \in Paths : Builds(files[p])
                                 /\ \A p \in Paths : \E t \in Elems(targets) : t.path = p
      PROVE  RInv'
  <2>1. /\ UNCHANGED <<files, cfg, own, settled>> /\ cmd' = c /\ dry' = d /\ todo' = targets
    BY <1>3 DEF Begin, ghosts
  <2>2. Neat'  BY <1>1, <2>1 DEF Neat
  <2>3. ASSUME Plain'  PROVE Settling'
    <3>1. Plain  BY <2>1, <2>3 DEF Plain
    <3>2. WireSettled /\ InstrumentSettled  BY <1>1, <3>1 DEF Settling
    <3>3. /\ TargetsNow' = TargetsNow /\ (HeadlessNow' <=> HeadlessNow)
          /\ \A t : WiredNow(t)' <=> WiredNow(t)
          /\ \A p : SpannedNow(p)' <=> SpannedNow(p)
      BY <2>1 DEF TargetsNow, HeadlessNow, WiredNow, SpannedNow
    <3>4. WireSettled'  BY <2>1, <3>2, <3>3 DEF WireSettled
    <3>5. WireUnderway'  BY <1>3, <2>1, <3>3 DEF WireUnderway
    <3>6. InstrumentSettled'
      <4>1. c = "instrument" => ~HeadlessNow
        <5> SUFFICES ASSUME c = "instrument", NEW p \in Paths, SomeHeadless(files[p])
                     PROVE  FALSE
          BY DEF HeadlessNow
        <5>1. PICK f \in Files : f = files[p]  BY DEF IInv, TypeOK
        <5>2. Builds(f)  BY <1>3, <5>1
        <5> QED  BY <5>1, <5>2, BuildsHeaded
      <4> QED  BY <2>1, <3>2, <3>3, <4>1 DEF InstrumentSettled
    <3>7. InstrumentUnderway'  BY <1>3, <2>1 DEF InstrumentUnderway
    <3> QED  BY <3>4, <3>5, <3>6, <3>7 DEF Settling
  <2> QED  BY <1>1, <1>3, <2>1, <2>2, <2>3 DEF RInv
<1>4. CASE StartWire(d)
  <2>1. CASE Begin("wire", d, Targets(files, cfg, Walk))
    <3>1. PICK c, targets : c = "wire" /\ targets = Targets(files, cfg, Walk)  OBVIOUS
    <3>2. targets \in Seq(TargetRecords)
      <4>1. PICK tree, k : tree = files /\ k = cfg  OBVIOUS
      <4>2. k \in Configs /\ targets = Targets(tree, k, Walk)
        BY <3>1, <4>1 DEF IInv, TypeOK
      <4> QED  BY <4>2, TargetsTyped
    <3>3. Elems(targets) = TargetsNow  BY <3>1 DEF TargetsNow
    <3>4. Begin(c, d, targets) /\ c # "instrument"  BY <2>1, <3>1
    <3> QED  BY <1>3, <3>2, <3>3, <3>4
  <2> QED  BY <1>2, <1>4, <2>1 DEF StartWire
<1>5. CASE StartInstrument(d)
  <2>1. CASE /\ Begin("instrument", d, AsTargets(Walk, FALSE))
             /\ \A p \in Paths : Builds(files[p])
    <3>1. PICK c, targets : c = "instrument" /\ targets = AsTargets(Walk, FALSE)  OBVIOUS
    <3>2. Walk \in Seq(Paths)  BY CodegenAssumption
    <3>3. targets \in Seq(TargetRecords)  BY <3>1, <3>2, AsTargetsTyped
    <3>4. \A p \in Paths : \E t \in Elems(targets) : t.path = p
      BY <3>1, <3>2, AsTargetsTyped DEF Paths
    <3>5. Begin(c, d, targets) /\ c # "wire"  BY <2>1, <3>1
    <3> QED  BY <1>3, <2>1, <3>3, <3>4, <3>5
  <2> QED  BY <1>2, <1>5, <2>1 DEF StartInstrument
<1> QED  BY <1>4, <1>5

LEMMA SettlesRewriting == ASSUME IInv, RInv, RewriteTarget  PROVE RInv'
<1>1. Neat /\ todo \in Seq(TargetRecords) /\ settled \subseteq Commands /\ (Plain => Settling)
  BY DEF RInv
<1>2. CASE End("error") /\ UNCHANGED settled  BY <1>2, SettlesEnd
<1>3. CASE \E t \in TargetRecords : \E g : Rewriting(t, g)
  <2>1. PICK t \in TargetRecords : \E g : Rewriting(t, g)  BY <1>3
  <2>2. PICK g : Rewriting(t, g)  BY <2>1
  <2>3. /\ Elems(todo) = {t} \cup Elems(todo') /\ todo' \in Seq(TargetRecords)
        /\ cmd' = cmd /\ dry' = dry /\ cfg' = cfg /\ own' = own /\ settled' = settled
    BY <2>2 DEF Rewriting
  <2>4. TargetsNow' = TargetsNow /\ \A p \in Paths : Alike(files[p], files'[p])
    BY <2>2, RewritingTree
  <2>5. Neat'
    <3> SUFFICES ASSUME NEW p \in Paths  PROVE NeatFrom(files'[p], own[p])
      BY <2>3 DEF Neat
    <3>1. NeatFrom(files[p], own[p]) /\ Alike(files[p], files'[p])  BY <1>1, <2>4 DEF Neat
    <3>2. PICK f, h, o : f = files[p] /\ h = files'[p] /\ o = own[p]  OBVIOUS
    <3>3. NeatFrom(h, o)  BY <3>1, <3>2, NeatAlike
    <3> QED  BY <3>2, <3>3
  <2>6. ASSUME Plain'  PROVE Settling'
    <3>1. Plain  BY <2>3, <2>6 DEF Plain
    <3>2. WireSettled /\ WireUnderway /\ InstrumentSettled /\ InstrumentUnderway
      BY <1>1, <3>1 DEF Settling
    <3>3. cmd = "wire" => t \in TargetsNow  BY <2>3, <3>2 DEF WireUnderway
    <3>4. \A u \in TargetsNow : WiredNow(u) \/ (cmd = "wire" /\ ~dry /\ u = t) => WiredNow(u)'
      BY <1>1, <2>2, <3>1, <3>3, RewritingWires
    <3>5. \A p \in Paths : SpannedNow(p) \/ (cmd = "instrument" /\ ~dry /\ t.path = p)
                             => SpannedNow(p)' \/ (cmd = "wire" /\ HeadlessNow')
      BY <1>1, <2>2, <3>1, RewritingSpans
    <3>6. WireSettled'  BY <2>3, <2>4, <3>2, <3>4 DEF WireSettled
    <3>7. WireUnderway'
      <4> SUFFICES ASSUME cmd = "wire"
                   PROVE  /\ Elems(todo') \subseteq TargetsNow
                          /\ ~dry => \A u \in TargetsNow : u \in Elems(todo') \/ WiredNow(u)'
        BY <2>3, <2>4 DEF WireUnderway
      <4>1. Elems(todo') \subseteq TargetsNow  BY <2>3, <3>2 DEF WireUnderway
      <4>2. ASSUME ~dry, NEW u \in TargetsNow  PROVE u \in Elems(todo') \/ WiredNow(u)'
        <5>1. u \in Elems(todo) \/ WiredNow(u)  BY <3>2, <4>2 DEF WireUnderway
        <5>2. u = t \/ u \in Elems(todo') \/ WiredNow(u)  BY <2>3, <5>1
        <5> QED  BY <3>4, <4>2, <5>2
      <4> QED  BY <4>1, <4>2
    <3>8. HeadlessNow => HeadlessNow'
      <4> SUFFICES ASSUME NEW p \in Paths, SomeHeadless(files[p])  PROVE HeadlessNow'
        BY DEF HeadlessNow
      <4>1. PICK f, h : f = files[p] /\ h = files'[p]  OBVIOUS
      <4>2. Alike(f, h) /\ SomeHeadless(f)  BY <2>4, <4>1
      <4>3. SomeHeadless(h)  BY <4>2, HeadlessStays
      <4> QED  BY <4>1, <4>3 DEF HeadlessNow
    <3>9. InstrumentSettled'
      <4> SUFFICES ASSUME "instrument" \in settled
                   PROVE  (\A p \in Paths : SpannedNow(p)') \/ (cmd # "instrument" /\ HeadlessNow')
        BY <2>3 DEF InstrumentSettled
      <4>1. (\A p \in Paths : SpannedNow(p)) \/ (cmd # "instrument" /\ HeadlessNow)
        BY <3>2 DEF InstrumentSettled
      <4>2. CASE \A p \in Paths : SpannedNow(p)
        <5>1. \A p \in Paths : SpannedNow(p)' \/ (cmd = "wire" /\ HeadlessNow')
          BY <3>5, <4>2
        <5> QED  BY <5>1
      <4>3. CASE cmd # "instrument" /\ HeadlessNow  BY <3>8, <4>3
      <4> QED  BY <4>1, <4>2, <4>3
    <3>10. InstrumentUnderway'
      <4> SUFFICES ASSUME cmd = "instrument", ~dry, NEW p \in Paths
                   PROVE  SpannedNow(p)' \/ \E u \in Elems(todo') : u.path = p
        BY <2>3 DEF InstrumentUnderway
      <4>1. SpannedNow(p) \/ \E u \in Elems(todo) : u.path = p  BY <3>2 DEF InstrumentUnderway
      <4>2. SpannedNow(p) \/ t.path = p \/ \E u \in Elems(todo') : u.path = p
        BY <2>3, <4>1
      <4> QED  BY <3>5, <4>2
    <3> QED  BY <3>6, <3>7, <3>9, <3>10 DEF Settling
  <2> QED  BY <1>1, <2>3, <2>5, <2>6 DEF RInv
<1> QED  BY <1>2, <1>3, RewriteParts

LEMMA SettlesAtFirst == Init => RInv
<1> SUFFICES ASSUME Init  PROVE RInv  OBVIOUS
<1>1. PICK project \in Projects : files = project.files /\ own = project.files  BY DEF Init
<1>2. cmd = "idle" /\ todo = <<>> /\ settled = {}  BY DEF Init
<1>3. ASSUME NEW p \in Paths  PROVE NeatFrom(files[p], own[p])
  <2>1. /\ project.files \in [Paths -> Files]
        /\ \A fn \in Elems(project.files[p].funcs) : ByHand(fn.body)
    BY CodegenAssumption
  <2>2. PICK f \in Files : f = project.files[p]  BY <2>1
  <2>3. NeatFrom(f, f)  BY <2>1, <2>2, NeatAtFirst
  <2> QED  BY <1>1, <2>2, <2>3
<1>4. todo \in Seq(TargetRecords)  BY <1>2, EmptySeq
<1>5. Settling
  BY <1>2 DEF Settling, WireSettled, WireUnderway, InstrumentSettled, InstrumentUnderway
<1> QED  BY <1>2, <1>3, <1>4, <1>5 DEF RInv, Neat

LEMMA SettlesEdit == ASSUME RInv, Edit, Neat'  PROVE RInv'
<1>1. cmd' = "idle" /\ todo' = todo /\ settled' = {}  BY DEF Edit
<1>2. Settling'
  BY <1>1 DEF Settling, WireSettled, WireUnderway, InstrumentSettled, InstrumentUnderway
<1> QED  BY <1>1, <1>2 DEF RInv

LEMMA SettlesNext == IInv /\ RInv /\ [Next]_vars => RInv'
<1> SUFFICES ASSUME IInv, RInv, [Next]_vars  PROVE RInv'  OBVIOUS
<1>1. CASE \E d \in BOOLEAN : StartWire(d) \/ StartInstrument(d)  BY <1>1, SettlesStart
<1>2. CASE RewriteTarget  BY <1>2, SettlesRewriting
<1>3. CASE Complete  BY <1>3, SettlesComplete
<1>4. CASE Interrupt  BY <1>4, SettlesEnd DEF Interrupt
<1>5. CASE Reconfigure
  <2>1. Neat'  BY <1>5 DEF Reconfigure, RInv, Neat
  <2> QED  BY <1>5, <2>1, SettlesEdit DEF Reconfigure
<1>6. CASE AddLine
  <2>1. Neat'  BY <1>6, LineNeat DEF RInv
  <2> QED  BY <1>6, <2>1, SettlesEdit DEF AddLine
<1>7. CASE AddCall
  <2>1. Neat'  BY <1>7, CallNeat DEF RInv
  <2> QED  BY <1>7, <2>1, SettlesEdit DEF AddCall
<1>8. CASE UNCHANGED vars
  <2>1. /\ UNCHANGED <<files, cfg, own>> /\ settled' = settled /\ todo' = todo
        /\ cmd' = cmd /\ dry' = dry
    BY <1>8 DEF vars
  <2>2. todo' \in Seq(TargetRecords)  BY <2>1 DEF RInv
  <2> QED  BY <2>1, <2>2, SettlesStill
<1> QED  BY <1>1, <1>2, <1>3, <1>4, <1>5, <1>6, <1>7, <1>8 DEF Next

\* The step of a command that has completed.
LEMMA SettledWritesNothing ==
  ASSUME IInv, RInv, RewriteTarget, Plain, cmd \in settled
  PROVE  files' = files
<1>1. WireSettled /\ WireUnderway /\ InstrumentSettled  BY DEF RInv, Settling
<1>2. files \in [Paths -> Files] /\ cfg \in Configs  BY DEF IInv, TypeOK
<1>3. CASE End("error")  BY <1>3 DEF End
<1>4. CASE \E t \in TargetRecords : \E g : Rewriting(t, g)
  <2>1. PICK t \in TargetRecords : \E g : Rewriting(t, g)  BY <1>4
  <2>2. PICK g : Rewriting(t, g)  BY <2>1
  <2>3. /\ files' = IF dry THEN files ELSE [files EXCEPT ![t.path] = g]
        /\ RewriteOf(t, g) /\ t \in Elems(todo)
    BY <2>2 DEF Rewriting
  <2>4. t.path \in Paths /\ t.isMain \in BOOLEAN  BY DEF TargetRecords
  <2>5. PICK f \in Files : f = files[t.path]  BY <1>2, <2>4
  <2>6. PICK c, isMain : c = cfg /\ isMain = t.isMain  OBVIOUS
  <2>7. c.jobs \in Seq(Names) /\ isMain \in BOOLEAN  BY <1>2, <2>4, <2>6 DEF Configs
  <2>8. g = f
    <3>1. CASE cmd = "wire" /\ g = WireFile(f, c, isMain)
      <4>1. t \in TargetsNow  BY <1>1, <2>3, <3>1 DEF WireUnderway
      <4>2. WiredNow(t)  BY <1>1, <3>1, <4>1 DEF WireSettled
      <4>3. Wired(f, c, isMain)  BY <2>5, <2>6, <4>2 DEF WiredNow
      <4> QED  BY <2>7, <3>1, <4>3, WiredStays
    <3>2. CASE /\ cmd = "instrument" /\ ShouldInstrument(t.path, cfg)
               /\ g = InstrumentFile(f, c)
      <4>1. SpannedNow(t.path)  BY <1>1, <2>4, <3>2 DEF InstrumentSettled
      <4>2. Instrumented(f, c)  BY <2>5, <2>6, <3>2, <4>1 DEF SpannedNow
      <4> QED  BY <3>2, <4>2, InstrumentedStays
    <3>3. CASE g = f  BY <3>3
    <3> QED  BY <2>3, <2>5, <2>6, <3>1, <3>2, <3>3 DEF RewriteOf
  <2>9. [files EXCEPT ![t.path] = g] = files  BY <1>2, <2>4, <2>5, <2>8
  <2> QED  BY <2>3, <2>9
<1> QED  BY <1>3, <1>4, RewriteParts

\* Running a command again once it has completed leaves every file as it is, whatever ran, failed
\* or was cut short in between, for every tree whose hooks are not the developer's own and
\* whose spans stand above its routers.
THEOREM RerunKept == Spec => RerunWritesNothing
<1>1. ASSUME IInv, RInv, [Next]_vars
      PROVE  [Plain /\ cmd \in settled => files' = files]_vars
  <2> SUFFICES ASSUME Plain, cmd \in settled, Next  PROVE files' = files
    BY <1>1
  <2>1. cmd # "idle"
    <3>1. settled \subseteq {"wire", "instrument"}  BY <1>1 DEF RInv, Commands
    <3> QED  BY <3>1
  <2>2. CASE \E d \in BOOLEAN : StartWire(d) \/ StartInstrument(d)
    BY <2>1, <2>2 DEF StartWire, StartInstrument
  <2>3. CASE RewriteTarget  BY <1>1, <2>3, SettledWritesNothing
  <2>4. CASE Complete \/ Interrupt  BY <2>4 DEF Complete, Interrupt, End
  <2>5. CASE Reconfigure \/ AddLine \/ AddCall
    BY <2>1, <2>5 DEF Reconfigure, AddLine, AddCall, Edit
  <2> QED  BY <2>2, <2>3, <2>4, <2>5 DEF Next
<1>2. IInv /\ RInv /\ [Next]_vars => RInv'  BY SettlesNext
<1>3. Init => RInv  BY SettlesAtFirst
<1>4. Spec => []IInv  BY CodegenInvariant
<1>5. Spec => []RInv  BY <1>2, <1>3, <1>4, PTL DEF Spec
<1> QED  BY <1>1, <1>4, <1>5, PTL DEF Spec, RerunWritesNothing

-------------------------------------------------------------------------------
(* wire and instrument commute.                                              *)

\* A span and its defer are no router and no middleware.
LEMMA InjectFuncFinds ==
  ASSUME NEW fn \in Funcs, NEW g, g = InjectFunc(fn)
  PROVE  /\ \A lib : Creates(g, lib) <=> Creates(fn, lib)
         /\ \A lib \in Frameworks : HasMiddleware(g, lib) <=> HasMiddleware(fn, lib)
<1>1. PICK b1, s, d :
        /\ Inserted(fn.body, b1, 0, d) /\ d = DeferStmt
        /\ Inserted(b1, g.body, 0, s) /\ s = SpanStmt(fn.ctx)
  BY InjectFuncParts
<1>2. d.k = "defer" /\ Elems(d.dv) = {}  BY <1>1, DeferStmtOne
<1>3. s.k = "span" /\ Elems(s.dv) = {"StartSpan"}  BY <1>1, SpanStmtOne
<1>4. \A lib : ~IsCreate(d, lib) /\ ~IsCreate(s, lib)  BY <1>2, <1>3 DEF IsCreate
<1>5. ASSUME NEW lib  PROVE Creates(g, lib) <=> Creates(fn, lib)
  <2>1. (\E x \in Elems(b1) : IsCreate(x, lib)) <=> \E x \in Elems(fn.body) : IsCreate(x, lib)
    BY <1>1, <1>4, InsertFinds
  <2>2. (\E x \in Elems(g.body) : IsCreate(x, lib)) <=> \E x \in Elems(b1) : IsCreate(x, lib)
    BY <1>1, <1>4, InsertFinds
  <2> QED  BY <2>1, <2>2 DEF Creates
<1>6. ASSUME NEW lib \in Frameworks  PROVE HasMiddleware(g, lib) <=> HasMiddleware(fn, lib)
  <2>1. PICK name : name = Middleware(lib)  OBVIOUS
  <2>2. name # "StartSpan"  BY <2>1 DEF Middleware, Frameworks
  <2>3. name \notin Elems(d.dv) /\ name \notin Elems(s.dv)  BY <1>2, <1>3, <2>2
  <2>4. Calls(b1, name) <=> Calls(fn.body, name)  BY <1>1, <2>3, InsertFinds
  <2>5. Calls(g.body, name) <=> Calls(b1, name)  BY <1>1, <2>3, InsertFinds
  <2> QED  BY <2>1, <2>4, <2>5 DEF HasMiddleware
<1> QED  BY <1>5, <1>6

\* So analyzeRouter plans the same for a file and for its instrumented form.
LEMMA SpannedPlan ==
  ASSUME NEW f \in Files, NEW g, NEW c, Spanned(f, g, c)
  PROVE  /\ Framework(g) = Framework(f) /\ AnalyzeRouter(g) = AnalyzeRouter(f)
         /\ Framework(f) \in Frameworks =>
              \A i \in DOMAIN f.funcs :
                ToWire(g.funcs[i], Framework(f)) <=> ToWire(f.funcs[i], Framework(f))
<1>1. g.skip = f.skip /\ DOMAIN g.funcs = DOMAIN f.funcs  BY DEF Spanned, SameHeader
<1>2. PICK lib : lib = Framework(f)  OBVIOUS
<1>3. Framework(g) = lib
  <2>1. \A x \in Frameworks : x \in g.imports <=> x \in f.imports  BY DEF Spanned, Frameworks
  <2> QED  BY <1>2, <2>1 DEF Framework, Frameworks
<1>4. lib \in Frameworks \/ lib = ""  BY <1>2 DEF Framework, Frameworks
<1>5. ASSUME NEW i \in DOMAIN f.funcs, lib \in Frameworks
      PROVE  /\ HasMiddleware(g.funcs[i], lib) <=> HasMiddleware(f.funcs[i], lib)
             /\ Creates(g.funcs[i], lib) <=> Creates(f.funcs[i], lib)
             /\ EndsAnalysis(g.funcs[i], lib) <=> EndsAnalysis(f.funcs[i], lib)
  <2>1. PICK fn, h : fn = f.funcs[i] /\ h = g.funcs[i]  OBVIOUS
  <2>2. fn \in Funcs /\ h = IF IsCandidate(fn, c) THEN InjectFunc(fn) ELSE fn
    BY <2>1 DEF Spanned
  <2>3. CASE h = InjectFunc(fn)
    <3>1. /\ HasMiddleware(h, lib) <=> HasMiddleware(fn, lib)
          /\ Creates(h, lib) <=> Creates(fn, lib)
      BY <1>5, <2>2, <2>3, InjectFuncFinds
    <3>2. h.param = fn.param  BY <2>2, <2>3, InjectFuncParts
    <3> QED  BY <2>1, <3>1, <3>2 DEF EndsAnalysis
  <2>4. CASE h = fn  BY <2>1, <2>4
  <2> QED  BY <2>2, <2>3, <2>4
<1>6. AnalyzeRouter(g) = AnalyzeRouter(f)
  <2>1. CASE "wire" \in f.skip \/ lib = ""
    BY <1>1, <1>2, <1>3, <2>1 DEF AnalyzeRouter
  <2>2. CASE ~("wire" \in f.skip \/ lib = "")
    <3>1. lib \in Frameworks  BY <1>4, <2>2
    <3>2. PICK m \in Nat : DOMAIN f.funcs = 1 .. m  BY FileParts
    <3>3. \A i \in DOMAIN f.funcs : \A j \in 1 .. i - 1 : j \in DOMAIN f.funcs  BY <3>2
    <3>4. PICK x \in BOOLEAN :
            x = \E i \in DOMAIN f.funcs : /\ HasMiddleware(f.funcs[i], lib)
                                          /\ \A j \in 1 .. i - 1 : ~EndsAnalysis(f.funcs[j], lib)
      OBVIOUS
    <3>5. x = \E i \in DOMAIN g.funcs : /\ HasMiddleware(g.funcs[i], lib)
                                        /\ \A j \in 1 .. i - 1 : ~EndsAnalysis(g.funcs[j], lib)
      BY <1>1, <1>5, <3>1, <3>3, <3>4
    <3>6. AnalyzeRouter(f) = [hooks |-> When(Middleware(lib), ~x), jobs |-> <<>>]
      BY <1>2, <2>2, <3>4 DEF AnalyzeRouter
    <3>7. AnalyzeRouter(g) = [hooks |-> When(Middleware(lib), ~x), jobs |-> <<>>]
      BY <1>1, <1>3, <2>2, <3>5 DEF AnalyzeRouter
    <3> QED  BY <3>6, <3>7
  <2> QED  BY <2>1, <2>2
<1> QED  BY <1>2, <1>3, <1>5, <1>6 DEF ToWire

LEMMA HeadShape ==
  ASSUME NEW b, NEW c, NEW e, Inserted(b, c, 0, e)
  PROVE  \E n \in Nat : /\ n = Len(b) /\ DOMAIN b = 1 .. n
                        /\ Len(c) = n + 1 /\ DOMAIN c = 1 .. n + 1
                        /\ c[1] = e /\ \A j \in 1 .. n : c[j + 1] = b[j]
<1>1. PICK n \in Nat : n = Len(b) /\ DOMAIN b = 1 .. n /\ DOMAIN c = 1 .. n + 1
  BY InsertedPlaces
<1>2. Len(c) = n + 1 /\ c[0 + 1] = e /\ \A j \in 0 + 1 .. n : c[j + 1] = b[j]
  BY <1>1 DEF Inserted
<1>3. c[1] = e /\ \A j \in 1 .. n : c[j + 1] = b[j]  BY <1>2
<1> QED  BY <1>1, <1>2, <1>3

\* A statement put at the head of a function moves the place of the middleware down with the
\* router, and leaves a place at the head where it is.
LEMMA HeadPlace ==
  ASSUME NEW b, NEW c, NEW e, Inserted(b, c, 0, e), e.k \notin Spots, NEW ident, NEW lib,
         NEW at \in Nat, IsPlace(b, ident, lib, at), NEW x \in Nat, IsPlace(c, ident, lib, x)
  PROVE  x = IF at = 0 THEN 0 ELSE at + 1
<1>1. PICK n \in Nat : /\ n = Len(b) /\ DOMAIN b = 1 .. n
                       /\ Len(c) = n + 1 /\ DOMAIN c = 1 .. n + 1
                       /\ c[1] = e /\ \A j \in 1 .. n : c[j + 1] = b[j]
  BY HeadShape
<1>2. ~TakesUse(c[1], ident) /\ ~TakesAssign(c[1], lib)
  BY <1>1 DEF TakesUse, TakesAssign, Spots
<1>3. CASE \E j \in 1 .. n : TakesUse(b[j], ident)
  <2>1. at \in 1 .. n /\ TakesUse(b[at], ident) /\ \A j \in at + 1 .. n : ~TakesUse(b[j], ident)
    BY <1>1, <1>3 DEF IsPlace
  <2>2. at + 1 \in 1 .. n + 1 /\ TakesUse(c[at + 1], ident)  BY <1>1, <2>1
  <2>3. /\ x \in 1 .. n + 1 /\ TakesUse(c[x], ident)
        /\ \A j \in x + 1 .. n + 1 : ~TakesUse(c[j], ident)
    BY <1>1, <2>2 DEF IsPlace
  <2>4. x >= at + 1  BY <2>2, <2>3
  <2>5. x - 1 \in 1 .. n /\ c[(x - 1) + 1] = b[x - 1] /\ (x - 1) + 1 = x  BY <1>1, <2>1, <2>3, <2>4
  <2>6. TakesUse(b[x - 1], ident)  BY <2>3, <2>5
  <2>7. x - 1 <= at  BY <2>1, <2>5, <2>6
  <2> QED  BY <2>1, <2>4, <2>7
<1>4. CASE (\A j \in 1 .. n : ~TakesUse(b[j], ident)) /\ \E j \in 1 .. n : TakesAssign(b[j], lib)
  <2>1. /\ at \in 1 .. n /\ TakesAssign(b[at], lib)
        /\ \A j \in 1 .. at - 1 : ~TakesAssign(b[j], lib)
    BY <1>1, <1>4 DEF IsPlace
  <2>2. at + 1 \in 1 .. n + 1 /\ TakesAssign(c[at + 1], lib)  BY <1>1, <2>1
  <2>3. ASSUME NEW j \in 1 .. n + 1  PROVE ~TakesUse(c[j], ident)
    <3>1. CASE j = 1  BY <1>2, <3>1
    <3>2. CASE j # 1
      <4>1. j - 1 \in 1 .. n /\ (j - 1) + 1 = j  BY <3>2
      <4> QED  BY <1>1, <1>4, <4>1
    <3> QED  BY <3>1, <3>2
  <2>4. /\ x \in 1 .. n + 1 /\ TakesAssign(c[x], lib)
        /\ \A j \in 1 .. x - 1 : ~TakesAssign(c[j], lib)
    BY <1>1, <2>2, <2>3 DEF IsPlace
  <2>5. x <= at + 1  BY <2>2, <2>4
  <2>6. x # 1  BY <1>2, <2>4
  <2>7. x - 1 \in 1 .. n /\ c[(x - 1) + 1] = b[x - 1] /\ (x - 1) + 1 = x  BY <1>1, <2>4, <2>6
  <2>8. TakesAssign(b[x - 1], lib)  BY <2>4, <2>7
  <2>9. x - 1 >= at  BY <2>1, <2>7, <2>8
  <2> QED  BY <2>1, <2>5, <2>9
<1>5. CASE \A j \in 1 .. n : ~TakesUse(b[j], ident) /\ ~TakesAssign(b[j], lib)
  <2>1. at = 0  BY <1>1, <1>5 DEF IsPlace
  <2>2. ASSUME NEW j \in 1 .. n + 1  PROVE ~TakesUse(c[j], ident) /\ ~TakesAssign(c[j], lib)
    <3>1. CASE j = 1  BY <1>2, <3>1
    <3>2. CASE j # 1
      <4>1. j - 1 \in 1 .. n /\ (j - 1) + 1 = j  BY <3>2
      <4> QED  BY <1>1, <1>5, <4>1
    <3> QED  BY <3>1, <3>2
  <2>3. x = 0  BY <1>1, <2>2 DEF IsPlace
  <2> QED  BY <2>1, <2>3
<1> QED  BY <1>3, <1>4, <1>5

LEMMA HeadIdent ==
  ASSUME NEW b, NEW c, NEW e, Inserted(b, c, 0, e), e.k \notin Spots, NEW lib,
         NEW v, IsIdent(b, lib, v), NEW w, IsIdent(c, lib, w)
  PROVE  w = v
<1>1. PICK n \in Nat : /\ n = Len(b) /\ DOMAIN b = 1 .. n
                       /\ Len(c) = n + 1 /\ DOMAIN c = 1 .. n + 1
                       /\ c[1] = e /\ \A j \in 1 .. n : c[j + 1] = b[j]
  BY HeadShape
<1>2. ~NewRouter(c[1], lib)  BY <1>1 DEF NewRouter, Spots
<1>3. CASE \E j \in 1 .. n : NewRouter(b[j], lib)
  <2>1. PICK i \in 1 .. n : /\ NewRouter(b[i], lib) /\ v = b[i].on
                            /\ \A j \in i + 1 .. n : ~NewRouter(b[j], lib)
    BY <1>1, <1>3 DEF IsIdent
  <2>2. i + 1 \in 1 .. n + 1 /\ NewRouter(c[i + 1], lib)  BY <1>1, <2>1
  <2>3. PICK x \in 1 .. n + 1 : /\ NewRouter(c[x], lib) /\ w = c[x].on
                                /\ \A j \in x + 1 .. n + 1 : ~NewRouter(c[j], lib)
    BY <1>1, <2>2 DEF IsIdent
  <2>4. x >= i + 1  BY <2>2, <2>3
  <2>5. x - 1 \in 1 .. n /\ c[(x - 1) + 1] = b[x - 1] /\ (x - 1) + 1 = x  BY <1>1, <2>1, <2>3, <2>4
  <2>6. NewRouter(b[x - 1], lib)  BY <2>3, <2>5
  <2>7. x - 1 <= i  BY <2>1, <2>5, <2>6
  <2>8. x = i + 1  BY <2>4, <2>7
  <2>9. c[x] = b[i]  BY <1>1, <2>8
  <2> QED  BY <2>1, <2>3, <2>9
<1>4. CASE \A j \in 1 .. n : ~NewRouter(b[j], lib)
  <2>1. v = IF lib = "echo" THEN "e" ELSE "r"  BY <1>1, <1>4 DEF IsIdent
  <2>2. ASSUME NEW j \in 1 .. n + 1  PROVE ~NewRouter(c[j], lib)
    <3>1. CASE j = 1  BY <1>2, <3>1
    <3>2. CASE j # 1
      <4>1. j - 1 \in 1 .. n /\ (j - 1) + 1 = j  BY <3>2
      <4> QED  BY <1>1, <1>4, <4>1
    <3> QED  BY <3>1, <3>2
  <2>3. w = IF lib = "echo" THEN "e" ELSE "r"  BY <1>1, <2>2 DEF IsIdent
  <2> QED  BY <2>1, <2>3
<1> QED  BY <1>3, <1>4

\* Inserting below and then at the head is inserting at the head and then one further down.
LEMMA HeadCommutes ==
  ASSUME NEW b, NEW c, NEW d, NEW x, NEW y, NEW e, NEW m, NEW at,
         Inserted(b, c, 0, e), Inserted(b, d, at, m),
         Inserted(d, x, 0, e), Inserted(c, y, at + 1, m)
  PROVE  x = y
<1>1. PICK n \in Nat : n = Len(b) /\ at \in 0 .. n
  <2>1. Len(b) \in Nat  BY InsertedPlaces
  <2> QED  BY <2>1 DEF Inserted
<1>2. /\ Len(c) = n + 1 /\ c[1] = e /\ \A j \in 1 .. n : c[j + 1] = b[j]
  BY <1>1 DEF Inserted
<1>3. /\ Len(d) = n + 1 /\ d[at + 1] = m /\ \A j \in 1 .. at : d[j] = b[j]
      /\ \A j \in at + 1 .. n : d[j + 1] = b[j]
  BY <1>1 DEF Inserted
<1>4. /\ x \in Seq(Stmts) /\ Len(x) = n + 2 /\ x[1] = e /\ \A j \in 1 .. n + 1 : x[j + 1] = d[j]
  BY <1>3 DEF Inserted
<1>5. /\ y \in Seq(Stmts) /\ Len(y) = n + 2 /\ y[at + 2] = m
      /\ \A j \in 1 .. at + 1 : y[j] = c[j]
      /\ \A j \in at + 2 .. n + 1 : y[j + 1] = c[j]
  <2>1. (at + 1) + 1 = at + 2 /\ (n + 1) + 1 = n + 2  BY <1>1
  <2> QED  BY <1>2, <2>1 DEF Inserted
<1>6. ASSUME NEW j \in 1 .. n + 2  PROVE x[j] = y[j]
  <2>1. CASE j = 1
    <3>1. y[1] = c[1]  BY <1>1, <1>5
    <3> QED  BY <1>2, <1>4, <2>1, <3>1
  <2>2. CASE j # 1 /\ j <= at + 1
    <3>1. j - 1 \in 1 .. at /\ j - 1 \in 1 .. n /\ j - 1 \in 1 .. n + 1 /\ (j - 1) + 1 = j
      BY <1>1, <2>2
    <3>2. x[j] = d[j - 1]  BY <1>4, <3>1
    <3>3. d[j - 1] = b[j - 1]  BY <1>3, <3>1
    <3>4. y[j] = c[j]  BY <1>1, <1>5, <2>2
    <3>5. c[j] = b[j - 1]  BY <1>2, <3>1
    <3> QED  BY <3>2, <3>3, <3>4, <3>5
  <2>3. CASE j = at + 2
    <3>1. at + 1 \in 1 .. n + 1 /\ (at + 1) + 1 = j  BY <1>1, <2>3
    <3>2. x[j] = d[at + 1]  BY <1>4, <3>1
    <3> QED  BY <1>3, <1>5, <2>3, <3>2
  <2>4. CASE j > at + 2
    <3>1. /\ j - 1 \in 1 .. n + 1 /\ (j - 1) + 1 = j /\ j - 2 \in at + 1 .. n
          /\ j - 1 \in at + 2 .. n + 1 /\ (j - 2) + 1 = j - 1 /\ j - 2 \in 1 .. n
      BY <1>1, <2>4
    <3>2. x[j] = d[j - 1]  BY <1>4, <3>1
    <3>3. d[j - 1] = b[j - 2]  BY <1>3, <3>1
    <3>4. y[j] = c[j - 1]  BY <1>5, <3>1
    <3>5. c[j - 1] = b[j - 2]  BY <1>2, <3>1
    <3> QED  BY <3>2, <3>3, <3>4, <3>5
  <2>5. at \in Nat  BY <1>1
  <2> QED  BY <2>1, <2>2, <2>3, <2>4, <2>5
<1> QED  BY <1>1, <1>4, <1>5, <1>6, SeqEqual

LEMMA SameFunc ==
  ASSUME NEW f \in Funcs, NEW g \in Funcs, g.name = f.name, g.ctx = f.ctx, g.param = f.param,
         g.skip = f.skip, g.body = f.body
  PROVE  g = f
BY DEF Funcs

LEMMA InjectFuncContext ==
  ASSUME NEW fn \in Funcs, NEW g, g = InjectFunc(fn)
  PROVE  g.ctx = IF fn.ctx = "blank" THEN "named" ELSE fn.ctx
<1>1. PICK b : b = <<SpanStmt(fn.ctx), DeferStmt>> \o fn.body  OBVIOUS
<1>2. PICK x : x = IF fn.ctx = "blank" THEN "named" ELSE fn.ctx  OBVIOUS
<1>3. g = [fn EXCEPT !.body = b, !.ctx = x]  BY <1>1, <1>2 DEF InjectFunc
<1> QED  BY <1>2, <1>3 DEF Funcs

LEMMA RebodiedParts ==
  ASSUME NEW fn \in Funcs, NEW body \in Seq(Stmts), NEW g, g = Rebodied(fn, body)
  PROVE  /\ g \in Funcs /\ g.name = fn.name /\ g.ctx = fn.ctx /\ g.param = fn.param
         /\ g.skip = fn.skip /\ g.body = body
BY DEF Rebodied, Funcs

\* The middleware of an instrumented function stands two statements further down, unless it
\* stands above every router.
LEMMA RouterFuncCommutes ==
  ASSUME NEW fn \in Funcs, NEW k, k = InjectFunc(fn), NEW app, NEW c, NEW lib \in Frameworks,
         NEW at, NEW e, NEW x, NEW m, NEW d, NEW y,
         RouterPut(fn, d, app, c, lib, at, e), Inserted(fn.body, d, at, e),
         RouterPut(k, y, app, c, lib, x, m), Inserted(k.body, y, x, m),
         m.k = "middleware", ~Headless(y)
  PROVE  InjectFunc(Rebodied(fn, d)) = Rebodied(k, y)
<1>1. PICK b1, s, g :
        /\ Inserted(fn.body, b1, 0, g) /\ g = DeferStmt
        /\ Inserted(b1, k.body, 0, s) /\ s = SpanStmt(fn.ctx)
        /\ k \in Funcs /\ k.name = fn.name /\ k.param = fn.param /\ k.skip = fn.skip
        /\ b1 \in Seq(Stmts) /\ k.body \in Seq(Stmts)
  BY InjectFuncParts
<1>2. g.k \notin Spots /\ s.k \notin Spots  BY <1>1, DeferStmtOne, SpanStmtOne DEF Spots
<1>3. PICK v : /\ IsIdent(fn.body, lib, v) /\ IsPlace(fn.body, v, lib, at)
               /\ e = MiddlewareStmt(v, lib, ServiceUses(c, app, fn.param))
  BY DEF RouterPut
<1>4. PICK w : /\ IsIdent(k.body, lib, w) /\ IsPlace(k.body, w, lib, x)
               /\ m = MiddlewareStmt(w, lib, ServiceUses(c, app, k.param))
  BY DEF RouterPut
<1>5. w = v
  <2>1. PICK u : IsIdent(b1, lib, u)  BY <1>1, RouterIdentName
  <2>2. u = v  BY <1>1, <1>2, <1>3, <2>1, HeadIdent
  <2>3. w = u  BY <1>1, <1>2, <1>4, <2>1, HeadIdent
  <2> QED  BY <2>2, <2>3
<1>6. m = e  BY <1>1, <1>3, <1>4, <1>5
<1>7. at \in Nat /\ x \in Nat  BY InsertedPlaces
<1>8. PICK z \in Nat : IsPlace(b1, v, lib, z) /\ z \in 0 .. Len(b1)
  <2>1. Len(b1) \in Nat  BY <1>1, LenProperties
  <2> QED  BY <1>1, <2>1, RouterPlace
<1>9. z = IF at = 0 THEN 0 ELSE at + 1  BY <1>1, <1>2, <1>3, <1>7, <1>8, HeadPlace
<1>10. x = IF z = 0 THEN 0 ELSE z + 1  BY <1>1, <1>2, <1>4, <1>5, <1>7, <1>8, HeadPlace
<1>11. x # 0
  <2> SUFFICES ASSUME x = 0  PROVE FALSE  OBVIOUS
  <2>1. 0 + 1 \in DOMAIN y /\ y[0 + 1] = m  BY InsertedPlaces
  <2>2. 1 \in DOMAIN y /\ y[1].k = "middleware" /\ \A j \in 1 .. 1 - 1 : y[j].k # "create"
    BY <2>1
  <2> QED  BY <2>2 DEF Headless
<1>12. z = at + 1 /\ x = z + 1  BY <1>7, <1>9, <1>10, <1>11
<1>13. e \in Stmts  BY DEF Inserted
<1>14. PICK b2 : Inserted(b1, b2, z, e)  BY <1>1, <1>8, <1>13, InsertAfterInserts
<1>15. PICK h : h = Rebodied(fn, d)  OBVIOUS
<1>16. /\ h \in Funcs /\ h.name = fn.name /\ h.ctx = fn.ctx /\ h.param = fn.param
       /\ h.skip = fn.skip /\ h.body = d
  <2>1. d \in Seq(Stmts)  BY DEF Inserted
  <2> QED  BY <1>15, <2>1, RebodiedParts
<1>17. PICK r : r = InjectFunc(h)  OBVIOUS
<1>18. PICK d1 : /\ Inserted(d, d1, 0, g) /\ Inserted(d1, r.body, 0, s)
                 /\ r \in Funcs /\ r.name = fn.name /\ r.param = fn.param /\ r.skip = fn.skip
  BY <1>1, <1>16, <1>17, InjectFuncParts
<1>19. d1 = b2  BY <1>1, <1>12, <1>14, <1>18, HeadCommutes
<1>20. r.body = y  BY <1>1, <1>6, <1>12, <1>14, <1>18, <1>19, HeadCommutes
<1>21. r.ctx = k.ctx  BY <1>16, <1>17, InjectFuncContext
<1>22. PICK t : t = Rebodied(k, y)  OBVIOUS
<1>23. /\ t \in Funcs /\ t.name = k.name /\ t.ctx = k.ctx /\ t.param = k.param
       /\ t.skip = k.skip /\ t.body = y
  <2>1. y \in Seq(Stmts)  BY DEF Inserted
  <2>2. k \in Funcs  BY <1>1
  <2> QED  BY <1>22, <2>1, <2>2, RebodiedParts
<1>24. r = t  BY <1>1, <1>18, <1>20, <1>21, <1>23, SameFunc
<1> QED  BY <1>15, <1>17, <1>22, <1>24

\* A middleware hides no span and shows none.
LEMMA InsertUnseen ==
  ASSUME NEW b, NEW c, NEW at, NEW e, Inserted(b, c, at, e), e.k = "middleware",
         IsAlreadyInstrumented(c)
  PROVE  IsAlreadyInstrumented(b)
<1>1. PICK i \in DOMAIN c : i <= 3 /\ c[i].k \in Marks  BY DEF IsAlreadyInstrumented, Marks
<1>2. /\ DOMAIN b \subseteq Nat /\ at \in Nat /\ c[at + 1] = e
      /\ \A j \in DOMAIN b : c[Shift(at, j)] = b[j]
      /\ \A x \in DOMAIN c : x = at + 1 \/ \E j \in DOMAIN b : x = Shift(at, j)
  <2>1. DOMAIN b = 1 .. Len(b) /\ Len(b) \in Nat  BY InsertedPlaces
  <2>2. DOMAIN b \subseteq Nat  BY <2>1
  <2> QED  BY <2>2, InsertedPlaces
<1>3. i # at + 1  BY <1>1, <1>2 DEF Marks
<1>4. PICK j \in DOMAIN b : i = Shift(at, j)  BY <1>2, <1>3
<1>5. b[j].k \in Marks  BY <1>1, <1>2, <1>4
<1>6. j <= 3
  <2>1. j \in Nat /\ Shift(at, j) \in Nat /\ j <= Shift(at, j)  BY <1>2, ShiftOrder
  <2> QED  BY <1>1, <1>4, <2>1
<1> QED  BY <1>5, <1>6 DEF IsAlreadyInstrumented, Marks

\* Two files in which one function was rewritten and the others instrumented, in either order.
TwoOrders(o, k, w, h, x, c, i, more) ==
  /\ o \in Files /\ w \in Files /\ h \in Files /\ Spanned(o, k, c) /\ Spanned(w, x, c)
  /\ OneReplaced(o, w, i) /\ OneReplaced(k, h, i) /\ h.funcs[i] = x.funcs[i]
  /\ IsCandidate(w.funcs[i], c) <=> IsCandidate(o.funcs[i], c)
  /\ w.imports = o.imports \cup more /\ h.imports = k.imports \cup more

LEMMA OrdersAgree ==
  ASSUME NEW o, NEW k, NEW w, NEW h, NEW x, NEW c, NEW i, NEW more,
         TwoOrders(o, k, w, h, x, c, i, more)
  PROVE  h = x
<1>1. /\ o \in Files /\ w \in Files /\ h \in Files /\ Spanned(o, k, c) /\ Spanned(w, x, c)
      /\ OneReplaced(o, w, i) /\ OneReplaced(k, h, i) /\ h.funcs[i] = x.funcs[i]
      /\ IsCandidate(w.funcs[i], c) <=> IsCandidate(o.funcs[i], c)
      /\ w.imports = o.imports \cup more /\ h.imports = k.imports \cup more
  BY DEF TwoOrders
<1>2. /\ DOMAIN w.funcs = DOMAIN o.funcs /\ DOMAIN k.funcs = DOMAIN o.funcs
      /\ DOMAIN x.funcs = DOMAIN o.funcs /\ DOMAIN h.funcs = DOMAIN o.funcs /\ x \in Files
      /\ i \in DOMAIN o.funcs
  BY <1>1 DEF OneReplaced, Spanned
<1>3. ASSUME NEW j \in DOMAIN o.funcs  PROVE h.funcs[j] = x.funcs[j]
  <2>1. CASE j = i  BY <1>1, <2>1
  <2>2. CASE j # i
    <3>1. w.funcs[j] = o.funcs[j] /\ h.funcs[j] = k.funcs[j]  BY <1>1, <1>2, <2>2 DEF OneReplaced
    <3>2. k.funcs[j] = IF IsCandidate(o.funcs[j], c) THEN InjectFunc(o.funcs[j]) ELSE o.funcs[j]
      BY <1>1 DEF Spanned
    <3>3. x.funcs[j] = IF IsCandidate(w.funcs[j], c) THEN InjectFunc(w.funcs[j]) ELSE w.funcs[j]
      BY <1>1, <1>2 DEF Spanned
    <3> QED  BY <3>1, <3>2, <3>3
  <2> QED  BY <2>1, <2>2
<1>4. h.funcs = x.funcs
  <2>1. h.funcs \in Seq(Funcs) /\ x.funcs \in Seq(Funcs)  BY <1>1, <1>2, FileParts
  <2>2. DOMAIN h.funcs = 1 .. Len(h.funcs) /\ DOMAIN x.funcs = 1 .. Len(x.funcs)
        /\ Len(h.funcs) \in Nat /\ Len(x.funcs) \in Nat
    BY <1>1, <1>2, FileParts
  <2>3. Len(h.funcs) = Len(x.funcs)  BY <1>2, <2>2
  <2>4. \A j \in 1 .. Len(h.funcs) : h.funcs[j] = x.funcs[j]  BY <1>2, <1>3, <2>2
  <2> QED  BY <2>1, <2>3, <2>4, SeqEqual
<1>5. ASSUME NEW j \in DOMAIN o.funcs
      PROVE  /\ IsCandidate(w.funcs[j], c) <=> IsCandidate(o.funcs[j], c)
             /\ w.funcs[j].ctx = o.funcs[j].ctx
  <2>1. CASE j = i
    <3>1. w.funcs[i].ctx = o.funcs[i].ctx  BY <1>1, RebodiedHead DEF OneReplaced
    <3> QED  BY <1>1, <2>1, <3>1
  <2>2. CASE j # i
    <3>1. w.funcs[j] = o.funcs[j]  BY <1>1, <2>2 DEF OneReplaced
    <3> QED  BY <3>1
  <2> QED  BY <2>1, <2>2
<1>6. SpansImport(w, c) = SpansImport(o, c)
  <2>1. (\E j \in DOMAIN w.funcs : IsCandidate(w.funcs[j], c))
          <=> \E j \in DOMAIN o.funcs : IsCandidate(o.funcs[j], c)
    BY <1>2, <1>5
  <2>2. (\E j \in DOMAIN w.funcs : IsCandidate(w.funcs[j], c) /\ w.funcs[j].ctx = "none")
          <=> \E j \in DOMAIN o.funcs : IsCandidate(o.funcs[j], c) /\ o.funcs[j].ctx = "none"
    BY <1>2, <1>5
  <2> QED  BY <2>1, <2>2 DEF SpansImport, When
<1>7. h.imports = x.imports
  <2>1. k.imports = o.imports \cup SpansImport(o, c)  BY <1>1 DEF Spanned
  <2>2. x.imports = w.imports \cup SpansImport(w, c)  BY <1>1 DEF Spanned
  <2> QED  BY <1>1, <1>6, <2>1, <2>2
<1>8. SameHeader(x, h)  BY <1>1 DEF SameHeader, OneReplaced, Spanned
<1> QED  BY <1>1, <1>2, <1>4, <1>7, <1>8, SameFile

Plans(o, k, c, isMain) ==
  /\ PlanOf(k, c, isMain) = PlanOf(o, c, isMain)
  /\ WireFails(o, c, isMain) <=> WireFails(k, c, isMain)

LEMMA SpannedMainPlan ==
  ASSUME NEW o \in Files, NEW k, NEW c, Spanned(o, k, c), "wire" \in o.skip \/ HasMain(o)
  PROVE  Plans(o, k, c, TRUE)
<1>1. k.skip = o.skip  BY DEF Spanned, SameHeader
<1>2. CASE "wire" \in o.skip
  <2>1. AnalyzeMain(o, c) = NoPlan /\ AnalyzeMain(k, c) = NoPlan  BY <1>1, <1>2 DEF AnalyzeMain
  <2>2. ~HasChanges(NoPlan)  BY NoElems DEF HasChanges, NoPlan, PlannedJobs
  <2> QED  BY <2>1, <2>2 DEF Plans, PlanOf, WireFails
<1>3. CASE "wire" \notin o.skip /\ HasMain(o)
  <2>1. /\ HasMain(k) /\ MainIndex(k) = MainIndex(o)
        /\ k.funcs[MainIndex(o)] = o.funcs[MainIndex(o)]
    BY <1>3, MainSpared
  <2>2. PICK b : b = o.funcs[MainIndex(o)].body  OBVIOUS
  <2>3. k.funcs[MainIndex(k)].body = b  BY <2>1, <2>2
  <2>4. MainHooks(k, b, c) = MainHooks(o, b, c)  BY <1>1 DEF MainHooks
  <2>5. PICK jobs : jobs = [n \in DOMAIN c.jobs |->
                             IF HasJobWired(b, c.jobs[n]) THEN "" ELSE c.jobs[n]]
    OBVIOUS
  <2>6. AnalyzeMain(o, c) = [hooks |-> MainHooks(o, b, c), jobs |-> jobs]
    BY <1>3, <2>2, <2>5 DEF AnalyzeMain
  <2>7. AnalyzeMain(k, c) = [hooks |-> MainHooks(k, b, c), jobs |-> jobs]
    BY <1>1, <1>3, <2>1, <2>3, <2>5 DEF AnalyzeMain
  <2>8. PICK plan : plan = AnalyzeMain(o, c)  OBVIOUS
  <2>9. AnalyzeMain(k, c) = plan  BY <2>4, <2>6, <2>7, <2>8
  <2>10. MainFails(k, plan) <=> MainFails(o, plan)  BY <1>3, <2>1, <2>2, <2>3 DEF MainFails
  <2> QED  BY <2>8, <2>9, <2>10 DEF Plans, PlanOf, WireFails
<1> QED  BY <1>2, <1>3

LEMMA SpannedRouterPlan ==
  ASSUME NEW o \in Files, NEW k, NEW c, Spanned(o, k, c)
  PROVE  Plans(o, k, c, FALSE)
<1>1. PICK lib, plan : lib = Framework(o) /\ plan = AnalyzeRouter(o)  OBVIOUS
<1>2. /\ Framework(k) = lib /\ AnalyzeRouter(k) = plan
      /\ lib \in Frameworks =>
           \A i \in DOMAIN o.funcs : ToWire(k.funcs[i], lib) <=> ToWire(o.funcs[i], lib)
  BY <1>1, SpannedPlan
<1>3. CASE ~HasChanges(plan)  BY <1>1, <1>2, <1>3 DEF Plans, PlanOf, WireFails
<1>4. CASE HasChanges(plan)
  <2>1. lib \in Frameworks  BY <1>1, <1>4, RouterPlan
  <2>2. DOMAIN k.funcs = DOMAIN o.funcs  BY DEF Spanned
  <2>3. RouterFails(k) <=> RouterFails(o)  BY <1>1, <1>2, <2>1, <2>2 DEF RouterFails, Elems
  <2> QED  BY <1>1, <1>2, <2>3 DEF Plans, PlanOf, WireFails
<1> QED  BY <1>3, <1>4

\* Neither command touches the other's business in main.
LEMMA MainCommutes ==
  ASSUME NEW o \in Files, NEW c, c.jobs \in Seq(Names), NEW k, k = InstrumentFile(o, c),
         ~WireFails(k, c, TRUE), NEW w, w = WireFile(o, c, TRUE),
         NEW h, h = WireFile(k, c, TRUE)
  PROVE  h = InstrumentFile(w, c)
<1>1. Spanned(o, k, c) /\ k \in Files  BY InstrumentParts DEF Spanned
<1>2. "wire" \in o.skip \/ HasMain(o)
  <2> SUFFICES ASSUME "wire" \notin o.skip, ~HasMain(o)  PROVE FALSE  OBVIOUS
  <2>1. Alike(o, k)  BY <1>1, SpannedAlike
  <2>2. ~HasMain(k)  BY <1>1, <2>1, SameMain DEF Alike, FuncAlike
  <2>3. "wire" \notin k.skip  BY <2>1 DEF Alike, SameHeader
  <2>4. PICK plan : plan = AnalyzeMain(k, c)  OBVIOUS
  <2>5. "configure" \in plan.hooks  BY <2>2, <2>3, <2>4 DEF AnalyzeMain
  <2>6. MainFails(k, plan)  BY <2>2 DEF MainFails
  <2> QED  BY <2>4, <2>5, <2>6 DEF WireFails, PlanOf, HasChanges
<1>3. PICK plan : plan = AnalyzeMain(o, c)  OBVIOUS
<1>4. AnalyzeMain(k, c) = plan /\ ~WireFails(o, c, TRUE)
  <2>1. Plans(o, k, c, TRUE)  BY <1>1, <1>2, SpannedMainPlan
  <2> QED  BY <1>3, <2>1 DEF Plans, PlanOf
<1>5. CASE ~HasChanges(plan)
  <2>1. h = k  BY <1>4, <1>5 DEF WireFile, PlanOf
  <2>2. w = o  BY <1>3, <1>5 DEF WireFile, PlanOf
  <2> QED  BY <2>1, <2>2
<1>6. CASE HasChanges(plan)
  <2>1. "wire" \notin o.skip
    <3>1. ~HasChanges(NoPlan)  BY NoElems DEF HasChanges, NoPlan, PlannedJobs
    <3> QED  BY <1>3, <1>6, <3>1 DEF AnalyzeMain
  <2>2. PICK i : i = MainIndex(o)  OBVIOUS
  <2>3. /\ MainIndex(k) = i /\ k.funcs[i] = o.funcs[i]
    BY <1>1, <1>2, <2>1, <2>2, MainSpared
  <2>4. w \in Files /\ MainWired(o, w, c, plan, i)  BY <1>3, <1>4, <1>6, <2>2, WireMainParts
  <2>5. h \in Files /\ MainWired(k, h, c, plan, i)
    BY <1>1, <1>4, <1>6, <2>3, WireMainParts
  <2>6. PICK x : x = InstrumentFile(w, c)  OBVIOUS
  <2>7. Spanned(w, x, c)  BY <2>4, <2>6, InstrumentParts
  <2>8. OneReplaced(o, w, i) /\ OneReplaced(k, h, i)  BY <2>4, <2>5 DEF MainWired
  <2>9. /\ o.funcs[i].name = "main" /\ i \in DOMAIN o.funcs /\ DOMAIN w.funcs = DOMAIN o.funcs
    BY <2>4 DEF MainWired, OneReplaced
  <2>10. w.funcs[i].name = "main"
    <3>1. PICK fn, body, g : fn = o.funcs[i] /\ g = w.funcs[i] /\ body = g.body  OBVIOUS
    <3>2. fn \in Funcs /\ g = Rebodied(fn, body)  BY <2>8, <3>1 DEF OneReplaced
    <3>3. g.name = fn.name  BY <3>2, RebodiedHead
    <3> QED  BY <2>9, <3>1, <3>3
  <2>11. ~IsCandidate(o.funcs[i], c) /\ ~IsCandidate(w.funcs[i], c)
    BY <2>9, <2>10 DEF IsCandidate
  <2>12. x.funcs[i] = w.funcs[i]  BY <2>7, <2>9, <2>11 DEF Spanned
  <2>13. h.funcs[i] = w.funcs[i]
    <3>1. k.app = o.app  BY <1>1 DEF Spanned, SameHeader
    <3>2. w.funcs[i].body = ApplyMain(o.funcs[i].body, c, o.app, plan)  BY <2>4 DEF MainWired
    <3>3. h.funcs[i].body = ApplyMain(k.funcs[i].body, c, k.app, plan)  BY <2>5 DEF MainWired
    <3>4. h.funcs[i].body = w.funcs[i].body  BY <2>3, <3>1, <3>2, <3>3
    <3>5. w.funcs[i] = Rebodied(o.funcs[i], w.funcs[i].body)  BY <2>8 DEF OneReplaced
    <3>6. h.funcs[i] = Rebodied(k.funcs[i], h.funcs[i].body)  BY <2>8 DEF OneReplaced
    <3> QED  BY <2>3, <3>4, <3>5, <3>6
  <2>14. PICK more : more = NeededImports(plan)  OBVIOUS
  <2>15. w.imports = o.imports \cup more /\ h.imports = k.imports \cup more
    BY <2>4, <2>5, <2>14 DEF MainWired
  <2>16. h.funcs[i] = x.funcs[i]  BY <2>12, <2>13
  <2>17. IsCandidate(w.funcs[i], c) <=> IsCandidate(o.funcs[i], c)  BY <2>11
  <2>18. w \in Files /\ h \in Files /\ Spanned(o, k, c)  BY <1>1, <2>4, <2>5
  <2>19. TwoOrders(o, k, w, h, x, c, i, more)
    BY <2>7, <2>8, <2>15, <2>16, <2>17, <2>18 DEF TwoOrders
  <2>20. h = x  BY <2>19, OrdersAgree
  <2> QED  BY <2>6, <2>20
<1> QED  BY <1>5, <1>6

\* Nor in a router, unless the middleware stands above it.
LEMMA RouterCommutes ==
  ASSUME NEW o \in Files, NEW c, c.jobs \in Seq(Names), NEW k, k = InstrumentFile(o, c),
         ~WireFails(k, c, FALSE), NEW w, w = WireFile(o, c, FALSE),
         NEW h, h = WireFile(k, c, FALSE), ~SomeHeadless(h),
         \A i \in DOMAIN o.funcs : o.funcs[i].name # "main" => Ordered(o.funcs[i].body)
  PROVE  h = InstrumentFile(w, c)
<1>1. Spanned(o, k, c) /\ k \in Files  BY InstrumentParts DEF Spanned
<1>2. PICK plan : plan = AnalyzeRouter(o)  OBVIOUS
<1>3. AnalyzeRouter(k) = plan /\ ~WireFails(o, c, FALSE)
  <2>1. Plans(o, k, c, FALSE)  BY <1>1, SpannedRouterPlan
  <2> QED  BY <1>2, <2>1 DEF Plans, PlanOf
<1>4. CASE ~HasChanges(plan)
  <2>1. h = k  BY <1>3, <1>4 DEF WireFile, PlanOf
  <2>2. w = o  BY <1>2, <1>4 DEF WireFile, PlanOf
  <2> QED  BY <2>1, <2>2
<1>5. CASE HasChanges(plan)
  <2>1. w \in Files /\ \E lib, i, at, e :
          /\ RouterWired(o, w, lib, i, at, e)
          /\ RouterPut(o.funcs[i], w.funcs[i].body, o.app, c, lib, at, e)
    BY <1>2, <1>3, <1>5, WireRouterParts
  <2>2. PICK lib, i, at, e :
          /\ RouterWired(o, w, lib, i, at, e)
          /\ RouterPut(o.funcs[i], w.funcs[i].body, o.app, c, lib, at, e)
    BY <2>1
  <2>3. h \in Files /\ \E lib2, j, y, m :
          /\ RouterWired(k, h, lib2, j, y, m)
          /\ RouterPut(k.funcs[j], h.funcs[j].body, k.app, c, lib2, y, m)
    BY <1>1, <1>3, <1>5, WireRouterParts
  <2>4. PICK lib2, j, y, m :
          /\ RouterWired(k, h, lib2, j, y, m)
          /\ RouterPut(k.funcs[j], h.funcs[j].body, k.app, c, lib2, y, m)
    BY <2>3
  <2>5. lib \in Frameworks /\ lib = Framework(o) /\ lib2 = lib
    <3>1. Framework(k) = Framework(o)  BY <1>1, SpannedPlan
    <3>2. lib \in Frameworks /\ lib = Framework(o)  BY <2>2 DEF RouterWired
    <3>3. lib2 = Framework(k)  BY <2>4 DEF RouterWired
    <3> QED  BY <3>1, <3>2, <3>3
  <2>6. PICK n \in Nat : DOMAIN o.funcs = 1 .. n /\ DOMAIN k.funcs = 1 .. n
    BY <1>1, FileParts DEF Spanned
  <2>7. j = i
    <3>1. \A x \in 1 .. n : ToWire(k.funcs[x], lib) <=> ToWire(o.funcs[x], lib)
      BY <1>1, <2>5, <2>6, SpannedPlan
    <3>2. /\ i \in 1 .. n /\ ToWire(o.funcs[i], lib)
          /\ \A x \in 1 .. i - 1 : ~ToWire(o.funcs[x], lib)
      BY <2>2, <2>6 DEF RouterWired, OneReplaced
    <3>3. /\ j \in 1 .. n /\ ToWire(k.funcs[j], lib)
          /\ \A x \in 1 .. j - 1 : ~ToWire(k.funcs[x], lib)
      BY <2>4, <2>5, <2>6 DEF RouterWired, OneReplaced
    <3>4. ToWire(k.funcs[i], lib) /\ ToWire(o.funcs[j], lib)  BY <3>1, <3>2, <3>3
    <3>5. i \notin 1 .. j - 1 /\ j \notin 1 .. i - 1  BY <3>2, <3>3, <3>4
    <3> QED  BY <3>2, <3>3, <3>5
  <2>8. OneReplaced(o, w, i) /\ OneReplaced(k, h, i)  BY <2>2, <2>4, <2>7 DEF RouterWired
  <2>9. PICK fn, u : fn = o.funcs[i] /\ u = k.funcs[i]  OBVIOUS
  <2>10. PICK d, z : d = w.funcs[i].body /\ z = h.funcs[i].body  OBVIOUS
  <2>11. /\ i \in DOMAIN o.funcs /\ fn \in Funcs
         /\ w.funcs[i] = Rebodied(fn, d) /\ h.funcs[i] = Rebodied(u, z)
    BY <2>8, <2>9, <2>10 DEF OneReplaced
  <2>12. u = IF IsCandidate(fn, c) THEN InjectFunc(fn) ELSE fn  BY <1>1, <2>9, <2>11 DEF Spanned
  <2>13. /\ Inserted(fn.body, d, at, e) /\ e.k = "middleware"
         /\ at # 0 => fn.body[at].k \in Spots
    BY <2>2, <2>9, <2>10 DEF RouterWired
  <2>14. Inserted(u.body, z, y, m) /\ m.k = "middleware"
    BY <2>4, <2>7, <2>9, <2>10 DEF RouterWired
  <2>15. RouterPut(fn, d, o.app, c, lib, at, e) /\ RouterPut(u, z, o.app, c, lib, y, m)
    <3>1. k.app = o.app  BY <1>1 DEF Spanned, SameHeader
    <3> QED  BY <2>2, <2>4, <2>5, <2>7, <2>9, <2>10, <3>1
  <2>16. ~Headless(z)
    <3>1. i \in DOMAIN h.funcs  BY <2>8 DEF OneReplaced
    <3> QED  BY <2>10, <3>1 DEF SomeHeadless
  <2>17. PICK g : g = Rebodied(fn, d)  OBVIOUS
  <2>18. /\ g \in Funcs /\ g.name = fn.name /\ g.ctx = fn.ctx /\ g.param = fn.param
         /\ g.skip = fn.skip /\ g.body = d
    <3>1. d \in Seq(Stmts)  BY <2>13 DEF Inserted
    <3> QED  BY <2>11, <2>17, <3>1, RebodiedParts
  <2>19. (IsCandidate(g, c) <=> IsCandidate(fn, c))
         /\ Rebodied(u, z) = IF IsCandidate(g, c) THEN InjectFunc(g) ELSE g
    <3>1. CASE IsCandidate(fn, c)
      <4>1. ~IsAlreadyInstrumented(fn.body)  BY <3>1 DEF IsCandidate
      <4>2. ~IsAlreadyInstrumented(d)  BY <2>13, <4>1, InsertUnseen
      <4>3. IsCandidate(g, c)  BY <2>18, <3>1, <4>2 DEF IsCandidate
      <4>4. InjectFunc(g) = Rebodied(u, z)
        <5>1. u = InjectFunc(fn)  BY <2>12, <3>1
        <5> QED  BY <2>5, <2>11, <2>13, <2>14, <2>15, <2>16, <2>17, <5>1, RouterFuncCommutes
      <4> QED  BY <3>1, <4>3, <4>4
    <3>2. CASE ~IsCandidate(fn, c)
      <4>1. u = fn  BY <2>12, <3>2
      <4>2. z = d  BY <2>15, <4>1 DEF RouterPut
      <4>3. ~IsCandidate(g, c)
        <5> SUFFICES ASSUME IsCandidate(g, c)  PROVE FALSE  OBVIOUS
        <5>1. IsAlreadyInstrumented(fn.body) /\ fn.name # "main" /\ ~IsAlreadyInstrumented(d)
          BY <2>18, <3>2 DEF IsCandidate
        <5>2. Ordered(fn.body)  BY <2>9, <2>11, <5>1
        <5>3. IsAlreadyInstrumented(d) \/ Headless(d)  BY <2>13, <5>1, <5>2, InsertInSight
        <5> QED  BY <2>16, <4>2, <5>1, <5>3
      <4> QED  BY <2>17, <3>2, <4>1, <4>2, <4>3
    <3> QED  BY <3>1, <3>2
  <2>20. PICK x : x = InstrumentFile(w, c)  OBVIOUS
  <2>21. Spanned(w, x, c)  BY <2>1, <2>20, InstrumentParts
  <2>22. h.funcs[i] = x.funcs[i] /\ (IsCandidate(w.funcs[i], c) <=> IsCandidate(o.funcs[i], c))
    <3>1. w.funcs[i] = g /\ i \in DOMAIN w.funcs  BY <2>8, <2>11, <2>17 DEF OneReplaced
    <3>2. x.funcs[i] = IF IsCandidate(g, c) THEN InjectFunc(g) ELSE g
      BY <2>21, <3>1 DEF Spanned
    <3> QED  BY <2>9, <2>11, <2>19, <3>1, <3>2
  <2>23. w.imports = o.imports \cup {"debugviz"} /\ h.imports = k.imports \cup {"debugviz"}
    BY <2>2, <2>4 DEF RouterWired
  <2>24. PICK more : w.imports = o.imports \cup more /\ h.imports = k.imports \cup more
    BY <2>23
  <2>25. w \in Files /\ h \in Files /\ Spanned(o, k, c)  BY <1>1, <2>1, <2>3
  <2>26. h.funcs[i] = x.funcs[i]  BY <2>22
  <2>27. IsCandidate(w.funcs[i], c) <=> IsCandidate(o.funcs[i], c)  BY <2>22
  <2>28. TwoOrders(o, k, w, h, x, c, i, more)
    BY <2>8, <2>21, <2>24, <2>25, <2>26, <2>27 DEF TwoOrders
  <2>29. h = x  BY <2>28, OrdersAgree
  <2> QED  BY <2>20, <2>29
<1> QED  BY <1>4, <1>5

\* In either part of a tree the order of the two commands is immaterial.
NeatFile(f) == \A i \in DOMAIN f.funcs : FuncNeat(f.funcs[i])

LEMMA Commutes ==
  ASSUME NEW o \in Files, NeatFile(o), NEW c, c.jobs \in Seq(Names), NEW m \in BOOLEAN,
         NEW k, k = InstrumentFile(o, c), ~WireFails(k, c, m),
         NEW h, h = WireFile(k, c, m), ~SomeHeadless(h)
  PROVE  h = InstrumentFile(WireFile(o, c, m), c)
<1>1. CASE m = TRUE  BY <1>1, MainCommutes
<1>2. CASE m = FALSE
  <2>1. \A i \in DOMAIN o.funcs : o.funcs[i].name # "main" => Ordered(o.funcs[i].body)
    BY DEF NeatFile, FuncNeat
  <2> QED  BY <1>2, <2>1, RouterCommutes
<1> QED  BY <1>1, <1>2

LEMMA NeatFileAlike ==
  ASSUME NEW f, NEW g, Alike(f, g), NeatFile(f)  PROVE NeatFile(g)
BY DEF Alike, FuncAlike, BodyAlike, NeatFile, FuncNeat

\* The forms a file takes on the way from the developer's o: untouched or instrumented only,
\* and, once wired as m says, wired only, wired and then instrumented, or the other way round.
Unwired(f, o, c, s) == f = o \/ (s /\ f = InstrumentFile(o, c))
HalfWired(f, o, c, s, m) ==
  \/ ~WireFails(o, c, m) /\ f = WireFile(o, c, m)
  \/ s /\ ~WireFails(o, c, m) /\ f = InstrumentFile(WireFile(o, c, m), c)
  \/ s /\ ~WireFails(InstrumentFile(o, c), c, m) /\ f = WireFile(InstrumentFile(o, c), c, m)

LEMMA WiredOnce ==
  ASSUME NEW o \in Files, NeatFile(o), NEW c, c.jobs \in Seq(Names), NEW m \in BOOLEAN,
         ~WireFails(o, c, m), NEW g, g = WireFile(o, c, m)
  PROVE  g \in Files /\ Alike(o, g) /\ Wired(g, c, m) /\ WireFile(g, c, m) = g
<1>1. g \in Files /\ Alike(o, g)  BY WireAlike
<1>2. \A i \in DOMAIN o.funcs : AllReplaceable(o.funcs[i].body)  BY DEF NeatFile, FuncNeat
<1>3. Wired(g, c, m)  BY <1>2, WireSettles
<1>4. WireFile(g, c, m) = g  BY <1>1, <1>3, WiredStays
<1> QED  BY <1>1, <1>3, <1>4

LEMMA InstrumentedOnce ==
  ASSUME NEW o \in Files, NEW c, NEW g, g = InstrumentFile(o, c)
  PROVE  /\ g \in Files /\ Alike(o, g) /\ Spanned(o, g, c) /\ Instrumented(g, c)
         /\ InstrumentFile(g, c) = g
<1>1. Spanned(o, g, c)  BY InstrumentParts
<1>2. Alike(o, g) /\ g \in Files  BY <1>1, SpannedAlike DEF Spanned
<1>3. Instrumented(g, c)  BY <1>1, InstrumentSettles
<1>4. InstrumentFile(g, c) = g  BY <1>3, InstrumentedStays
<1> QED  BY <1>1, <1>2, <1>3, <1>4

\* A step of wire takes each form to one of them.
LEMMA WireAdvances ==
  ASSUME NEW o \in Files, NeatFile(o), NEW c, c.jobs \in Seq(Names), NEW m \in BOOLEAN,
         NEW s, NEW f, Unwired(f, o, c, s) \/ HalfWired(f, o, c, s, m),
         ~WireFails(f, c, m), NEW g, g = WireFile(f, c, m)
  PROVE  HalfWired(g, o, c, s, m)
<1>1. PICK k : k = InstrumentFile(o, c)  OBVIOUS
<1>2. /\ k \in Files /\ Alike(o, k)  BY <1>1, InstrumentedOnce
<1>3. NeatFile(k)  BY <1>2, NeatFileAlike
<1>4. CASE f = o  BY <1>4 DEF HalfWired
<1>5. CASE s /\ f = k  BY <1>1, <1>5 DEF HalfWired
<1>6. CASE ~WireFails(o, c, m) /\ f = WireFile(o, c, m)
  <2>1. g = f  BY <1>6, WiredOnce
  <2> QED  BY <1>6, <2>1 DEF HalfWired
<1>7. CASE s /\ ~WireFails(o, c, m) /\ f = InstrumentFile(WireFile(o, c, m), c)
  <2>1. PICK w : w = WireFile(o, c, m)  OBVIOUS
  <2>2. w \in Files /\ Wired(w, c, m)  BY <1>7, <2>1, WiredOnce
  <2>3. f \in Files /\ Spanned(w, f, c)  BY <1>7, <2>1, <2>2, InstrumentedOnce
  <2>4. Wired(f, c, m)  BY <2>2, <2>3, SpannedKeepsWired
  <2>5. g = f  BY <2>3, <2>4, WiredStays
  <2> QED  BY <1>7, <2>5 DEF HalfWired
<1>8. CASE s /\ ~WireFails(k, c, m) /\ f = WireFile(k, c, m)
  <2>1. g = f  BY <1>2, <1>3, <1>8, WiredOnce
  <2> QED  BY <1>1, <1>8, <2>1 DEF HalfWired
<1> QED  BY <1>1, <1>4, <1>5, <1>6, <1>7, <1>8 DEF Unwired, HalfWired

\* So does a step of instrument.
LEMMA InstrumentAdvances ==
  ASSUME NEW o \in Files, NeatFile(o), NEW c, c.jobs \in Seq(Names), NEW m \in BOOLEAN,
         NEW s, s, NEW f, HalfWired(f, o, c, s, m), ~SomeHeadless(f),
         NEW g, g = InstrumentFile(f, c)
  PROVE  HalfWired(g, o, c, s, m)
<1>1. PICK k : k = InstrumentFile(o, c)  OBVIOUS
<1>2. k \in Files /\ Alike(o, k) /\ Instrumented(k, c)  BY <1>1, InstrumentedOnce
<1>3. CASE ~WireFails(o, c, m) /\ f = WireFile(o, c, m)  BY <1>3 DEF HalfWired
<1>4. CASE ~WireFails(o, c, m) /\ f = InstrumentFile(WireFile(o, c, m), c)
  <2>1. PICK w : w = WireFile(o, c, m)  OBVIOUS
  <2>2. w \in Files  BY <1>4, <2>1, WireAlike
  <2>3. g = f  BY <1>4, <2>1, <2>2, InstrumentedOnce
  <2> QED  BY <1>4, <2>3 DEF HalfWired
<1>5. CASE ~WireFails(k, c, m) /\ f = WireFile(k, c, m)
  <2>1. NeatFile(k)  BY <1>2, NeatFileAlike
  <2>2. \A i \in DOMAIN k.funcs : k.funcs[i].name # "main" => Ordered(k.funcs[i].body)
    BY <2>1 DEF NeatFile, FuncNeat
  <2>3. Instrumented(f, c) \/ SomeHeadless(f)  BY <1>2, <1>5, <2>2, WireKeepsInstrumented
  <2>4. g = f  BY <2>3, InstrumentedStays
  <2> QED  BY <1>1, <1>5, <2>4 DEF HalfWired
<1> QED  BY <1>1, <1>3, <1>4, <1>5 DEF HalfWired

LEMMA InstrumentBegins ==
  ASSUME NEW o \in Files, NEW c, NEW s, s, NEW f, Unwired(f, o, c, s),
         NEW g, g = InstrumentFile(f, c)
  PROVE  Unwired(g, o, c, s)
<1>1. CASE f = o  BY <1>1 DEF Unwired
<1>2. CASE f = InstrumentFile(o, c)
  <2>1. g = f  BY <1>2, InstrumentedOnce
  <2> QED  BY <1>2, <2>1 DEF Unwired
<1> QED  BY <1>1, <1>2 DEF Unwired

\* A form with nothing left to do is what one pass of each makes of o.
LEMMA Unfailing ==
  ASSUME NEW f \in Files, NEW c, c.jobs \in Seq(Names), NEW m \in BOOLEAN, Wired(f, c, m)
  PROVE  ~WireFails(f, c, m)
<1>1. CASE m = FALSE  BY <1>1 DEF Wired, WiredRouter, WireFails, PlanOf
<1>2. CASE m = TRUE
  <2> SUFFICES ASSUME WireFails(f, c, m)  PROVE FALSE  OBVIOUS
  <2>1. PICK plan : plan = AnalyzeMain(f, c)  OBVIOUS
  <2>2. HasChanges(plan) /\ MainFails(f, plan)  BY <1>2, <2>1 DEF WireFails, PlanOf
  <2>3. WiredMain(f, c)  BY <1>2 DEF Wired
  <2>4. HasMain(f) /\ plan.hooks \subseteq {"listen", "grpc"} /\ PlannedJobs(plan) = {}
    BY <2>1, <2>2, <2>3 DEF WiredMain
  <2>5. "cli" \notin plan.hooks  BY <2>4
  <2>6. PICK jobs : jobs = plan.jobs  OBVIOUS
  <2>7. DOMAIN jobs = 1 .. Len(jobs)
    <3>1. "wire" \notin f.skip
      <4>1. ~HasChanges(NoPlan)  BY NoElems DEF HasChanges, NoPlan, PlannedJobs
      <4> QED  BY <2>1, <2>2, <4>1 DEF AnalyzeMain
    <3>2. plan.jobs \in Seq(Names)  BY <2>1, <2>4, <3>1, MainAnalysis
    <3> QED  BY <2>6, <3>2
  <2>8. \A x \in Elems(jobs) : x = ""  BY <2>4, <2>6 DEF PlannedJobs
  <2>9. \A n \in 1 .. Len(jobs) : jobs[n] = ""  BY <2>7, <2>8 DEF Elems
  <2>10. \A body : CanRunJobs(body, jobs)  BY <2>9 DEF CanRunJobs
  <2> QED  BY <2>2, <2>4, <2>5, <2>6, <2>10 DEF MainFails
<1> QED  BY <1>1, <1>2

LEMMA Arrived ==
  ASSUME NEW o \in Files, NeatFile(o), NEW c, c.jobs \in Seq(Names), NEW m \in BOOLEAN,
         NEW s, NEW f, Unwired(f, o, c, s) \/ HalfWired(f, o, c, s, m),
         Wired(f, c, m), s => Instrumented(f, c), ~SomeHeadless(f)
  PROVE  f = IF s THEN InstrumentFile(WireFile(o, c, m), c) ELSE WireFile(o, c, m)
<1>1. PICK k : k = InstrumentFile(o, c)  OBVIOUS
<1>2. k \in Files  BY <1>1, InstrumentedOnce
<1>3. HalfWired(f, o, c, s, m)
  <2>1. CASE Unwired(f, o, c, s)
    <3>1. f \in Files  BY <1>1, <1>2, <2>1 DEF Unwired
    <3>2. ~WireFails(f, c, m) /\ WireFile(f, c, m) = f  BY <3>1, Unfailing, WiredStays
    <3> QED  BY <2>1, <3>2, WireAdvances
  <2> QED  BY <2>1
<1>4. CASE ~WireFails(o, c, m) /\ f = WireFile(o, c, m)
  <2>1. s => InstrumentFile(f, c) = f  BY InstrumentedStays
  <2> QED  BY <1>4, <2>1
<1>5. CASE s /\ f = InstrumentFile(WireFile(o, c, m), c)  BY <1>5
<1>6. CASE s /\ ~WireFails(k, c, m) /\ f = WireFile(k, c, m)
  <2>1. f = InstrumentFile(WireFile(o, c, m), c)  BY <1>1, <1>6, Commutes
  <2> QED  BY <1>6, <2>1
<1> QED  BY <1>1, <1>3, <1>4, <1>5, <1>6 DEF HalfWired

-------------------------------------------------------------------------------
(* Every file is on its way to what one pass of each command makes of it.    *)

OwnTargets == Elems(Targets(own, cfg, Walk))
OnTheWay(f, p) ==
  LET s == ShouldInstrument(p, cfg)
  IN  \/ Unwired(f, own[p], cfg, s)
      \/ \E t \in OwnTargets : t.path = p /\ HalfWired(f, own[p], cfg, s, t.isMain)

\* instrument has run only where every file built, so that the developer's sources use no
\* router above the one that they create.
Headed == cmd = "instrument" \/ "instrument" \in settled
            => \A p \in Paths : ~SomeHeadless(own[p])
Kept == \A p \in Paths : NeatFrom(own[p], own[p]) /\ Alike(own[p], files[p])
Underway == Plain => \A p \in Paths : OnTheWay(files[p], p)
Written == Kept /\ Headed /\ Underway
PInv == edits \in Nat /\ (edits = 0 => Written)

LEMMA AlikeOn ==
  ASSUME NEW f, NEW g, NEW h, Alike(f, g), Alike(g, h)  PROVE Alike(f, h)
<1>1. DOMAIN h.funcs = DOMAIN f.funcs /\ SameHeader(f, h)  BY DEF Alike, SameHeader
<1>2. ASSUME NEW i \in DOMAIN f.funcs  PROVE FuncAlike(f.funcs[i], h.funcs[i])
  <2>1. PICK a, b, d : a = f.funcs[i] /\ b = g.funcs[i] /\ d = h.funcs[i]  OBVIOUS
  <2>2. FuncAlike(a, b) /\ FuncAlike(b, d)  BY <2>1 DEF Alike
  <2>3. BodyAlike(a.body, d.body)
    <3>1. PICK x, y, z : x = a.body /\ y = b.body /\ z = d.body  OBVIOUS
    <3>2. BodyAlike(x, y) /\ BodyAlike(y, z)  BY <2>2, <3>1 DEF FuncAlike
    <3>3. BodyAlike(x, z)  BY <3>2, AlikeFurther
    <3> QED  BY <3>1, <3>3
  <2>4. FuncAlike(a, d)  BY <2>2, <2>3 DEF FuncAlike
  <2> QED  BY <2>1, <2>4
<1> QED  BY <1>1, <1>2 DEF Alike

\* No command adds a use, and only a stranded middleware stands above every router.
LEMMA HeadedStays ==
  ASSUME NEW f, NEW g, Alike(f, g), ~SomeHeadless(f), Sound(g)  PROVE ~SomeHeadless(g)
<1> SUFFICES ASSUME NEW i \in DOMAIN g.funcs, Headless(g.funcs[i].body)  PROVE FALSE
  BY DEF SomeHeadless
<1>1. PICK b, c : b = f.funcs[i].body /\ c = g.funcs[i].body  OBVIOUS
<1>2. i \in DOMAIN f.funcs /\ BodyAlike(b, c)  BY <1>1 DEF Alike, FuncAlike
<1>3. ~Headless(b) /\ ~Stranded(c)  BY <1>1, <1>2 DEF SomeHeadless, Sound
<1>4. PICK x \in DOMAIN c : c[x].k \in {"use", "middleware"} /\ \A j \in 1 .. x - 1 : c[j].k # "create"
  BY <1>1 DEF Headless
<1>5. CASE c[x].k = "middleware"  BY <1>3, <1>4, <1>5 DEF Stranded
<1>6. CASE c[x].k = "use"
  <2>1. UseHeadless(c)  BY <1>4, <1>6 DEF UseHeadless
  <2>2. UseHeadless(b)  BY <1>2, <2>1 DEF BodyAlike
  <2> QED  BY <1>3, <2>2 DEF UseHeadless, Headless
<1> QED  BY <1>4, <1>5, <1>6

LEMMA OwnTargetsNow ==
  ASSUME Kept  PROVE OwnTargets = TargetsNow
<1>1. PICK tree, new, c : tree = own /\ new = files /\ c = cfg  OBVIOUS
<1>2. \A p \in Paths : Alike(tree[p], new[p])  BY <1>1 DEF Kept
<1>3. Targets(new, c, Walk) = Targets(tree, c, Walk)  BY <1>2, SameTargets
<1> QED  BY <1>1, <1>3 DEF OwnTargets, TargetsNow

LEMMA OwnNeat ==
  ASSUME Kept, Plain, NEW p \in Paths  PROVE NeatFile(own[p])
<1> SUFFICES ASSUME NEW i \in DOMAIN own[p].funcs  PROVE FuncNeat(own[p].funcs[i])
  BY DEF NeatFile
<1>1. PICK o, fn : o = own[p] /\ fn = o.funcs[i]  OBVIOUS
<1>2. NeatFrom(o, o)  BY <1>1 DEF Kept
<1>3. fn \in Elems(o.funcs)  BY <1>1 DEF Elems
<1>4. /\ \A s \in Elems(fn.body) : Replaceable(s)
      /\ fn.name # "main" => SpansFirst(fn.body)
  BY <1>1, <1>3 DEF Plain
<1>5. FuncPlain(fn)  BY <1>4 DEF FuncPlain, AllReplaceable
<1> QED  BY <1>1, <1>2, <1>5 DEF NeatFrom

LEMMA WrittenAtFirst == Init => PInv
<1> SUFFICES ASSUME Init  PROVE PInv  OBVIOUS
<1>1. PICK project \in Projects : files = project.files /\ own = project.files  BY DEF Init
<1>2. cmd = "idle" /\ settled = {} /\ edits = 0  BY DEF Init
<1>3. ASSUME NEW p \in Paths  PROVE NeatFrom(own[p], own[p]) /\ Alike(own[p], files[p])
  <2>1. /\ project.files \in [Paths -> Files]
        /\ \A fn \in Elems(project.files[p].funcs) : ByHand(fn.body)
    BY CodegenAssumption
  <2>2. PICK f \in Files : f = project.files[p]  BY <2>1
  <2>3. NeatFrom(f, f)  BY <2>1, <2>2, NeatAtFirst
  <2>4. Alike(f, f)  BY SameAlike
  <2> QED  BY <1>1, <2>2, <2>3, <2>4
<1>4. Headed  BY <1>2 DEF Headed
<1>5. Underway  BY <1>1 DEF Underway, OnTheWay, Unwired
<1>6. Written  BY <1>3, <1>4, <1>5 DEF Written, Kept
<1>7. edits \in Nat  BY <1>2
<1> QED  BY <1>6, <1>7 DEF PInv

\* A step that leaves the trees alone; instrument begins only where every file builds.
LEMMA WrittenStill ==
  ASSUME PInv, UNCHANGED <<files, cfg, own, edits>>,
         cmd' = "instrument" \/ "instrument" \in settled' =>
           \/ cmd = "instrument" \/ "instrument" \in settled
           \/ Kept => \A p \in Paths : ~SomeHeadless(own[p])
  PROVE  PInv'
<1>1. edits' \in Nat  BY DEF PInv
<1>2. ASSUME edits' = 0  PROVE Written'
  <2>1. Kept /\ Headed /\ Underway  BY <1>2 DEF PInv, Written
  <2>2. Kept'  BY <2>1 DEF Kept
  <2>3. Headed'
    <3> SUFFICES ASSUME cmd' = "instrument" \/ "instrument" \in settled'
                 PROVE  \A p \in Paths : ~SomeHeadless(own[p])
      BY DEF Headed
    <3> QED  BY <2>1 DEF Headed
  <2>4. Underway'
    <3>1. Plain' => Plain  BY DEF Plain
    <3>2. \A p \in Paths : OnTheWay(files[p], p) => OnTheWay(files[p], p)'
      BY DEF OnTheWay, OwnTargets
    <3> QED  BY <2>1, <3>1, <3>2 DEF Underway
  <2> QED  BY <2>2, <2>3, <2>4 DEF Written
<1> QED  BY <1>1, <1>2 DEF PInv

LEMMA WrittenEnd ==
  ASSUME PInv, NEW result, End(result), UNCHANGED settled  PROVE PInv'
<1>1. UNCHANGED <<files, cfg, own, edits>> /\ settled' = settled /\ cmd' = "idle"  BY DEF End
<1>2. cmd' # "instrument"  BY <1>1
<1> QED  BY <1>1, <1>2, WrittenStill

LEMMA WrittenComplete == ASSUME PInv, Complete  PROVE PInv'
<1>1. /\ UNCHANGED <<files, cfg, own, edits>> /\ cmd' = "idle"
      /\ settled' = IF dry THEN settled ELSE settled \cup {cmd}
  BY DEF Complete, End
<1>2. cmd' # "instrument" /\ ("instrument" \in settled' => cmd = "instrument" \/ "instrument" \in settled)
  BY <1>1
<1> QED  BY <1>1, <1>2, WrittenStill

LEMMA WrittenStart ==
  ASSUME IInv, PInv, NEW d \in BOOLEAN, StartWire(d) \/ StartInstrument(d)  PROVE PInv'
<1>1. CASE End("error") /\ UNCHANGED settled  BY <1>1, WrittenEnd
<1>2. CASE Begin("wire", d, Targets(files, cfg, Walk))
  <2>1. UNCHANGED <<files, cfg, own, edits>> /\ settled' = settled /\ cmd' # "instrument"
    BY <1>2 DEF Begin, ghosts
  <2> QED  BY <2>1, WrittenStill
<1>3. CASE /\ Begin("instrument", d, AsTargets(Walk, FALSE))
           /\ \A p \in Paths : Builds(files[p])
  <2>1. UNCHANGED <<files, cfg, own, edits>>  BY <1>3 DEF Begin, ghosts
  <2>2. ASSUME Kept, NEW p \in Paths  PROVE ~SomeHeadless(own[p])
    <3>1. PICK f \in Files : f = files[p]  BY DEF IInv, TypeOK
    <3>2. PICK o : o = own[p]  OBVIOUS
    <3>3. Builds(f) /\ Alike(o, f)  BY <1>3, <2>2, <3>1, <3>2 DEF Kept
    <3>4. ~SomeHeadless(f)  BY <3>1, <3>3, BuildsHeaded
    <3> QED  BY <3>2, <3>3, <3>4, HeadlessStays
  <2> QED  BY <2>1, <2>2, WrittenStill
<1> QED  BY <1>1, <1>2, <1>3 DEF StartWire, StartInstrument

\* The step of a run takes its target from one form to another.
LEMMA RewritingAdvances ==
  ASSUME IInv, RInv, Kept, Headed, Underway, Plain,
         NEW t \in TargetRecords, NEW g, Rewriting(t, g)
  PROVE  OnTheWay(g, t.path)
<1>1. t.path \in Paths /\ t.isMain \in BOOLEAN  BY DEF TargetRecords
<1>2. PICK p \in Paths : p = t.path  BY <1>1
<1>3. PICK o \in Files, f \in Files : o = own[p] /\ f = files[p]  BY DEF IInv, TypeOK
<1>4. PICK c \in Configs : c = cfg  BY DEF IInv, TypeOK
<1>5. c.jobs \in Seq(Names)  BY DEF Configs
<1>6. PICK s : s = ShouldInstrument(p, c)  OBVIOUS
<1>7. NeatFile(o)  BY <1>3, OwnNeat
<1>8. /\ OwnTargets = TargetsNow /\ TargetsNow \subseteq TargetRecords
      /\ \A u, v \in TargetsNow : u.path = v.path => u = v
  BY OwnTargetsNow, TargetsApart
<1>9. \A x : OnTheWay(x, p) <=> \/ Unwired(x, o, c, s)
                                \/ \E u \in OwnTargets : u.path = p /\ HalfWired(x, o, c, s, u.isMain)
  BY <1>3, <1>4, <1>6 DEF OnTheWay
<1>10. \/ Unwired(f, o, c, s)
       \/ \E u \in OwnTargets : u.path = p /\ HalfWired(f, o, c, s, u.isMain)
  BY <1>3, <1>9 DEF Underway
<1>11. RewriteOf(t, g)  BY DEF Rewriting
<1>12. CASE /\ cmd = "wire" /\ ~WireFails(f, c, t.isMain) /\ g = WireFile(f, c, t.isMain)
  <2>1. t \in OwnTargets
    <3>1. t \in Elems(todo)  BY DEF Rewriting
    <3>2. WireUnderway  BY DEF RInv, Settling
    <3> QED  BY <1>8, <1>12, <3>1, <3>2 DEF WireUnderway
  <2>2. PICK m \in BOOLEAN : m = t.isMain  BY <1>1
  <2>3. Unwired(f, o, c, s) \/ HalfWired(f, o, c, s, m)
    <3>1. \A u \in OwnTargets : u.path = p => u.isMain = m  BY <1>2, <1>8, <2>1, <2>2
    <3> QED  BY <1>10, <3>1
  <2>4. ~WireFails(f, c, m) /\ g = WireFile(f, c, m)  BY <1>12, <2>2
  <2>5. HalfWired(g, o, c, s, m)  BY <1>5, <1>7, <2>3, <2>4, WireAdvances
  <2> QED  BY <1>2, <1>9, <2>1, <2>2, <2>5
<1>13. CASE cmd = "instrument" /\ s /\ g = InstrumentFile(f, c)
  <2>1. CASE Unwired(f, o, c, s)
    <3>1. Unwired(g, o, c, s)  BY <1>13, <2>1, InstrumentBegins
    <3> QED  BY <1>2, <1>9, <3>1
  <2>2. ASSUME NEW u \in OwnTargets, u.path = p, HalfWired(f, o, c, s, u.isMain)
        PROVE  OnTheWay(g, p)
    <3>1. PICK m \in BOOLEAN : m = u.isMain  BY <1>8 DEF TargetRecords
    <3>2. ~SomeHeadless(f)
      <4>1. Alike(o, f) /\ ~SomeHeadless(o)  BY <1>3, <1>13 DEF Kept, Headed
      <4>2. Sound(f)  BY <1>3, <1>13 DEF IInv, NoneStranded
      <4> QED  BY <4>1, <4>2, HeadedStays
    <3>3. HalfWired(f, o, c, s, m)  BY <2>2, <3>1
    <3>4. HalfWired(g, o, c, s, m)  BY <1>5, <1>7, <1>13, <3>2, <3>3, InstrumentAdvances
    <3> QED  BY <1>9, <2>2, <3>1, <3>4
  <2> QED  BY <1>2, <1>10, <2>1, <2>2
<1>14. CASE g = f  BY <1>2, <1>9, <1>10, <1>14
<1> QED  BY <1>2, <1>3, <1>4, <1>6, <1>11, <1>12, <1>13, <1>14 DEF RewriteOf

LEMMA WrittenRewriting == ASSUME IInv, RInv, PInv, RewriteTarget  PROVE PInv'
<1>1. CASE End("error") /\ UNCHANGED settled  BY <1>1, WrittenEnd
<1>2. CASE \E t \in TargetRecords : \E g : Rewriting(t, g)
  <2>1. PICK t \in TargetRecords : \E g : Rewriting(t, g)  BY <1>2
  <2>2. PICK g : Rewriting(t, g)  BY <2>1
  <2>3. cfg' = cfg /\ cmd' = cmd /\ own' = own /\ settled' = settled  BY <2>2 DEF Rewriting
  <2>4. edits' = edits  BY DEF RewriteTarget, End, ghosts
  <2>5. /\ \A p \in Paths : files'[p] = IF p = t.path /\ ~dry THEN g ELSE files[p]
        /\ \A p \in Paths : Alike(files[p], files'[p])
    BY <2>2, RewritingTree
  <2>6. ASSUME edits' = 0  PROVE Written'
    <3>1. Kept /\ Headed /\ Underway  BY <2>4, <2>6 DEF PInv, Written
    <3>2. Kept'
      <4> SUFFICES ASSUME NEW p \in Paths
                   PROVE  NeatFrom(own[p], own[p]) /\ Alike(own[p], files'[p])
        BY <2>3 DEF Kept
      <4>1. PICK o, f, h : o = own[p] /\ f = files[p] /\ h = files'[p]  OBVIOUS
      <4>2. NeatFrom(o, o) /\ Alike(o, f)  BY <3>1, <4>1 DEF Kept
      <4>3. Alike(f, h)  BY <2>5, <4>1
      <4>4. Alike(o, h)  BY <4>2, <4>3, AlikeOn
      <4> QED  BY <4>1, <4>2, <4>4
    <3>3. Headed'  BY <2>3, <3>1 DEF Headed
    <3>4. ASSUME Plain', NEW p \in Paths  PROVE OnTheWay(files[p], p)'
      <4>1. Plain  BY <2>3, <3>4 DEF Plain
      <4>2. PICK h : h = files'[p]  OBVIOUS
      <4>3. OnTheWay(h, p)
        <5>1. CASE p = t.path /\ ~dry
          <6>1. h = g  BY <2>5, <4>2, <5>1
          <6>2. OnTheWay(g, t.path)  BY <2>2, <3>1, <4>1, RewritingAdvances
          <6> QED  BY <5>1, <6>1, <6>2
        <5>2. CASE ~(p = t.path /\ ~dry)
          <6>1. h = files[p]  BY <2>5, <4>2, <5>2
          <6> QED  BY <3>1, <4>1, <6>1 DEF Underway
        <5> QED  BY <5>1, <5>2
      <4> QED  BY <2>3, <4>2, <4>3 DEF OnTheWay, OwnTargets
    <3>5. Underway'  BY <3>4 DEF Underway
    <3> QED  BY <3>2, <3>3, <3>5 DEF Written
  <2>7. edits' \in Nat  BY <2>4 DEF PInv
  <2> QED  BY <2>6, <2>7 DEF PInv
<1> QED  BY <1>1, <1>2, RewriteParts

LEMMA WrittenNext == IInv /\ RInv /\ PInv /\ [Next]_vars => PInv'
<1> SUFFICES ASSUME IInv, RInv, PInv, [Next]_vars  PROVE PInv'  OBVIOUS
<1>1. CASE \E d \in BOOLEAN : StartWire(d) \/ StartInstrument(d)  BY <1>1, WrittenStart
<1>2. CASE RewriteTarget  BY <1>2, WrittenRewriting
<1>3. CASE Complete  BY <1>3, WrittenComplete
<1>4. CASE Interrupt  BY <1>4, WrittenEnd DEF Interrupt
<1>5. CASE Reconfigure \/ AddLine \/ AddCall
  <2>1. edits' = edits + 1  BY <1>5 DEF Reconfigure, AddLine, AddCall, Edit
  <2>2. edits \in Nat  BY DEF PInv
  <2>3. edits' \in Nat /\ edits' # 0  BY <2>1, <2>2
  <2> QED  BY <2>3 DEF PInv
<1>6. CASE UNCHANGED vars
  <2>1. UNCHANGED <<files, cfg, own, edits>> /\ cmd' = cmd /\ settled' = settled
    BY <1>6 DEF vars
  <2> QED  BY <2>1, WrittenStill
<1> QED  BY <1>1, <1>2, <1>3, <1>4, <1>5, <1>6 DEF Next

\* Where both commands have completed, every file has arrived.
LEMMA ArrivedAll ==
  ASSUME IInv, RInv, PInv, edits = 0, settled = Commands, Plain,
         \A p \in Paths : Sound(files[p]), NEW p \in Paths
  PROVE  files[p] = OnePass(p)
<1>1. Kept /\ Headed /\ Underway  BY DEF PInv, Written
<1>2. "wire" \in settled /\ "instrument" \in settled  BY DEF Commands
<1>3. ASSUME NEW q \in Paths  PROVE ~SomeHeadless(files[q])
  <2>1. PICK o, f : o = own[q] /\ f = files[q]  OBVIOUS
  <2>2. Alike(o, f) /\ ~SomeHeadless(o) /\ Sound(f)  BY <1>1, <1>2, <2>1 DEF Kept, Headed
  <2> QED  BY <2>1, <2>2, HeadedStays
<1>4. WireSettled /\ InstrumentSettled  BY DEF RInv, Settling
<1>5. \A t \in TargetsNow : WiredNow(t)  BY <1>2, <1>4 DEF WireSettled
<1>6. \A q \in Paths : SpannedNow(q)  BY <1>2, <1>3, <1>4 DEF InstrumentSettled, HeadlessNow
<1>7. PICK o \in Files, f \in Files : o = own[p] /\ f = files[p]  BY DEF IInv, TypeOK
<1>8. PICK c \in Configs : c = cfg  BY DEF IInv, TypeOK
<1>9. c.jobs \in Seq(Names)  BY DEF Configs
<1>10. PICK s : s = ShouldInstrument(p, c)  OBVIOUS
<1>11. NeatFile(o)  BY <1>1, <1>7, OwnNeat
<1>12. /\ OwnTargets = TargetsNow /\ TargetsNow \subseteq TargetRecords
       /\ \A u, v \in TargetsNow : u.path = v.path => u = v
  BY <1>1, OwnTargetsNow, TargetsApart
<1>13. \/ Unwired(f, o, c, s)
       \/ \E u \in OwnTargets : u.path = p /\ HalfWired(f, o, c, s, u.isMain)
  BY <1>1, <1>7, <1>8, <1>10 DEF Underway, OnTheWay
<1>14. s => Instrumented(f, c)  BY <1>6, <1>7, <1>8, <1>10 DEF SpannedNow
<1>15. PICK ts : ts = OwnTargets  OBVIOUS
<1>16. ASSUME NEW t \in ts, t.path = p  PROVE f = OnePass(p)
  <2>1. PICK m \in BOOLEAN : m = t.isMain  BY <1>12, <1>15 DEF TargetRecords
  <2>2. \A u \in ts : u.path = p => u.isMain = m  BY <1>12, <1>15, <1>16, <2>1
  <2>3. Wired(f, c, m)  BY <1>5, <1>7, <1>8, <1>12, <1>15, <1>16, <2>1 DEF WiredNow
  <2>4. Unwired(f, o, c, s) \/ HalfWired(f, o, c, s, m)  BY <1>13, <1>15, <2>2
  <2>5. ~SomeHeadless(f)  BY <1>3, <1>7
  <2>6. f = IF s THEN InstrumentFile(WireFile(o, c, m), c) ELSE WireFile(o, c, m)
    BY <1>9, <1>11, <1>14, <2>3, <2>4, <2>5, Arrived
  <2>7. (\E u \in ts : u.path = p /\ u.isMain) = m  BY <1>16, <2>1, <2>2
  <2>8. OnePass(p) = IF s THEN InstrumentFile(WireFile(o, c, m), c) ELSE WireFile(o, c, m)
    BY <1>7, <1>8, <1>10, <1>15, <1>16, <2>7 DEF OnePass, OwnTargets
  <2> QED  BY <2>6, <2>8
<1>17. ASSUME \A t \in ts : t.path # p  PROVE f = OnePass(p)
  <2>1. Unwired(f, o, c, s)  BY <1>13, <1>15, <1>17
  <2>2. OnePass(p) = IF s THEN InstrumentFile(o, c) ELSE o
    BY <1>7, <1>8, <1>10, <1>15, <1>17 DEF OnePass, OwnTargets
  <2>3. CASE f = o
    <3>1. s => InstrumentFile(f, c) = f  BY <1>14, InstrumentedStays
    <3> QED  BY <2>2, <2>3, <3>1
  <2>4. CASE s /\ f = InstrumentFile(o, c)  BY <2>2, <2>4
  <2> QED  BY <2>1, <2>3, <2>4 DEF Unwired
<1> QED  BY <1>7, <1>16, <1>17

\* Once both commands have completed on a developer's sources, and nothing stands above the
\* routers that it needs, every file is what one pass of each makes of the sources: no run that
\* was cut short, refused or dry, and no order of the two commands, leaves a trace. The tree
\* is one whose hooks are not the developer's own and whose spans stand above its routers.
THEOREM ResumedKept == Spec => []ResumedEqualsOnePass
<1>1. ASSUME IInv, RInv, PInv  PROVE ResumedEqualsOnePass
  <2> SUFFICES ASSUME edits = 0, settled = Commands, Plain,
                      \A p \in Paths : \A fn \in Elems(files[p].funcs) : ~Stranded(fn.body),
                      NEW p \in Paths
               PROVE  files[p] = OnePass(p)
    BY DEF ResumedEqualsOnePass
  <2>1. \A q \in Paths : Sound(files[q])  BY DEF Sound, Elems
  <2> QED  BY <1>1, <2>1, ArrivedAll
<1>2. Spec => []IInv  BY CodegenInvariant
<1>3. IInv /\ RInv /\ [Next]_vars => RInv'  BY SettlesNext
<1>4. Init => RInv  BY SettlesAtFirst
<1>5. Spec => []RInv  BY <1>2, <1>3, <1>4, PTL DEF Spec
<1>6. IInv /\ RInv /\ PInv /\ [Next]_vars => PInv'  BY WrittenNext
<1>7. Init => PInv  BY WrittenAtFirst
<1>8. Spec => []PInv  BY <1>2, <1>5, <1>6, <1>7, PTL DEF Spec
<1> QED  BY <1>1, <1>2, <1>5, <1>8, PTL
===============================================================================
