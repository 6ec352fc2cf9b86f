--------------------------- MODULE GiornaleProofs ---------------------------
(***************************************************************************)
(* The journal keeps its word on every volume: for every number of files,  *)
(* blocks, groups and slots, every length of the journal and every cut.    *)
(***************************************************************************)
EXTENDS Giornale, FiniteSetTheorems, WellFoundedInduction, TLAPS

-----------------------------------------------------------------------------
(* The walk of the replay.                                                 *)

\* A set of numbers that is not empty has a least one.
LEMMA Minimo ==
    ASSUME NEW S, S \subseteq Nat, S # {}
    PROVE  \E x \in S : \A y \in S : x <= y
<1> DEFINE Minori == {ss \in Nat \X Nat : ss[1] < ss[2]}
<1>1. IsWellFoundedOn(Minori, Nat)
  <2>1. OpToRel(<, Nat) = Minori
    BY DEF OpToRel
  <2> QED
    BY <2>1, NatLessThanWellFounded
<1>2. PICK x \in S : \A y \in S : ~(<<y, x>> \in Minori)
  <2> HIDE DEF Minori
  <2> QED
    BY <1>1, WFMin, Zenon
<1>3. ASSUME NEW y \in S PROVE x <= y
  <2>1. x \in Nat /\ y \in Nat /\ <<y, x>> \in Nat \X Nat
    OBVIOUS
  <2>2. ~(<<y, x>> \in Minori)
    BY <1>2
  <2> QED
    BY <2>1, <2>2
<1> QED
  BY <1>3

\* Induction over the steps of the walk, for a set of numbers.
LEMMA Gradini ==
    ASSUME NEW S, NEW m \in Nat, 0 \in S,
           \A k \in Nat : k < m /\ k \in S => k + 1 \in S
    PROVE  \A k \in 0 .. m : k \in S
<1>1. SUFFICES ASSUME NEW k0 \in 0 .. m, k0 \notin S PROVE FALSE
  OBVIOUS
<1> DEFINE F == {k \in 0 .. m : k \notin S}
<1>2. F \subseteq Nat /\ F # {}
  BY <1>1
<1>3. PICK x \in F : \A y \in F : x <= y
  <2> HIDE DEF F
  <2> QED  BY <1>2, Minimo
<1>4. x # 0 /\ x \in 0 .. m /\ x \notin S
  BY <1>3
<1>5. x - 1 \in 0 .. m /\ x - 1 \in Nat /\ x - 1 < m
  BY <1>4
<1>6. x - 1 \in S
  <2>1. CASE x - 1 \notin S
    <3>1. x - 1 \in F
      BY <1>5, <2>1
    <3> QED  BY <3>1, <1>3, <1>4
  <2> QED  BY <2>1
<1>7. (x - 1) + 1 = x
  BY <1>4
<1> QED
  BY <1>4, <1>5, <1>6, <1>7

\* The functions that go m steps of the walk over disk d.
Cammina(d, m, w) ==
    w = [k \in 0 .. m |->
           IF k = 0 THEN Partenza(d)
           ELSE CHOOSE q \in {Esamina(d, p) : p \in {w[k - 1]}} : TRUE]

LEMMA UnoSolo ==
    ASSUME NEW d, NEW x
    PROVE  (CHOOSE q \in {Esamina(d, p) : p \in {x}} : TRUE) = Esamina(d, x)
<1> DEFINE E == Esamina(d, x)
<1>1. {Esamina(d, p) : p \in {x}} = {E}
  OBVIOUS
<1> HIDE DEF E
<1>2. (CHOOSE q \in {E} : TRUE) = E
  OBVIOUS
<1> QED
  BY <1>1, <1>2 DEF E

LEMMA CamminaEsiste ==
    ASSUME NEW d, NEW m \in Nat
    PROVE  \E w : Cammina(d, m, w)
<1> DEFINE S == {k \in Nat : \E w : Cammina(d, k, w)}
<1>1. 0 \in S
  <2> DEFINE w == [k \in 0 .. 0 |-> Partenza(d)]
  <2>1. Cammina(d, 0, w)
    BY DEF Cammina
  <2> QED  BY <2>1
<1>2. ASSUME NEW k \in Nat, k < m, k \in S PROVE k + 1 \in S
  <2>1. PICK w : Cammina(d, k, w)
    BY <1>2
  <2> DEFINE u == [i \in 0 .. k + 1 |-> IF i <= k THEN w[i] ELSE Esamina(d, w[k])]
  <2>2. u[k] = w[k] /\ \A i \in 0 .. k : u[i] = w[i]
    OBVIOUS
  <2>3. \A i \in 0 .. k + 1 : i # 0 => i - 1 \in 0 .. k
    OBVIOUS
  <2>4. ASSUME NEW i \in 0 .. k + 1
        PROVE  u[i] = IF i = 0 THEN Partenza(d)
                      ELSE CHOOSE q \in {Esamina(d, p) : p \in {u[i - 1]}} : TRUE
    <3>1. CASE i <= k
      <4>1. i \in 0 .. k
        BY <3>1
      <4>2. w[i] = IF i = 0 THEN Partenza(d)
                   ELSE CHOOSE q \in {Esamina(d, p) : p \in {w[i - 1]}} : TRUE
        BY <4>1, <2>1 DEF Cammina
      <4>3. i # 0 => u[i - 1] = w[i - 1]
        BY <2>2, <2>3
      <4> HIDE DEF u
      <4> QED  BY <4>1, <4>2, <4>3, <2>2
    <3>2. CASE ~(i <= k)
      <4>1. i = k + 1 /\ i - 1 = k /\ i # 0
        BY <3>2
      <4>2. u[i] = Esamina(d, w[k])
        BY <4>1
      <4> HIDE DEF u
      <4> QED  BY <4>1, <4>2, <2>2, UnoSolo
    <3> QED  BY <3>1, <3>2
  <2>5. Cammina(d, k + 1, u)
    <3>1. u = [i \in 0 .. k + 1 |-> u[i]]
      OBVIOUS
    <3> HIDE DEF u
    <3> QED  BY <3>1, <2>4 DEF Cammina
  <2> QED  BY <2>5
<1> HIDE DEF S
<1>3. m \in S
  BY <1>1, <1>2, Gradini
<1> QED
  BY <1>3 DEF S

\* The steps of the walk.
LEMMA Passi ==
    ASSUME NEW d
    PROVE  \E w : /\ w[0] = Partenza(d)
                  /\ \A k \in Nat : k < Maxlen => w[k + 1] = Esamina(d, w[k])
                  /\ passo(d) = w[Maxlen]
<1>1. Maxlen \in Nat
  BY MisureGiornale
<1> DEFINE w == CHOOSE w : Cammina(d, Maxlen, w)
<1>2. Cammina(d, Maxlen, w)
  BY <1>1, CamminaEsiste
<1>3. passo(d) = w[Maxlen]
  BY DEF passo, Cammina
<1> HIDE DEF w
<1>4. w[0] = Partenza(d)
  BY <1>1, <1>2 DEF Cammina
<1>5. ASSUME NEW k \in Nat, k < Maxlen PROVE w[k + 1] = Esamina(d, w[k])
  <2>1. k + 1 \in 0 .. Maxlen /\ k + 1 # 0 /\ (k + 1) - 1 = k
    BY <1>1, <1>5
  <2>2. w[k + 1] = CHOOSE q \in {Esamina(d, p) : p \in {w[(k + 1) - 1]}} : TRUE
    BY <2>1, <1>2 DEF Cammina
  <2> QED  BY <2>1, <2>2, UnoSolo
<1> QED
  BY <1>3, <1>4, <1>5

\* What holds at the start of two walks, and is kept by a step of both, holds
\* at their ends.
LEMMA InDue ==
    ASSUME NEW d, NEW e, NEW R, <<Partenza(d), Partenza(e)>> \in R,
           \A p, q : <<p, q>> \in R => <<Esamina(d, p), Esamina(e, q)>> \in R
    PROVE  <<passo(d), passo(e)>> \in R
<1>1. Maxlen \in Nat
  BY MisureGiornale
<1>2. PICK w : /\ w[0] = Partenza(d)
               /\ \A k \in Nat : k < Maxlen => w[k + 1] = Esamina(d, w[k])
               /\ passo(d) = w[Maxlen]
  BY Passi, Zenon
<1>3. PICK u : /\ u[0] = Partenza(e)
               /\ \A k \in Nat : k < Maxlen => u[k + 1] = Esamina(e, u[k])
               /\ passo(e) = u[Maxlen]
  BY Passi, Zenon
<1> DEFINE S == {k \in Nat : <<w[k], u[k]>> \in R}
<1>4. 0 \in S
  BY <1>2, <1>3
<1>5. \A k \in Nat : k < Maxlen /\ k \in S => k + 1 \in S
  <2>1. TAKE k \in Nat
  <2>2. HAVE k < Maxlen /\ k \in S
  <2>3. <<Esamina(d, w[k]), Esamina(e, u[k])>> \in R
    BY <2>2
  <2> QED  BY <2>2, <2>3, <1>2, <1>3
<1> HIDE DEF S
<1>6. Maxlen \in S
  BY <1>1, <1>4, <1>5, Gradini
<1> QED
  BY <1>2, <1>3, <1>6 DEF S

\* The same for one walk.
LEMMA InUno ==
    ASSUME NEW d, NEW S, Partenza(d) \in S, \A p \in S : Esamina(d, p) \in S
    PROVE  passo(d) \in S
<1> DEFINE R == S \X S
<1>1. <<Partenza(d), Partenza(d)>> \in R
  OBVIOUS
<1>2. \A p, q : <<p, q>> \in R => <<Esamina(d, p), Esamina(d, q)>> \in R
  OBVIOUS
<1>3. <<passo(d), passo(d)>> \in R
  <2> HIDE DEF R
  <2> QED  BY <1>1, <1>2, InDue
<1> QED
  BY <1>3

\* The same from the third step on: a journal has room for three blocks.
LEMMA InTre ==
    ASSUME NEW d, NEW S, Esamina(d, Esamina(d, Esamina(d, Partenza(d)))) \in S,
           \A p \in S : Esamina(d, p) \in S
    PROVE  passo(d) \in S
<1>1. Maxlen \in Nat /\ Maxlen >= 4
  BY MisureGiornale
<1>2. PICK w : /\ w[0] = Partenza(d)
               /\ \A k \in Nat : k < Maxlen => w[k + 1] = Esamina(d, w[k])
               /\ passo(d) = w[Maxlen]
  BY Passi, Zenon
<1> DEFINE T == {k \in Nat : k < 3 \/ w[k] \in S}
<1>3. w[3] \in S
  <2>1. w[0 + 1] = Esamina(d, w[0])
    BY <1>1, <1>2
  <2>2. w[1 + 1] = Esamina(d, w[1])
    BY <1>1, <1>2
  <2>3. w[2 + 1] = Esamina(d, w[2])
    BY <1>1, <1>2
  <2>4. 0 + 1 = 1 /\ 1 + 1 = 2 /\ 2 + 1 = 3
    OBVIOUS
  <2> QED  BY <2>1, <2>2, <2>3, <2>4, <1>2
<1>4. 0 \in T
  OBVIOUS
<1>5. \A k \in Nat : k < Maxlen /\ k \in T => k + 1 \in T
  <2>1. TAKE k \in Nat
  <2>2. HAVE k < Maxlen /\ k \in T
  <2>3. CASE k < 2
    BY <2>3
  <2>4. CASE k = 2
    BY <2>4, <1>3
  <2>5. CASE k > 2
    <3>1. w[k] \in S
      BY <2>2, <2>5
    <3>2. w[k + 1] = Esamina(d, w[k])
      BY <2>2, <1>2
    <3> QED  BY <3>1, <3>2
  <2> QED  BY <2>3, <2>4, <2>5
<1> HIDE DEF T
<1>6. Maxlen \in T
  BY <1>1, <1>4, <1>5, Gradini
<1> QED
  BY <1>1, <1>2, <1>6 DEF T

-----------------------------------------------------------------------------
(* Blocks of the disk are told apart by their names.                       *)

LEMMA Nomi ==
    /\ Jsb \in Indirizzi /\ Sb \in Indirizzi /\ Ino \in Meta
    /\ Jsb \notin Posti /\ Sb \notin Posti /\ Jsb # Sb
    /\ \A i : Gio(i) \notin Posti /\ Gio(i) # Jsb /\ Gio(i) # Sb
    /\ \A i, j : Gio(i) = Gio(j) => i = j
    /\ \A i \in 1 .. Maxlen - 1 : Gio(i) \in Indirizzi
    /\ Meta \subseteq Posti /\ Posti \subseteq Indirizzi
    /\ \A b \in Dati : /\ Bm(Gruppo[b]) \in Meta /\ Dato(b) \in Posti
                       /\ Dato(b) \notin Meta
    /\ \A g : Bm(g) # Ino
    /\ \A b : Dato(b) # Ino
    /\ \A b, g : Dato(b) # Bm(g)
    /\ \A b, c : Dato(b) = Dato(c) => b = c
    /\ \A g, h : Bm(g) = Bm(h) => g = h
    /\ \A a \in Indirizzi : a \in Posti \/ a = Jsb \/ a = Sb \/ \E i \in 1 .. Maxlen - 1 : a = Gio(i)
    /\ \A a \in Posti : a = Ino \/ (\E b \in Dati : a = Bm(Gruppo[b])) \/ (\E b \in Dati : a = Dato(b))
    /\ \A a \in Meta : a = Ino \/ (\E b \in Dati : a = Bm(Gruppo[b]))
<1> USE DEF Ino, Bm, Dato, Jsb, Sb, Gio, Meta, Posti, Indirizzi
<1>1. Jsb \in Indirizzi /\ Sb \in Indirizzi /\ Ino \in Meta
  OBVIOUS
<1>2. Jsb \notin Posti /\ Sb \notin Posti /\ Jsb # Sb
  OBVIOUS
<1>3. \A i : Gio(i) \notin Posti /\ Gio(i) # Jsb /\ Gio(i) # Sb
  OBVIOUS
<1>4. \A i, j : Gio(i) = Gio(j) => i = j
  OBVIOUS
<1>5. \A i \in 1 .. Maxlen - 1 : Gio(i) \in Indirizzi
  OBVIOUS
<1>6. Meta \subseteq Posti /\ Posti \subseteq Indirizzi
  OBVIOUS
<1>7. \A b \in Dati : Bm(Gruppo[b]) \in Meta /\ Dato(b) \in Posti /\ Dato(b) \notin Meta
  OBVIOUS
<1>8. (\A g : Bm(g) # Ino) /\ (\A b : Dato(b) # Ino) /\ (\A b, g : Dato(b) # Bm(g))
  OBVIOUS
<1>9. (\A b, c : Dato(b) = Dato(c) => b = c) /\ (\A g, h : Bm(g) = Bm(h) => g = h)
  OBVIOUS
<1>10. \A a \in Indirizzi : a \in Posti \/ a = Jsb \/ a = Sb
                                \/ \E i \in 1 .. Maxlen - 1 : a = Gio(i)
  OBVIOUS
<1>11. \A a \in Posti : a = Ino \/ (\E b \in Dati : a = Bm(Gruppo[b]))
                           \/ (\E b \in Dati : a = Dato(b))
  OBVIOUS
<1>12. \A a \in Meta : a = Ino \/ (\E b \in Dati : a = Bm(Gruppo[b]))
  OBVIOUS
<1> QED
  BY <1>1, <1>2, <1>3, <1>4, <1>5, <1>6, <1>7, <1>8, <1>9, <1>10, <1>11, <1>12

-----------------------------------------------------------------------------
(* What the walk may find.                                                 *)

Registrate == [blk : Posti, seq : Nat, pos : 1 .. Maxlen - 1]
Revocati(d) == UNION {d[Gio(i)].blk : i \in 1 .. Maxlen - 1}
Revoche(d) == [blk : Revocati(d), seq : Nat]
Visite(d) == [pos : 1 .. Maxlen - 1, seq : Nat, vivo : BOOLEAN,
              aperte : Seq(Registrate), apRev : SUBSET Revoche(d),
              fatte : Seq(Registrate), rev : SUBSET Revoche(d)]

\* The ring stays in the ring.
LEMMA NellAnello ==
    ASSUME NEW i \in 1 .. Maxlen - 1
    PROVE  /\ avanti(i) \in 1 .. Maxlen - 1
           /\ \A n \in Nat : Dopo(i, n) \in 1 .. Maxlen - 1
<1>1. Maxlen \in Nat /\ Maxlen >= 4
  BY MisureGiornale
<1>2. avanti(i) \in 1 .. Maxlen - 1
  BY <1>1 DEF avanti
<1>3. ASSUME NEW n \in Nat PROVE Dopo(i, n) \in 1 .. Maxlen - 1
  <2>1. PICK x \in Nat : x = i - 1 + n
    OBVIOUS
  <2>2. PICK m \in Nat : m = Maxlen - 1 /\ m > 0
    BY <1>1
  <2>3. x % m \in 0 .. m - 1
    BY <2>1, <2>2
  <2> QED  BY <2>1, <2>2, <2>3, <1>1 DEF Dopo
<1> QED
  BY <1>2, <1>3

\* The four cases of a step.
LEMMA Ferma ==
    ASSUME NEW d, NEW p \in Visite(d),
           ~p.vivo \/ d[Gio(p.pos)].tipo = "copia" \/ d[Gio(p.pos)].seq # p.seq
    PROVE  Esamina(d, p) = [p EXCEPT !.vivo = FALSE]
  BY DEF Esamina

LEMMA Descrive ==
    ASSUME NEW d, NEW p \in Visite(d), p.vivo,
           d[Gio(p.pos)].tipo = "desc", d[Gio(p.pos)].seq = p.seq
    PROVE  Esamina(d, p) =
             [p EXCEPT !.pos = Dopo(p.pos, Len(d[Gio(p.pos)].tag) + 1),
                !.aperte = p.aperte \o [i \in 1 .. Len(d[Gio(p.pos)].tag) |->
                  [blk |-> d[Gio(p.pos)].tag[i], seq |-> p.seq, pos |-> Dopo(p.pos, i)]]]
  BY DEF Esamina

LEMMA Revoca ==
    ASSUME NEW d, NEW p \in Visite(d), p.vivo,
           d[Gio(p.pos)].tipo = "revoca", d[Gio(p.pos)].seq = p.seq
    PROVE  Esamina(d, p) =
             [p EXCEPT !.pos = avanti(p.pos),
                !.apRev = p.apRev \cup
                            {[blk |-> a, seq |-> p.seq] : a \in d[Gio(p.pos)].blk}]
  BY DEF Esamina

LEMMA Compie ==
    ASSUME NEW d, NEW p \in Visite(d), p.vivo,
           d[Gio(p.pos)].tipo = "commit", d[Gio(p.pos)].seq = p.seq
    PROVE  Esamina(d, p) =
             [p EXCEPT !.pos = avanti(p.pos), !.seq = p.seq + 1,
                       !.fatte = p.fatte \o p.aperte, !.aperte = <<>>,
                       !.rev = p.rev \cup p.apRev, !.apRev = {}]
  BY DEF Esamina


LEMMA Parte ==
    ASSUME NEW d, Disco(d), d[Jsb].start # 0
    PROVE  Partenza(d) \in Visite(d)
<1>1. d[Jsb].seq \in Nat /\ d[Jsb].start \in 1 .. Maxlen - 1
  BY MisureGiornale DEF Disco
<1>2. <<>> \in Seq(Registrate) /\ {} \in SUBSET Revoche(d)
  OBVIOUS
<1> QED
  BY <1>1, <1>2 DEF Partenza, Visite

\* The records of a descriptor.
LEMMA Elenco ==
    ASSUME NEW t \in Seq(Posti), NEW s \in Nat, NEW k \in 1 .. Maxlen - 1
    PROVE  [i \in 1 .. Len(t) |-> [blk |-> t[i], seq |-> s, pos |-> Dopo(k, i)]]
              \in Seq(Registrate)
<1>1. Len(t) \in Nat
  OBVIOUS
<1>2. ASSUME NEW i \in 1 .. Len(t)
      PROVE  [blk |-> t[i], seq |-> s, pos |-> Dopo(k, i)] \in Registrate
  <2>1. t[i] \in Posti /\ Dopo(k, i) \in 1 .. Maxlen - 1
    BY NellAnello
  <2> QED  BY <2>1 DEF Registrate
<1> DEFINE e == [i \in 1 .. Len(t) |-> [blk |-> t[i], seq |-> s, pos |-> Dopo(k, i)]]
<1>3. \A i \in 1 .. Len(t) : e[i] \in Registrate
  BY <1>2
<1>4. e = [i \in 1 .. Len(t) |-> e[i]]
  OBVIOUS
<1> HIDE DEF e
<1>5. e \in Seq(Registrate)
  BY <1>1, <1>3, <1>4
<1> QED
  BY <1>5 DEF e

LEMMA Resta ==
    ASSUME NEW d, Disco(d), NEW p \in Visite(d)
    PROVE  Esamina(d, p) \in Visite(d)
<1> DEFINE b == d[Gio(p.pos)]
<1>1. /\ p.pos \in 1 .. Maxlen - 1 /\ p.seq \in Nat /\ p.vivo \in BOOLEAN
      /\ p.aperte \in Seq(Registrate) /\ p.apRev \subseteq Revoche(d)
      /\ p.fatte \in Seq(Registrate) /\ p.rev \subseteq Revoche(d)
  BY DEF Visite
<1>2. Blocco(b)
  BY <1>1 DEF Disco
<1>3. avanti(p.pos) \in 1 .. Maxlen - 1 /\ \A n \in Nat : Dopo(p.pos, n) \in 1 .. Maxlen - 1
  BY <1>1, NellAnello
<1>4. CASE ~p.vivo \/ b.tipo = "copia" \/ b.seq # p.seq
  <2>1. Esamina(d, p) = [p EXCEPT !.vivo = FALSE]
    BY <1>4, Ferma, Zenon
  <2> QED  BY <2>1 DEF Visite
<1>5. CASE p.vivo /\ b.tipo = "desc" /\ b.seq = p.seq
  <2> DEFINE n == Dopo(p.pos, Len(b.tag) + 1)
             z == p.aperte \o [i \in 1 .. Len(b.tag) |->
                     [blk |-> b.tag[i], seq |-> p.seq, pos |-> Dopo(p.pos, i)]]
  <2>1. b.tag \in Seq(Posti)
    BY <1>2, <1>5 DEF Blocco
  <2>2. z \in Seq(Registrate)
    <3> DEFINE e == [i \in 1 .. Len(b.tag) |->
                     [blk |-> b.tag[i], seq |-> p.seq, pos |-> Dopo(p.pos, i)]]
    <3>1. e \in Seq(Registrate)
      BY <2>1, <1>1, Elenco
    <3> HIDE DEF e
    <3>2. p.aperte \o e \in Seq(Registrate)
      BY <3>1, <1>1
    <3> QED  BY <3>2 DEF e
  <2>3. n \in 1 .. Maxlen - 1
    BY <2>1, <1>3
  <2>4. Esamina(d, p) = [p EXCEPT !.pos = n, !.aperte = z]
    BY <1>5 DEF Esamina
  <2> HIDE DEF n, z
  <2> QED  BY <2>2, <2>3, <2>4 DEF Visite
<1>6. CASE p.vivo /\ b.tipo = "revoca" /\ b.seq = p.seq
  <2> DEFINE z == p.apRev \cup {[blk |-> a, seq |-> p.seq] : a \in b.blk}
  <2>1. b.blk \subseteq Revocati(d)
    BY <1>1 DEF Revocati
  <2>2. z \in SUBSET Revoche(d)
    BY <2>1, <1>1 DEF Revoche
  <2>3. Esamina(d, p) = [p EXCEPT !.pos = avanti(p.pos), !.apRev = z]
    BY <1>6, Revoca
  <2> HIDE DEF z
  <2> QED  BY <2>2, <2>3, <1>3 DEF Visite
<1>7. CASE p.vivo /\ b.tipo = "commit" /\ b.seq = p.seq
  <2> DEFINE z == p.fatte \o p.aperte
             y == p.rev \cup p.apRev
  <2>1. z \in Seq(Registrate) /\ y \in SUBSET Revoche(d) /\ <<>> \in Seq(Registrate)
    BY <1>1
  <2>2. Esamina(d, p) = [p EXCEPT !.pos = avanti(p.pos), !.seq = p.seq + 1,
                       !.fatte = z, !.aperte = <<>>, !.rev = y, !.apRev = {}]
    BY <1>7, Compie
  <2> HIDE DEF z, y
  <2>3. p.seq + 1 \in Nat /\ {} \in SUBSET Revoche(d)
    BY <1>1
  <2> QED  BY <2>1, <2>2, <2>3, <1>3 DEF Visite
<1> QED
  BY <1>1, <1>2, <1>4, <1>5, <1>6, <1>7 DEF Blocco

\* The walk ends in a state of its type.
LEMMA Arriva ==
    ASSUME NEW d, Disco(d), d[Jsb].start # 0
    PROVE  passo(d) \in Visite(d)
<1> DEFINE S == Visite(d)
<1>1. Partenza(d) \in S /\ \A p \in S : Esamina(d, p) \in S
  BY Parte, Resta
<1> HIDE DEF S
<1>2. passo(d) \in S
  BY <1>1, InUno
<1> QED
  BY <1>2 DEF S

\* What a step does to the number and to the copies, case by case.
LEMMA Caselle ==
    ASSUME NEW d, Disco(d), NEW p \in Visite(d)
    PROVE  /\ p.seq \in Nat /\ p.pos \in 1 .. Maxlen - 1 /\ Esamina(d, p) \in Visite(d)
           /\ \/ Esamina(d, p).seq = p.seq /\ Esamina(d, p).fatte = p.fatte
              \/ /\ p.vivo /\ d[Gio(p.pos)].tipo = "commit" /\ d[Gio(p.pos)].seq = p.seq
                 /\ Esamina(d, p).seq = p.seq + 1
<1> DEFINE b == d[Gio(p.pos)]
<1>1. p.seq \in Nat /\ p.pos \in 1 .. Maxlen - 1 /\ p.vivo \in BOOLEAN
  BY DEF Visite
<1>2. Blocco(b)
  BY <1>1 DEF Disco
<1>3. Esamina(d, p) \in Visite(d)
  BY Resta
<1>4. CASE ~p.vivo \/ b.tipo = "copia" \/ b.seq # p.seq
  <2>1. Esamina(d, p) = [p EXCEPT !.vivo = FALSE]
    BY <1>4, Ferma, Zenon
  <2>2. Esamina(d, p).seq = p.seq /\ Esamina(d, p).fatte = p.fatte
    BY <2>1 DEF Visite
  <2> QED  BY <2>2, <1>1, <1>3
<1>5. CASE p.vivo /\ b.tipo = "desc" /\ b.seq = p.seq
  <2> DEFINE n == Dopo(p.pos, Len(b.tag) + 1)
             z == p.aperte \o [i \in 1 .. Len(b.tag) |->
                     [blk |-> b.tag[i], seq |-> p.seq, pos |-> Dopo(p.pos, i)]]
  <2>1. Esamina(d, p) = [p EXCEPT !.pos = n, !.aperte = z]
    BY <1>5 DEF Esamina
  <2> HIDE DEF n, z
  <2>2. Esamina(d, p).seq = p.seq /\ Esamina(d, p).fatte = p.fatte
    BY <2>1 DEF Visite
  <2> QED  BY <2>2, <1>1, <1>3
<1>6. CASE p.vivo /\ b.tipo = "revoca" /\ b.seq = p.seq
  <2> DEFINE z == p.apRev \cup {[blk |-> a, seq |-> p.seq] : a \in b.blk}
  <2>1. Esamina(d, p) = [p EXCEPT !.pos = avanti(p.pos), !.apRev = z]
    BY <1>6, Revoca
  <2> HIDE DEF z
  <2>2. Esamina(d, p).seq = p.seq /\ Esamina(d, p).fatte = p.fatte
    BY <2>1 DEF Visite
  <2> QED  BY <2>2, <1>1, <1>3
<1>7. CASE p.vivo /\ b.tipo = "commit" /\ b.seq = p.seq
  <2> DEFINE z == p.fatte \o p.aperte
             y == p.rev \cup p.apRev
  <2>1. Esamina(d, p) = [p EXCEPT !.pos = avanti(p.pos), !.seq = p.seq + 1,
                       !.fatte = z, !.aperte = <<>>, !.rev = y, !.apRev = {}]
    BY <1>7, Compie
  <2> HIDE DEF z, y
  <2>2. Esamina(d, p).seq = p.seq + 1
    BY <2>1 DEF Visite
  <2> QED  BY <2>2, <1>1, <1>3, <1>7
<1> QED
  BY <1>1, <1>2, <1>4, <1>5, <1>6, <1>7 DEF Blocco

\* Until a commit block is met nothing is committed.
LEMMA NulloFatto ==
    ASSUME NEW d, Disco(d), d[Jsb].start # 0
    PROVE  /\ passo(d).seq >= d[Jsb].seq
           /\ passo(d).seq = d[Jsb].seq => passo(d).fatte = <<>>
<1> DEFINE s == d[Jsb].seq
           S == {p \in Visite(d) : p.seq >= s /\ (p.seq = s => p.fatte = <<>>)}
<1>0. s \in Nat
  BY DEF Disco
<1>1. Partenza(d) \in S
  <2>1. Partenza(d).seq = s /\ Partenza(d).fatte = <<>>
    BY DEF Partenza
  <2> QED  BY <2>1, <1>0, Parte
<1>2. ASSUME NEW p \in S PROVE Esamina(d, p) \in S
  <2>1. p \in Visite(d)
    OBVIOUS
  <2>2. /\ p.seq \in Nat /\ Esamina(d, p) \in Visite(d)
        /\ \/ Esamina(d, p).seq = p.seq /\ Esamina(d, p).fatte = p.fatte
           \/ Esamina(d, p).seq = p.seq + 1
    BY <2>1, Caselle
  <2> QED  BY <2>1, <2>2, <1>0
<1> HIDE DEF S
<1>3. passo(d) \in S
  BY <1>1, <1>2, InUno
<1> QED
  BY <1>3 DEF S

\* A journal without the commit block of its first transaction has none.
LEMMA NienteCommit ==
    ASSUME NEW d, Disco(d), d[Jsb].start # 0,
           \A i \in 1 .. Maxlen - 1 : Prima(d[Gio(i)], d[Jsb].seq)
    PROVE  passo(d).seq = d[Jsb].seq /\ passo(d).fatte = <<>>
<1> DEFINE s == d[Jsb].seq
           S == {p \in Visite(d) : p.seq = s}
<1>0. s \in Nat
  BY DEF Disco
<1>1. Partenza(d) \in S
  <2>1. Partenza(d).seq = s
    BY DEF Partenza
  <2> QED  BY <2>1, Parte
<1>2. ASSUME NEW p \in S PROVE Esamina(d, p) \in S
  <2>1. p \in Visite(d) /\ p.seq = s
    OBVIOUS
  <2>2. /\ p.pos \in 1 .. Maxlen - 1 /\ Esamina(d, p) \in Visite(d)
        /\ \/ Esamina(d, p).seq = p.seq
           \/ d[Gio(p.pos)].tipo = "commit" /\ d[Gio(p.pos)].seq = s
    BY <2>1, Caselle
  <2>3. ~(d[Gio(p.pos)].tipo = "commit" /\ d[Gio(p.pos)].seq = s)
    BY <2>2, <1>0 DEF Prima
  <2> QED  BY <2>1, <2>2, <2>3
<1> HIDE DEF S
<1>3. passo(d) \in S
  BY <1>1, <1>2, InUno
<1>4. passo(d).seq = s
  BY <1>3 DEF S
<1> QED
  BY <1>4, NulloFatto

\* The walk reads the journal and nothing else.
LEMMA PassoUguale ==
    ASSUME NEW d, NEW e, Disco(d), d[Jsb].start # 0, e[Jsb] = d[Jsb],
           \A i \in 1 .. Maxlen - 1 : e[Gio(i)] = d[Gio(i)]
    PROVE  passo(e) = passo(d)
<1> DEFINE R == {<<p, p>> : p \in Visite(d)}
<1>1. <<Partenza(d), Partenza(e)>> \in R
  <2>1. Partenza(e) = Partenza(d)
    BY DEF Partenza
  <2> QED  BY <2>1, Parte
<1>2. ASSUME NEW p, NEW q, <<p, q>> \in R PROVE <<Esamina(d, p), Esamina(e, q)>> \in R
  <2>1. p = q /\ p \in Visite(d)
    BY <1>2
  <2>2. p.pos \in 1 .. Maxlen - 1
    BY <2>1 DEF Visite
  <2>3. e[Gio(p.pos)] = d[Gio(p.pos)]
    BY <2>2
  <2>4. Esamina(e, p) = Esamina(d, p)
    BY <2>3 DEF Esamina
  <2>5. Esamina(d, p) \in Visite(d)
    BY <2>1, Resta
  <2> QED  BY <2>1, <2>4, <2>5
<1> HIDE DEF R
<1>3. <<passo(d), passo(e)>> \in R
  BY <1>1, <1>2, InDue
<1> QED
  BY <1>3 DEF R

\* Without going round, the ring is a line.
LEMMA SenzaGiro ==
    ASSUME NEW i \in Nat, i < Maxlen - 1
    PROVE  Dopo(1, i) = i + 1
<1>1. Maxlen \in Nat
  BY MisureGiornale
<1>2. PICK m \in Nat : m = Maxlen - 1 /\ m > 0
  BY <1>1
<1>3. i % m = i
  BY <1>2
<1>4. 1 - 1 + i = i
  OBVIOUS
<1> QED
  BY <1>2, <1>3, <1>4 DEF Dopo

\* The copies of a transaction written from the start of the journal.
Copie(t, s) == [i \in 1 .. Len(t) |-> [blk |-> t[i], seq |-> s, pos |-> i + 1]]

\* The replay of a journal whose first transaction is committed and whose other
\* blocks are not of a later one: the copies of that transaction, and only they.
Sigillata(d, t, s) ==
    /\ d[Jsb] = [seq |-> s, start |-> 1]
    /\ d[Gio(1)].tipo = "desc" /\ d[Gio(1)].seq = s /\ d[Gio(1)].tag = t
    /\ d[Gio(Len(t) + 2)].tipo = "commit" /\ d[Gio(Len(t) + 2)].seq = s
    /\ \A i \in 1 .. Maxlen - 1 : d[Gio(i)].tipo # "copia" => d[Gio(i)].seq <= s

LEMMA UnaSola ==
    ASSUME NEW d, Disco(d), NEW t \in Seq(Posti), Len(t) <= MaxSlot, NEW s \in Nat,
           Sigillata(d, t, s)
    PROVE  /\ passo(d) \in Visite(d) /\ passo(d).seq = s + 1
           /\ passo(d).fatte = Copie(t, s) /\ passo(d).rev = {}
<1> DEFINE n == Len(t)
           p0 == Partenza(d)
           p1 == Esamina(d, p0)
           p2 == Esamina(d, p1)
           p3 == Esamina(d, p2)
<1>1. Maxlen \in Nat /\ MaxSlot \in Nat /\ MaxSlot + 3 <= Maxlen /\ n \in Nat /\ n <= MaxSlot
  BY MisureGiornale
<1>2. d[Jsb].start = 1 /\ d[Jsb].seq = s /\ d[Jsb].start # 0
  BY DEF Sigillata
<1>3. p0 \in Visite(d) /\ p1 \in Visite(d) /\ p2 \in Visite(d) /\ p3 \in Visite(d)
  <2>1. p0 \in Visite(d)
    BY <1>2, Parte
  <2>2. p1 \in Visite(d)
    BY <2>1, Resta
  <2>3. p2 \in Visite(d)
    BY <2>2, Resta
  <2> QED  BY <2>1, <2>2, <2>3, Resta
<1>4. /\ p0.pos = 1 /\ p0.seq = s /\ p0.vivo /\ p0.aperte = <<>> /\ p0.apRev = {}
      /\ p0.fatte = <<>> /\ p0.rev = {}
  BY <1>2 DEF Partenza
<1> HIDE DEF p0
<1>5. \A i \in 1 .. n : Dopo(1, i) = i + 1
  BY <1>1, SenzaGiro
<1>6. Dopo(1, n + 1) = n + 2 /\ n + 2 \in 1 .. Maxlen - 1
  <2>1. n + 1 \in Nat /\ n + 1 < Maxlen - 1
    BY <1>1
  <2>2. Dopo(1, n + 1) = (n + 1) + 1
    BY <2>1, SenzaGiro
  <2> QED  BY <2>2, <1>1
<1>7. Copie(t, s) = [i \in 1 .. n |-> [blk |-> t[i], seq |-> s, pos |-> Dopo(1, i)]]
  BY <1>5 DEF Copie
<1>8. Copie(t, s) \in Seq(Registrate)
  <2>1. 1 \in 1 .. Maxlen - 1
    BY <1>1
  <2>2. [i \in 1 .. n |-> [blk |-> t[i], seq |-> s, pos |-> Dopo(1, i)]] \in Seq(Registrate)
    BY <2>1, Elenco
  <2> QED  BY <2>2, <1>7
<1>9. p1 = [p0 EXCEPT !.pos = n + 2, !.aperte = Copie(t, s)]
  <2>1. p1 = [p0 EXCEPT !.pos = Dopo(1, n + 1),
                        !.aperte = <<>> \o [i \in 1 .. n |->
                           [blk |-> t[i], seq |-> s, pos |-> Dopo(1, i)]]]
    <3> DEFINE z == [i \in 1 .. n |-> [blk |-> t[i], seq |-> s, pos |-> Dopo(1, i)]]
    <3>1. Esamina(d, p0) =
            [p0 EXCEPT !.pos = Dopo(p0.pos, Len(d[Gio(p0.pos)].tag) + 1),
               !.aperte = p0.aperte \o [i \in 1 .. Len(d[Gio(p0.pos)].tag) |->
                 [blk |-> d[Gio(p0.pos)].tag[i], seq |-> p0.seq, pos |-> Dopo(p0.pos, i)]]]
      <4>1. /\ p0 \in Visite(d) /\ p0.vivo /\ d[Gio(p0.pos)].tipo = "desc"
            /\ d[Gio(p0.pos)].seq = p0.seq
        BY <1>3, <1>4 DEF Sigillata
      <4> QED  BY <4>1 DEF Esamina
    <3>2. z = [i \in 1 .. Len(d[Gio(p0.pos)].tag) |->
                 [blk |-> d[Gio(p0.pos)].tag[i], seq |-> p0.seq, pos |-> Dopo(p0.pos, i)]]
      BY <1>4 DEF Sigillata
    <3> HIDE DEF z
    <3>3. d[Gio(p0.pos)].tag = t
      BY <1>4 DEF Sigillata
    <3>4. Esamina(d, p0) = [p0 EXCEPT !.pos = Dopo(1, n + 1), !.aperte = <<>> \o z]
      BY <3>1, <3>2, <3>3, <1>4
    <3> QED  BY <3>4 DEF z
  <2>2. p1 = [p0 EXCEPT !.pos = n + 2, !.aperte = <<>> \o Copie(t, s)]
    BY <2>1, <1>6, <1>7
  <2>3. <<>> \o Copie(t, s) = Copie(t, s)
    BY <1>8
  <2> QED  BY <2>2, <2>3
<1> HIDE DEF p1
<1>10. /\ p1.pos = n + 2 /\ p1.seq = s /\ p1.vivo /\ p1.aperte = Copie(t, s)
       /\ p1.apRev = {} /\ p1.fatte = <<>> /\ p1.rev = {}
  <2> DEFINE c == Copie(t, s)
  <2>1. p1 = [p0 EXCEPT !.pos = n + 2, !.aperte = c] /\ p0 \in Visite(d)
    BY <1>3, <1>9
  <2> HIDE DEF c
  <2>2. p1.pos = n + 2 /\ p1.aperte = c
    BY <2>1 DEF Visite
  <2>3. p1.seq = s /\ p1.vivo /\ p1.apRev = {} /\ p1.fatte = <<>> /\ p1.rev = {}
    BY <2>1, <1>4 DEF Visite
  <2> QED  BY <2>2, <2>3 DEF c
<1>11. p2 = [p1 EXCEPT !.pos = avanti(n + 2), !.seq = s + 1,
                       !.fatte = Copie(t, s), !.aperte = <<>>, !.rev = {}, !.apRev = {}]
  <2>1. p2 = [p1 EXCEPT !.pos = avanti(p1.pos), !.seq = p1.seq + 1,
                       !.fatte = p1.fatte \o p1.aperte, !.aperte = <<>>,
                       !.rev = p1.rev \cup p1.apRev, !.apRev = {}]
    <3>1. /\ p1 \in Visite(d) /\ p1.vivo /\ d[Gio(p1.pos)].tipo = "commit"
          /\ d[Gio(p1.pos)].seq = p1.seq
      BY <1>3, <1>10 DEF Sigillata
    <3> QED  BY <3>1, Compie, Zenon
  <2>2. p1.fatte \o p1.aperte = Copie(t, s) /\ p1.rev \cup p1.apRev = {}
    <3>1. <<>> \o Copie(t, s) = Copie(t, s)
      BY <1>8
    <3> QED  BY <3>1, <1>10
  <2> QED  BY <2>1, <2>2, <1>10
<1> HIDE DEF p2
<1>12. p2.seq = s + 1 /\ p2.fatte = Copie(t, s) /\ p2.rev = {} /\ p2.pos \in 1 .. Maxlen - 1
  BY <1>3, <1>11 DEF Visite
<1>13. d[Gio(p2.pos)].tipo = "copia" \/ d[Gio(p2.pos)].seq # p2.seq
  <2>1. Blocco(d[Gio(p2.pos)])
    BY <1>12 DEF Disco
  <2>2. d[Gio(p2.pos)].tipo # "copia" => d[Gio(p2.pos)].seq \in Nat /\ d[Gio(p2.pos)].seq <= s
    BY <2>1, <1>12 DEF Blocco, Sigillata
  <2> QED  BY <2>2, <1>12
<1>14. p3 = [p2 EXCEPT !.vivo = FALSE]
  <2>1. p2 \in Visite(d)
    BY <1>3
  <2>2. ~p2.vivo \/ d[Gio(p2.pos)].tipo = "copia" \/ d[Gio(p2.pos)].seq # p2.seq
    BY <1>13
  <2> QED  BY <2>1, <2>2, Ferma, Zenon
<1> DEFINE S == {p \in Visite(d) : /\ ~p.vivo /\ p.seq = s + 1
                                   /\ p.fatte = Copie(t, s) /\ p.rev = {}}
<1>15. p3 \in S
  BY <1>3, <1>12, <1>14 DEF Visite
<1>16. ASSUME NEW p \in S PROVE Esamina(d, p) \in S
  <2>1. Esamina(d, p) = [p EXCEPT !.vivo = FALSE]
    BY Ferma, Zenon
  <2>2. Esamina(d, p) \in Visite(d)
    BY Resta
  <2> QED  BY <2>1, <2>2 DEF Visite
<1>17. passo(d) \in S
  <2>1. Esamina(d, Esamina(d, Esamina(d, Partenza(d)))) \in S
    BY <1>15 DEF p2, p1, p0
  <2> HIDE DEF S
  <2> QED  BY <2>1, <1>16, InTre
<1> QED
  BY <1>17

-----------------------------------------------------------------------------
(* What a mount finds.                                                     *)

\* A set of places of a sequence that is not empty has a last one.
LEMMA Ultimo ==
    ASSUME NEW n \in Nat, NEW B, B \subseteq 1 .. n, B # {}
    PROVE  /\ (CHOOSE i \in B : \A j \in B : j <= i) \in B
           /\ \A j \in B : j <= (CHOOSE i \in B : \A k \in B : k <= i)
<1> DEFINE S == {n - i : i \in B}
<1>1. S \subseteq Nat /\ S # {}
  OBVIOUS
<1>2. PICK x \in S : \A y \in S : x <= y
  <2> HIDE DEF S
  <2> QED  BY <1>1, Minimo
<1>3. PICK i \in B : x = n - i
  OBVIOUS
<1>4. ASSUME NEW j \in B PROVE j <= i
  <2>1. n - j \in S /\ i \in Int /\ j \in Int
    OBVIOUS
  <2> QED  BY <2>1, <1>2, <1>3
<1>5. \E k \in B : \A j \in B : j <= k
  BY <1>4
<1> QED
  BY <1>5

\* The copy REPLAY writes last.
LEMMA UltimaCopia ==
    ASSUME NEW d, Disco(d), DaRipristinare(d), NEW a, Buone(passo(d), a) # {}
    PROVE  \E i \in Buone(passo(d), a) :
             /\ i \in 1 .. Len(passo(d).fatte)
             /\ passo(d).fatte[i].pos \in 1 .. Maxlen - 1
             /\ Rileggi(d, a) = d[Gio(passo(d).fatte[i].pos)].v
             /\ i = CHOOSE k \in Buone(passo(d), a) : \A j \in Buone(passo(d), a) : j <= k
<1> DEFINE p == passo(d)
           B == Buone(p, a)
           i == CHOOSE k \in B : \A j \in B : j <= k
<1>1. p \in Visite(d)
  BY Arriva DEF DaRipristinare
<1>2. p.fatte \in Seq(Registrate) /\ Len(p.fatte) \in Nat
  <2>1. p.fatte \in Seq(Registrate)
    BY <1>1 DEF Visite
  <2> QED  BY <2>1
<1>3. B \subseteq 1 .. Len(p.fatte)
  BY DEF Buone
<1>4. i \in B
  <2> HIDE DEF B
  <2> QED  BY <1>2, <1>3, Ultimo DEF B
<1>5. p.fatte[i].pos \in 1 .. Maxlen - 1
  <2>1. p.fatte[i] \in Registrate
    BY <1>2, <1>3, <1>4
  <2> QED  BY <2>1 DEF Registrate
<1>6. Rileggi(d, a) = d[Gio(p.fatte[i].pos)].v
  BY DEF Rileggi
<1> QED
  BY <1>3, <1>4, <1>5, <1>6

LEMMA Intatto ==
    ASSUME NEW d, Disco(d), NEW a,
           DaRipristinare(d) => Buone(passo(d), a) = {}
    PROVE  Rileggi(d, a) = d[a]
  BY DEF Rileggi

\* Nothing to write again.
LEMMA NullaDaFare ==
    ASSUME NEW d, Disco(d),
           DaRipristinare(d) => passo(d).seq = d[Jsb].seq
    PROVE  \A a : Rileggi(d, a) = d[a]
<1>1. ASSUME DaRipristinare(d), NEW a PROVE Buone(passo(d), a) = {}
  <2>1. passo(d).fatte = <<>>
    BY <1>1, NulloFatto DEF DaRipristinare
  <2> QED  BY <2>1 DEF Buone
<1> QED
  BY <1>1, Intatto

\* The same for a journal that is empty or has no commit block.
LEMMA SenzaCommit ==
    ASSUME NEW d, Disco(d), NEW s \in Nat, d[Jsb].seq = s,
           d[Jsb].start # 0 => \A i \in 1 .. Maxlen - 1 : Prima(d[Gio(i)], s)
    PROVE  /\ \A a : Rileggi(d, a) = d[a]
           /\ Nuova(d) \in {s, s + 1}
<1>1. ASSUME DaRipristinare(d) PROVE passo(d).seq = s
  BY <1>1, NienteCommit DEF DaRipristinare
<1>2. \A a : Rileggi(d, a) = d[a]
  BY <1>1, NullaDaFare
<1> QED
  BY <1>1, <1>2 DEF Nuova

\* A mount looks at the journal and at the blocks that REPLAY does not write.
LEMMA Riletto ==
    ASSUME NEW d, NEW e, Disco(d), e[Jsb] = d[Jsb], e[Sb] = d[Sb],
           \A i \in 1 .. Maxlen - 1 : e[Gio(i)] = d[Gio(i)]
    PROVE  /\ DaRipristinare(e) = DaRipristinare(d)
           /\ Nuova(e) = Nuova(d)
           /\ DaRipristinare(d) => passo(e) = passo(d)
           /\ \A a : e[a] = d[a] \/ (DaRipristinare(d) /\ Buone(passo(d), a) # {})
                       => Rileggi(e, a) = Rileggi(d, a)
<1>1. DaRipristinare(e) = DaRipristinare(d)
  BY DEF DaRipristinare
<1>2. DaRipristinare(d) => passo(e) = passo(d)
  BY PassoUguale DEF DaRipristinare
<1>3. Nuova(e) = Nuova(d)
  BY <1>1, <1>2 DEF Nuova
<1>4. ASSUME NEW a, e[a] = d[a] \/ (DaRipristinare(d) /\ Buone(passo(d), a) # {})
      PROVE  Rileggi(e, a) = Rileggi(d, a)
  <2>1. CASE ~DaRipristinare(d)
    BY <2>1, <1>1, <1>4 DEF Rileggi
  <2>2. CASE DaRipristinare(d) /\ Buone(passo(d), a) = {}
    BY <2>2, <1>1, <1>2, <1>4 DEF Rileggi
  <2>3. CASE DaRipristinare(d) /\ Buone(passo(d), a) # {}
    <3>1. PICK i \in Buone(passo(d), a) :
             /\ passo(d).fatte[i].pos \in 1 .. Maxlen - 1
             /\ Rileggi(d, a) = d[Gio(passo(d).fatte[i].pos)].v
             /\ i = CHOOSE k \in Buone(passo(d), a) : \A j \in Buone(passo(d), a) : j <= k
      BY <2>3, UltimaCopia
    <3>2. Rileggi(e, a) = e[Gio(passo(d).fatte[i].pos)].v
      BY <2>3, <3>1, <1>1, <1>2 DEF Rileggi
    <3> QED  BY <3>1, <3>2
  <2> QED  BY <2>1, <2>2, <2>3
<1> QED
  BY <1>1, <1>2, <1>3, <1>4

\* A committed transaction gives its copies, each to its place.
LEMMA Ripetuta ==
    ASSUME NEW d, Disco(d), d[Sb], NEW t \in Seq(Posti), Len(t) <= MaxSlot,
           \A i, j \in 1 .. Len(t) : t[i] = t[j] => i = j,
           NEW s \in Nat, Sigillata(d, t, s)
    PROVE  /\ DaRipristinare(d) /\ passo(d).seq = s + 1 /\ Nuova(d) = s + 2
           /\ \A i \in 1 .. Len(t) : Rileggi(d, t[i]) = d[Gio(i + 1)].v
           /\ \A a : (\A i \in 1 .. Len(t) : t[i] # a) => Rileggi(d, a) = d[a]
<1> DEFINE p == passo(d)
<1>1. p \in Visite(d) /\ p.seq = s + 1 /\ p.fatte = Copie(t, s) /\ p.rev = {}
  BY UnaSola
<1>2. DaRipristinare(d)
  BY DEF DaRipristinare, Sigillata
<1>3. Nuova(d) = s + 2
  BY <1>1, <1>2 DEF Nuova
<1>4. Len(t) \in Nat /\ Len(p.fatte) = Len(t)
  BY <1>1 DEF Copie
<1>5. \A i \in 1 .. Len(t) : p.fatte[i].blk = t[i] /\ p.fatte[i].pos = i + 1
  BY <1>1 DEF Copie
<1> HIDE DEF p
<1>6. \A a : Buone(p, a) = {i \in 1 .. Len(t) : t[i] = a}
  BY <1>1, <1>4, <1>5 DEF Buone
<1>7. ASSUME NEW i \in 1 .. Len(t) PROVE Rileggi(d, t[i]) = d[Gio(i + 1)].v
  <2>1. Buone(p, t[i]) = {i}
    BY <1>6
  <2>2. PICK k \in Buone(p, t[i]) : Rileggi(d, t[i]) = d[Gio(p.fatte[k].pos)].v
    BY <2>1, <1>2, UltimaCopia DEF p
  <2>3. k = i
    BY <2>1
  <2> QED  BY <2>2, <2>3, <1>5
<1>8. ASSUME NEW a, \A i \in 1 .. Len(t) : t[i] # a PROVE Rileggi(d, a) = d[a]
  <2>1. Buone(p, a) = {}
    BY <1>6, <1>8
  <2> QED  BY <2>1, Intatto DEF p
<1> QED
  BY <1>1, <1>2, <1>3, <1>7, <1>8 DEF p

-----------------------------------------------------------------------------
(* The disks a power cut may leave: D is what is on the disk for good, A   *)
(* what was written since, O what a read gives.                            *)

Puo(d, D, A) ==
    /\ d = [a \in Indirizzi |-> d[a]]
    /\ \A a \in Indirizzi : d[a] \in {D[a]} \cup A[a]

TipoDisco(D, A) ==
    /\ D = [a \in Indirizzi |-> D[a]] /\ A = [a \in Indirizzi |-> A[a]]
    /\ D[Sb] \in BOOLEAN /\ A[Sb] \subseteq BOOLEAN
    /\ D[Jsb] \in [seq : Nat, start : 0 .. Maxlen - 1]
    /\ A[Jsb] \subseteq [seq : Nat, start : 0 .. Maxlen - 1]
    /\ \A i \in 1 .. Maxlen - 1 : Blocco(D[Gio(i)]) /\ \A x \in A[Gio(i)] : Blocco(x)

Retto(D, A, O) == TipoDisco(D, A) /\ Puo(O, D, A)

Asciutti(A, S) == \A a \in S : A[a] = {}

\* Every one of them mounts to a consistent volume, to what was there for good
\* or to what a mount would find now.
Tagliabile(D, A, O) ==
    /\ \A d : Puo(d, D, A) => /\ Sano(d)
                              /\ Recuperato(d) \in {Recuperato(D), Recuperato(O)}
    /\ A[Jsb] # {} => Recuperato(O) = Recuperato(D)

LEMMA PuoDisco ==
    ASSUME NEW D, NEW A, TipoDisco(D, A), NEW d, Puo(d, D, A)
    PROVE  Disco(d)
<1>1. d[Sb] \in {D[Sb]} \cup A[Sb] /\ d[Jsb] \in {D[Jsb]} \cup A[Jsb]
  BY Nomi DEF Puo
<1>2. \A i \in 1 .. Maxlen - 1 : d[Gio(i)] \in {D[Gio(i)]} \cup A[Gio(i)]
  BY Nomi DEF Puo
<1>3. \A i \in 1 .. Maxlen - 1 : Blocco(d[Gio(i)])
  BY <1>2, Zenon DEF TipoDisco
<1>4. d[Sb] \in BOOLEAN /\ d[Jsb] \in [seq : Nat, start : 0 .. Maxlen - 1]
  BY <1>1, Zenon DEF TipoDisco
<1> QED
  BY <1>3, <1>4 DEF Disco, Puo

LEMMA PuoSe ==
    ASSUME NEW D, NEW A, NEW O, Retto(D, A, O)
    PROVE  Puo(D, D, A) /\ Puo(O, D, A) /\ Disco(D) /\ Disco(O)
<1>1. Puo(D, D, A)
  BY DEF Retto, TipoDisco, Puo
<1> QED
  BY <1>1, PuoDisco DEF Retto

LEMMA Asciutto ==
    ASSUME NEW D, NEW A, NEW O, Retto(D, A, O), NEW d, Puo(d, D, A),
           NEW a \in Indirizzi, A[a] = {}
    PROVE  d[a] = D[a] /\ O[a] = D[a]
  BY DEF Puo, Retto

LEMMA SonoPosti == Meta \subseteq Indirizzi /\ \A b \in Dati : Dato(b) \in Indirizzi
  BY Nomi

\* A disk that a mount reads as the consistent metadata m.
LEMMA CosiSano ==
    ASSUME NEW d, Disco(d), NEW m, Coerente([a \in Posti |-> m[a]]),
           \A a \in Meta : Rileggi(d, a) = m[a],
           \A p \in m[Ino] : Rileggi(d, Dato(p[2])) = m[Dato(p[2])],
           \A i \in 1 .. Maxlen - 1 : Prima(d[Gio(i)], Nuova(d))
    PROVE  Sano(d) /\ Recuperato(d) = [a \in Meta |-> m[a]]
<1> DEFINE c == [a \in Posti |-> m[a]]
           e == [a \in Posti |-> Rileggi(d, a)]
<1>1. \A a \in Posti : c[a] = m[a] /\ e[a] = Rileggi(d, a)
  OBVIOUS
<1>2. Coerente(c)
  OBVIOUS
<1> HIDE DEF c, e
<1>3. Ino \in Posti /\ Ino \in Meta /\ e[Ino] = c[Ino] /\ c[Ino] = m[Ino]
  BY <1>1, Nomi
<1>4. ASSUME NEW p \in e[Ino]
      PROVE  /\ p \in File \X Dati
             /\ p[2] \in e[Bm(Gruppo[p[2]])]
             /\ e[Dato(p[2])] = {p[1]}
             /\ \A q \in e[Ino] : q[2] = p[2] => q = p
  <2>1. /\ p \in File \X Dati
        /\ p[2] \in c[Bm(Gruppo[p[2]])]
        /\ c[Dato(p[2])] = {p[1]}
        /\ \A q \in c[Ino] : q[2] = p[2] => q = p
    BY <1>2, <1>3, <1>4, Zenon DEF Coerente
  <2>2. p[2] \in Dati
    BY <2>1
  <2>3. Bm(Gruppo[p[2]]) \in Posti /\ Bm(Gruppo[p[2]]) \in Meta /\ Dato(p[2]) \in Posti
    BY <2>2, Nomi
  <2>4. e[Bm(Gruppo[p[2]])] = c[Bm(Gruppo[p[2]])] /\ e[Dato(p[2])] = c[Dato(p[2])]
    BY <2>3, <1>1, <1>3
  <2> QED  BY <2>1, <2>4, <1>3
<1>5. Coerente(e)
  BY <1>4, Zenon DEF Coerente
<1>6. Sano(d)
  BY <1>5 DEF Sano, e
<1> QED
  BY <1>6 DEF Recuperato

\* What a commit that is not sealed may leave: the disk as it was.
DopoCopie(D, A, O, n) ==
    /\ Asciutti(A, Meta) /\ \A p \in O[Ino] : A[Dato(p[2])] = {}
    /\ {D[Jsb]} \cup A[Jsb] \subseteq {[seq |-> n, start |-> 0], [seq |-> n, start |-> 1]}
    /\ \A i \in 1 .. Maxlen - 1 : Prima(D[Gio(i)], n) /\ \A x \in A[Gio(i)] : Prima(x, n)

LEMMA PiuTardi ==
    ASSUME NEW x, Blocco(x), NEW n \in Nat, NEW m \in Nat, n <= m, Prima(x, n)
    PROVE  Prima(x, m)
<1>1. x.tipo # "copia" => x.seq \in Nat
  BY DEF Blocco
<1>2. CASE x.tipo = "copia"
  BY <1>2 DEF Prima
<1>3. CASE x.tipo # "copia"
  <2>1. x.seq \in Nat /\ x.seq <= n /\ (x.tipo = "commit" => x.seq < n)
    BY <1>1, <1>3 DEF Prima
  <2> QED  BY <2>1 DEF Prima
<1> QED  BY <1>2, <1>3

LEMMA TagliaCopie ==
    ASSUME NEW D, NEW A, NEW O, Retto(D, A, O), NEW n \in Nat, DopoCopie(D, A, O, n),
           Coerente([a \in Posti |-> O[a]])
    PROVE  /\ \A d : Puo(d, D, A) => Sano(d) /\ Recuperato(d) = [a \in Meta |-> O[a]]
           /\ Tagliabile(D, A, O)
<1>1. ASSUME NEW d, Puo(d, D, A)
      PROVE  Sano(d) /\ Recuperato(d) = [a \in Meta |-> O[a]]
  <2>1. Disco(d)
    BY <1>1, PuoDisco DEF Retto
  <2>2. d[Jsb].seq = n
    <3>1. d[Jsb] \in {D[Jsb]} \cup A[Jsb]
      BY <1>1, Nomi DEF Puo
    <3>2. d[Jsb] \in {[seq |-> n, start |-> 0], [seq |-> n, start |-> 1]}
      BY <3>1 DEF DopoCopie
    <3> QED  BY <3>2
  <2>3. ASSUME NEW i \in 1 .. Maxlen - 1 PROVE Prima(d[Gio(i)], n)
    <3>1. d[Gio(i)] \in {D[Gio(i)]} \cup A[Gio(i)]
      BY <1>1, Nomi DEF Puo
    <3> QED  BY <3>1, Zenon DEF DopoCopie
  <2>4. (\A a : Rileggi(d, a) = d[a]) /\ Nuova(d) \in {n, n + 1}
    BY <2>1, <2>2, <2>3, SenzaCommit
  <2>5. ASSUME NEW i \in 1 .. Maxlen - 1 PROVE Prima(d[Gio(i)], Nuova(d))
    <3>1. Blocco(d[Gio(i)])
      BY <2>1 DEF Disco
    <3>2. Nuova(d) \in Nat /\ n <= Nuova(d)
      BY <2>4
    <3> QED  BY <3>1, <3>2, <2>3, PiuTardi
  <2>6. ASSUME NEW a \in Meta PROVE Rileggi(d, a) = O[a]
    <3>1. a \in Indirizzi /\ A[a] = {}
      BY SonoPosti DEF DopoCopie, Asciutti
    <3> QED  BY <3>1, <2>4, <1>1, Asciutto
  <2>7. ASSUME NEW p \in O[Ino] PROVE Rileggi(d, Dato(p[2])) = O[Dato(p[2])]
    <3>1. Ino \in Posti
      BY Nomi
    <3>2. p \in File \X Dati
      BY <3>1 DEF Coerente
    <3>3. Dato(p[2]) \in Indirizzi /\ A[Dato(p[2])] = {}
      BY <3>2, SonoPosti DEF DopoCopie
    <3> QED  BY <3>3, <2>4, <1>1, Asciutto
  <2> QED  BY <2>1, <2>5, <2>6, <2>7, CosiSano
<1>2. Puo(D, D, A) /\ Puo(O, D, A)
  BY PuoSe
<1> QED
  BY <1>1, <1>2 DEF Tagliabile

\* The volume between two commits: the metadata in place, the journal empty or
\* about to be, and of the same content as the places where it is not.
Importanti(O) == Meta \cup {Dato(p[2]) : p \in O[Ino]}

Riposo(D, A, O, n) ==
    /\ Asciutti(A, Importanti(O)) /\ Asciutti(A, {Gio(i) : i \in 1 .. Maxlen - 1})
    /\ O[Jsb] = [seq |-> n, start |-> 0]
    /\ A[Jsb] # {} =>
         /\ A[Jsb] = {O[Jsb]} /\ A[Sb] = {}
         /\ DaRipristinare(D) /\ passo(D).seq = n
         /\ \A a \in Importanti(O) : Rileggi(D, a) = D[a]
    /\ \A i \in 1 .. Maxlen - 1 : Prima(D[Gio(i)], n)

LEMMA TagliaRiposo ==
    ASSUME NEW D, NEW A, NEW O, Retto(D, A, O), NEW n \in Nat, Riposo(D, A, O, n),
           Coerente([a \in Posti |-> O[a]])
    PROVE  /\ \A d : Puo(d, D, A) => Sano(d) /\ Recuperato(d) = [a \in Meta |-> O[a]]
           /\ Tagliabile(D, A, O)
<1>0. \A a \in Importanti(O) : a \in Indirizzi /\ A[a] = {}
  <2>1. ASSUME NEW p \in O[Ino] PROVE Dato(p[2]) \in Indirizzi
    <3>1. Ino \in Posti
      BY Nomi
    <3>2. p \in File \X Dati
      BY <3>1 DEF Coerente
    <3> QED  BY <3>2, SonoPosti
  <2> QED  BY <2>1, SonoPosti DEF Riposo, Asciutti, Importanti
<1>1. ASSUME NEW d, Puo(d, D, A)
      PROVE  Sano(d) /\ Recuperato(d) = [a \in Meta |-> O[a]]
  <2>1. Disco(d) /\ Disco(D)
    BY <1>1, PuoDisco, PuoSe DEF Retto
  <2>2. \A a \in Importanti(O) : d[a] = D[a] /\ O[a] = D[a]
    BY <1>0, <1>1, Asciutto
  <2>3. \A i \in 1 .. Maxlen - 1 : d[Gio(i)] = D[Gio(i)]
    <3>1. ASSUME NEW i \in 1 .. Maxlen - 1 PROVE d[Gio(i)] = D[Gio(i)]
      <4>1. A[Gio(i)] = {} /\ Gio(i) \in Indirizzi
        BY Nomi DEF Riposo, Asciutti
      <4> QED  BY <4>1, <1>1, Asciutto
    <3> QED  BY <3>1
  <2>4. d[Jsb] \in {D[Jsb]} \cup A[Jsb] /\ Jsb \in Indirizzi
    BY <1>1, Nomi DEF Puo
  <2>5. /\ \A a \in Importanti(O) : Rileggi(d, a) = d[a]
        /\ Nuova(d) \in {n, n + 1}
    <3>1. CASE d[Jsb] = O[Jsb]
      <4>1. d[Jsb].seq = n /\ d[Jsb].start = 0
        BY <3>1 DEF Riposo
      <4> QED  BY <2>1, <4>1, SenzaCommit
    <3>2. CASE d[Jsb] # O[Jsb]
      <4>1. A[Jsb] # {} /\ d[Jsb] = D[Jsb]
        <5>1. A[Jsb] # {}
          BY <3>2, <2>4, <1>1, Asciutto
        <5> QED  BY <5>1, <3>2, <2>4 DEF Riposo
      <4>2. /\ A[Sb] = {} /\ DaRipristinare(D) /\ passo(D).seq = n
            /\ \A a \in Importanti(O) : Rileggi(D, a) = D[a]
        BY <4>1 DEF Riposo
      <4>3. d[Sb] = D[Sb]
        BY <4>2, <1>1, Asciutto, Nomi
      <4>4. /\ Nuova(d) = Nuova(D)
            /\ \A a : d[a] = D[a] => Rileggi(d, a) = Rileggi(D, a)
        BY <2>1, <4>1, <4>3, <2>3, Riletto
      <4>5. Nuova(D) = n + 1
        BY <4>2 DEF Nuova
      <4> QED  BY <4>2, <4>4, <4>5, <2>2
    <3> QED  BY <3>1, <3>2
  <2>6. ASSUME NEW i \in 1 .. Maxlen - 1 PROVE Prima(d[Gio(i)], Nuova(d))
    <3>1. Blocco(d[Gio(i)]) /\ Prima(d[Gio(i)], n)
      BY <2>1, <2>3 DEF Disco, Riposo
    <3>2. Nuova(d) \in Nat /\ n <= Nuova(d)
      BY <2>5
    <3> QED  BY <3>1, <3>2, PiuTardi
  <2>7. \A a \in Importanti(O) : Rileggi(d, a) = O[a]
    BY <2>2, <2>5
  <2>8. /\ \A a \in Meta : Rileggi(d, a) = O[a]
        /\ \A p \in O[Ino] : Rileggi(d, Dato(p[2])) = O[Dato(p[2])]
    BY <2>7 DEF Importanti
  <2> QED  BY <2>1, <2>6, <2>8, CosiSano
<1>2. Puo(D, D, A) /\ Puo(O, D, A)
  BY PuoSe
<1> QED
  BY <1>1, <1>2 DEF Tagliabile

-----------------------------------------------------------------------------
(* The transaction t, a sequence of copies, and the view m it gives.       *)

Etichette(t) == [i \in 1 .. Len(t) |-> t[i].blk]

Transazione(t) ==
    /\ Len(t) \in Nat /\ Len(t) <= MaxSlot
    /\ \A i \in 1 .. Len(t) : t[i].blk \in Posti
    /\ \A i, j \in 1 .. Len(t) : t[i].blk = t[j].blk => i = j

Sopra(O, t, m) ==
    /\ \A i \in 1 .. Len(t) : m[t[i].blk] = t[i].v
    /\ \A a \in Posti : (\A i \in 1 .. Len(t) : t[i].blk # a) => m[a] = O[a]

\* The transaction is in the journal of disk d.
Scritta(d, t, n) ==
    /\ d[Jsb] = [seq |-> n, start |-> 1]
    /\ d[Gio(1)] = [tipo |-> "desc", seq |-> n, tag |-> Etichette(t)]
    /\ \A i \in 1 .. Len(t) : d[Gio(i + 1)] = [tipo |-> "copia", v |-> t[i].v]

LEMMA DelleEtichette ==
    ASSUME NEW t, Transazione(t)
    PROVE  /\ Etichette(t) \in Seq(Posti) /\ Len(Etichette(t)) = Len(t)
           /\ \A i \in 1 .. Len(t) : Etichette(t)[i] = t[i].blk
           /\ \A i \in 1 .. Len(t) + 2 : i \in 1 .. Maxlen - 1
<1>1. Len(t) \in Nat /\ \A i \in 1 .. Len(t) : t[i].blk \in Posti
  BY DEF Transazione
<1> DEFINE e == Etichette(t)
<1>2. e = [i \in 1 .. Len(t) |-> e[i]] /\ \A i \in 1 .. Len(t) : e[i] = t[i].blk
  BY DEF Etichette
<1> HIDE DEF e
<1>3. e \in Seq(Posti) /\ Len(e) = Len(t)
  BY <1>1, <1>2
<1>4. \A i \in 1 .. Len(t) + 2 : i \in 1 .. Maxlen - 1
  BY MisureGiornale DEF Transazione
<1> QED
  BY <1>2, <1>3, <1>4 DEF e

\* A disk whose journal holds the committed transaction mounts to its view.
LEMMA ConSigillo ==
    ASSUME NEW d, Disco(d), d[Sb], NEW t, Transazione(t), NEW n \in Nat,
           Scritta(d, t, n), d[Gio(Len(t) + 2)] = [tipo |-> "commit", seq |-> n],
           \A i \in 1 .. Maxlen - 1 : d[Gio(i)].tipo # "copia" => d[Gio(i)].seq <= n,
           NEW m, Sopra(d, t, m), Coerente([a \in Posti |-> m[a]])
    PROVE  /\ Sano(d) /\ Recuperato(d) = [a \in Meta |-> m[a]]
           /\ DaRipristinare(d) /\ passo(d).seq = n + 1
           /\ \A a \in Posti : Rileggi(d, a) = m[a]
<1> DEFINE e == Etichette(t)
<1>1. /\ e \in Seq(Posti) /\ Len(e) = Len(t) /\ Len(t) \in Nat /\ Len(t) <= MaxSlot
      /\ \A i \in 1 .. Len(t) : e[i] = t[i].blk
      /\ \A i \in 1 .. Len(t) + 2 : i \in 1 .. Maxlen - 1
  BY DelleEtichette DEF Transazione
<1>2. Sigillata(d, e, n)
  BY <1>1 DEF Sigillata, Scritta
<1> HIDE DEF e
<1>3. \A i, j \in 1 .. Len(e) : e[i] = e[j] => i = j
  BY <1>1 DEF Transazione
<1>4. /\ DaRipristinare(d) /\ passo(d).seq = n + 1 /\ Nuova(d) = n + 2
      /\ \A i \in 1 .. Len(e) : Rileggi(d, e[i]) = d[Gio(i + 1)].v
      /\ \A a : (\A i \in 1 .. Len(e) : e[i] # a) => Rileggi(d, a) = d[a]
  BY <1>1, <1>2, <1>3, Ripetuta
<1>5. ASSUME NEW a \in Posti PROVE Rileggi(d, a) = m[a]
  <2>1. CASE \E i \in 1 .. Len(t) : t[i].blk = a
    <3>1. PICK i \in 1 .. Len(t) : t[i].blk = a
      BY <2>1
    <3>2. Rileggi(d, a) = d[Gio(i + 1)].v
      BY <3>1, <1>1, <1>4
    <3>3. d[Gio(i + 1)].v = t[i].v
      <4>1. d[Gio(i + 1)] = [tipo |-> "copia", v |-> t[i].v]
        BY Zenon DEF Scritta
      <4> QED  BY <4>1
    <3> QED  BY <3>1, <3>2, <3>3 DEF Sopra
  <2>2. CASE \A i \in 1 .. Len(t) : t[i].blk # a
    <3>1. Rileggi(d, a) = d[a]
      BY <2>2, <1>1, <1>4
    <3> QED  BY <3>1, <2>2 DEF Sopra
  <2> QED  BY <2>1, <2>2
<1>6. ASSUME NEW i \in 1 .. Maxlen - 1 PROVE Prima(d[Gio(i)], Nuova(d))
  <2>1. d[Gio(i)].tipo # "copia" => d[Gio(i)].seq \in Nat /\ d[Gio(i)].seq <= n
    BY DEF Disco, Blocco
  <2> QED  BY <2>1, <1>4 DEF Prima
<1>7. \A a \in Meta : Rileggi(d, a) = m[a]
  BY <1>5, Nomi
<1>8. ASSUME NEW p \in m[Ino] PROVE Rileggi(d, Dato(p[2])) = m[Dato(p[2])]
  <2>1. Ino \in Posti
    BY Nomi
  <2>2. p \in File \X Dati
    BY <2>1 DEF Coerente
  <2>3. Dato(p[2]) \in Posti
    BY <2>2, Nomi
  <2> QED  BY <2>3, <1>5
<1>9. Sano(d) /\ Recuperato(d) = [a \in Meta |-> m[a]]
  BY <1>6, <1>7, <1>8, CosiSano
<1> QED
  BY <1>4, <1>5, <1>9

\* The commit block is on its way.
DopoSigillo(D, A, O, t, n) ==
    LET c == Gio(Len(t) + 2)
    IN  /\ Asciutti(A, Indirizzi \ {c}) /\ D[Sb] /\ Scritta(D, t, n)
        /\ A[c] = {[tipo |-> "commit", seq |-> n]}
        /\ O[c] = [tipo |-> "commit", seq |-> n]
        /\ \A i \in 1 .. Maxlen - 1 : Prima(D[Gio(i)], n)

LEMMA TagliaSigillo ==
    ASSUME NEW D, NEW A, NEW O, Retto(D, A, O), NEW t, Transazione(t), NEW n \in Nat,
           DopoSigillo(D, A, O, t, n), NEW m, Sopra(O, t, m),
           Coerente([a \in Posti |-> O[a]]), Coerente([a \in Posti |-> m[a]])
    PROVE  /\ Recuperato(D) = [a \in Meta |-> O[a]]
           /\ Recuperato(O) = [a \in Meta |-> m[a]]
           /\ Tagliabile(D, A, O)
<1> DEFINE c == Gio(Len(t) + 2)
           k == [tipo |-> "commit", seq |-> n]
<1>0. /\ Len(t) \in Nat /\ Len(t) + 2 \in 1 .. Maxlen - 1 /\ 1 \in 1 .. Maxlen - 1
      /\ \A i \in 1 .. Len(t) : i + 1 \in 1 .. Maxlen - 1 /\ i + 1 # Len(t) + 2
  BY MisureGiornale DEF Transazione
<1>1. /\ \A a \in Indirizzi : a # c => A[a] = {}
      /\ D[Sb] /\ Scritta(D, t, n) /\ A[c] = {k} /\ O[c] = k
      /\ \A i \in 1 .. Maxlen - 1 : Prima(D[Gio(i)], n)
  BY DEF DopoSigillo, Asciutti
<1>2. Disco(D) /\ Disco(O) /\ Puo(D, D, A) /\ Puo(O, D, A)
  BY PuoSe
<1>3. \A d : Puo(d, D, A) => \A a \in Indirizzi : a # c => d[a] = D[a] /\ O[a] = D[a]
  BY <1>1, Asciutto
<1>4. c \in Indirizzi /\ c \notin Posti /\ Sb # c /\ Jsb # c /\ c # Gio(1)
  BY <1>0, Nomi
<1>5. \A a \in Posti : O[a] = D[a]
  BY <1>2, <1>3, <1>4, Nomi
<1>6. ASSUME NEW d, Puo(d, D, A), d[c] = k
      PROVE  Sano(d) /\ Recuperato(d) = [a \in Meta |-> m[a]]
  <2>1. Disco(d)
    BY <1>6, PuoDisco DEF Retto
  <2>2. d[Sb] /\ Scritta(d, t, n)
    <3>1. d[Sb] = D[Sb] /\ d[Jsb] = D[Jsb]
      BY <1>6, <1>3, <1>4, Nomi
    <3>2. ASSUME NEW i \in 1 .. Maxlen - 1, i # Len(t) + 2 PROVE d[Gio(i)] = D[Gio(i)]
      <4>1. Gio(i) \in Indirizzi /\ Gio(i) # c
        BY <3>2, Nomi
      <4> QED  BY <4>1, <1>6, <1>3
    <3>3. d[Gio(1)] = D[Gio(1)]
      BY <3>2, <1>0
    <3>4. \A i \in 1 .. Len(t) : d[Gio(i + 1)] = D[Gio(i + 1)]
      BY <3>2, <1>0
    <3>5. D[Sb] /\ Scritta(D, t, n)
      BY <1>1
    <3> QED  BY <3>1, <3>3, <3>4, <3>5 DEF Scritta
  <2>3. ASSUME NEW i \in 1 .. Maxlen - 1, d[Gio(i)].tipo # "copia"
        PROVE  d[Gio(i)].seq <= n
    <3>1. CASE i = Len(t) + 2
      BY <3>1, <1>6
    <3>2. CASE i # Len(t) + 2
      <4>1. Gio(i) \in Indirizzi /\ Gio(i) # c
        BY <3>2, Nomi
      <4>2. d[Gio(i)] = D[Gio(i)]
        BY <4>1, <1>6, <1>3
      <4> QED  BY <4>2, <2>3, <1>1 DEF Prima
    <3> QED  BY <3>1, <3>2
  <2>4. Sopra(d, t, m)
    <3>1. \A a \in Posti : d[a] = O[a]
      BY <1>3, <1>4, <1>6, Nomi
    <3> QED  BY <3>1 DEF Sopra
  <2> QED  BY <2>1, <2>2, <2>3, <2>4, <1>6, ConSigillo
<1>7. ASSUME NEW d, Puo(d, D, A), d[c] # k
      PROVE  d = D
  <2>1. d[c] = D[c]
    BY <1>7, <1>1, <1>4 DEF Puo
  <2>2. \A a \in Indirizzi : d[a] = D[a]
    BY <2>1, <1>3, <1>7
  <2>3. d = [a \in Indirizzi |-> d[a]] /\ D = [a \in Indirizzi |-> D[a]]
    BY <1>7, <1>2, Zenon DEF Puo
  <2> QED  BY <2>2, <2>3
<1>8. Sano(D) /\ Recuperato(D) = [a \in Meta |-> O[a]]
  <2>1. D[Jsb].seq = n
    BY <1>1 DEF Scritta
  <2>2. (\A a : Rileggi(D, a) = D[a]) /\ Nuova(D) \in {n, n + 1}
    BY <2>1, <1>1, <1>2, SenzaCommit
  <2>3. ASSUME NEW i \in 1 .. Maxlen - 1 PROVE Prima(D[Gio(i)], Nuova(D))
    <3>1. Blocco(D[Gio(i)]) /\ Prima(D[Gio(i)], n)
      BY <1>1, <1>2 DEF Disco
    <3>2. Nuova(D) \in Nat /\ n <= Nuova(D)
      BY <2>2
    <3> QED  BY <3>1, <3>2, PiuTardi
  <2>4. \A a \in Meta : Rileggi(D, a) = O[a]
    BY <2>2, <1>5, Nomi
  <2>5. ASSUME NEW p \in O[Ino] PROVE Rileggi(D, Dato(p[2])) = O[Dato(p[2])]
    <3>1. Ino \in Posti
      BY Nomi
    <3>2. p \in File \X Dati
      BY <3>1 DEF Coerente
    <3>3. Dato(p[2]) \in Posti
      BY <3>2, Nomi
    <3> QED  BY <3>3, <2>2, <1>5
  <2> QED  BY <2>3, <2>4, <2>5, <1>2, CosiSano
<1>9. Recuperato(O) = [a \in Meta |-> m[a]]
  BY <1>1, <1>2, <1>6
<1>10. A[Jsb] = {}
  BY <1>1, <1>4, Nomi
<1>11. ASSUME NEW d, Puo(d, D, A)
       PROVE  Sano(d) /\ Recuperato(d) \in {Recuperato(D), Recuperato(O)}
  <2>1. CASE d[c] = k
    BY <2>1, <1>6, <1>9, <1>11
  <2>2. CASE d[c] # k
    BY <2>2, <1>7, <1>8, <1>11
  <2> QED  BY <2>1, <2>2
<1> QED
  BY <1>8, <1>9, <1>10, <1>11 DEF Tagliabile

\* The transaction is committed; the copies go to their places.
DopoPosti(D, A, O, t, n) ==
    /\ \A a \in Indirizzi : A[a] # {} => \E i \in 1 .. Len(t) : t[i].blk = a
    /\ D[Sb] /\ Scritta(D, t, n)
    /\ D[Gio(Len(t) + 2)] = [tipo |-> "commit", seq |-> n]
    /\ \A i \in 1 .. Maxlen - 1 : D[Gio(i)].tipo # "copia" => D[Gio(i)].seq <= n

LEMMA TagliaPosti ==
    ASSUME NEW D, NEW A, NEW O, Retto(D, A, O), NEW t, Transazione(t), NEW n \in Nat,
           DopoPosti(D, A, O, t, n), NEW m, Sopra(O, t, m),
           Coerente([a \in Posti |-> m[a]])
    PROVE  /\ \A d : Puo(d, D, A) =>
                /\ Sano(d) /\ Recuperato(d) = [a \in Meta |-> m[a]]
                /\ DaRipristinare(d) /\ passo(d).seq = n + 1
                /\ \A a \in Posti : Rileggi(d, a) = m[a]
           /\ Tagliabile(D, A, O)
<1>0. /\ Len(t) \in Nat /\ Len(t) + 2 \in 1 .. Maxlen - 1 /\ 1 \in 1 .. Maxlen - 1
      /\ \A i \in 1 .. Len(t) : i + 1 \in 1 .. Maxlen - 1
      /\ \A i \in 1 .. Len(t) : t[i].blk \in Posti
  BY MisureGiornale DEF Transazione
<1>1. \A a \in Indirizzi : a \notin Posti => A[a] = {}
  BY <1>0 DEF DopoPosti
<1>2. ASSUME NEW d, Puo(d, D, A)
      PROVE  /\ Sano(d) /\ Recuperato(d) = [a \in Meta |-> m[a]]
             /\ DaRipristinare(d) /\ passo(d).seq = n + 1
             /\ \A a \in Posti : Rileggi(d, a) = m[a]
  <2>1. Disco(d)
    BY <1>2, PuoDisco DEF Retto
  <2>2. \A a \in Indirizzi : a \notin Posti => d[a] = D[a]
    BY <1>1, <1>2, Asciutto
  <2>3. d[Sb] = D[Sb] /\ d[Jsb] = D[Jsb] /\ \A i \in 1 .. Maxlen - 1 : d[Gio(i)] = D[Gio(i)]
    BY <2>2, Nomi
  <2>4. /\ d[Sb] /\ d[Gio(Len(t) + 2)] = [tipo |-> "commit", seq |-> n]
        /\ \A i \in 1 .. Maxlen - 1 : d[Gio(i)].tipo # "copia" => d[Gio(i)].seq <= n
    BY <2>3, <1>0 DEF DopoPosti
  <2>5. Scritta(d, t, n)
    <3>1. Scritta(D, t, n)
      BY DEF DopoPosti
    <3> QED  BY <3>1, <2>3, <1>0 DEF Scritta
  <2>6. Sopra(d, t, m)
    <3>1. ASSUME NEW a \in Posti, \A i \in 1 .. Len(t) : t[i].blk # a
          PROVE  m[a] = d[a]
      <4>1. a \in Indirizzi
        BY Nomi
      <4>2. A[a] = {}
        BY <3>1, <4>1 DEF DopoPosti
      <4>3. d[a] = O[a]
        BY <4>1, <4>2, <1>2, Asciutto
      <4> QED  BY <4>3, <3>1 DEF Sopra
    <3> QED  BY <3>1 DEF Sopra
  <2> QED  BY <2>1, <2>4, <2>5, <2>6, ConSigillo
<1>3. Puo(D, D, A) /\ Puo(O, D, A)
  BY PuoSe
<1> QED
  BY <1>2, <1>3 DEF Tagliabile

-----------------------------------------------------------------------------
(* The mount.                                                              *)

\* Two disks a mount reads in the same way.
LEMMA StessaLettura ==
    ASSUME NEW D, NEW d, Sano(D), Disco(d), Nuova(d) = Nuova(D),
           \A a \in Posti : Rileggi(d, a) = Rileggi(D, a),
           \A i \in 1 .. Maxlen - 1 : d[Gio(i)] = D[Gio(i)]
    PROVE  Sano(d) /\ Recuperato(d) = Recuperato(D)
<1>1. [a \in Posti |-> Rileggi(d, a)] = [a \in Posti |-> Rileggi(D, a)]
  OBVIOUS
<1>2. Sano(d)
  BY <1>1 DEF Sano
<1>3. \A a \in Meta : Rileggi(d, a) = Rileggi(D, a)
  BY Nomi
<1> QED
  BY <1>2, <1>3 DEF Recuperato

\* In the middle of REPLAY.
LEMMA TagliaReplay ==
    ASSUME NEW D, NEW A, NEW O, Retto(D, A, O), Sano(D),
           \A a \in Indirizzi : A[a] # {} =>
              a \in Posti /\ DaRipristinare(D) /\ Buone(passo(D), a) # {}
    PROVE  /\ \A d : Puo(d, D, A) =>
                /\ Nuova(d) = Nuova(D) /\ DaRipristinare(d) = DaRipristinare(D)
                /\ \A a \in Posti : Rileggi(d, a) = Rileggi(D, a)
           /\ Tagliabile(D, A, O)
<1>1. ASSUME NEW d, Puo(d, D, A)
      PROVE  /\ Nuova(d) = Nuova(D) /\ DaRipristinare(d) = DaRipristinare(D)
             /\ \A a \in Posti : Rileggi(d, a) = Rileggi(D, a)
             /\ Sano(d) /\ Recuperato(d) = Recuperato(D)
  <2>1. Disco(d) /\ Disco(D)
    BY <1>1, PuoDisco, PuoSe DEF Retto
  <2>2. \A a \in Indirizzi : A[a] = {} => d[a] = D[a]
    BY <1>1, Asciutto
  <2>3. d[Jsb] = D[Jsb] /\ d[Sb] = D[Sb] /\ \A i \in 1 .. Maxlen - 1 : d[Gio(i)] = D[Gio(i)]
    BY <2>2, Nomi
  <2>4. /\ DaRipristinare(d) = DaRipristinare(D) /\ Nuova(d) = Nuova(D)
        /\ \A a : d[a] = D[a] \/ (DaRipristinare(D) /\ Buone(passo(D), a) # {})
                       => Rileggi(d, a) = Rileggi(D, a)
    BY <2>1, <2>3, Riletto
  <2>5. ASSUME NEW a \in Posti PROVE Rileggi(d, a) = Rileggi(D, a)
    <3>1. a \in Indirizzi
      BY Nomi
    <3> QED  BY <3>1, <2>2, <2>4
  <2> QED  BY <2>1, <2>3, <2>4, <2>5, StessaLettura
<1>2. Puo(D, D, A) /\ Puo(O, D, A)
  BY PuoSe
<1> QED
  BY <1>1, <1>2 DEF Tagliabile

\* The journal is being emptied.
LEMMA TagliaJsb ==
    ASSUME NEW D, NEW A, NEW O, Retto(D, A, O), Sano(D),
           \A a \in Posti : Rileggi(D, a) = D[a],
           \A a \in Indirizzi : a # Jsb => A[a] = {},
           A[Jsb] \subseteq {[seq |-> Nuova(D), start |-> 0]}
    PROVE  Tagliabile(D, A, O)
<1>1. ASSUME NEW d, Puo(d, D, A)
      PROVE  Sano(d) /\ Recuperato(d) = Recuperato(D)
  <2>1. Disco(d) /\ Disco(D)
    BY <1>1, PuoDisco, PuoSe DEF Retto
  <2>2. \A a \in Indirizzi : a # Jsb => d[a] = D[a]
    BY <1>1, Asciutto
  <2>3. d[Sb] = D[Sb] /\ \A i \in 1 .. Maxlen - 1 : d[Gio(i)] = D[Gio(i)]
    BY <2>2, Nomi
  <2>4. \A a \in Posti : d[a] = D[a]
    BY <2>2, Nomi
  <2>5. CASE d[Jsb] = D[Jsb]
    <3>1. /\ Nuova(d) = Nuova(D)
          /\ \A a : d[a] = D[a] => Rileggi(d, a) = Rileggi(D, a)
      BY <2>1, <2>3, <2>5, Riletto
    <3> QED  BY <3>1, <2>1, <2>3, <2>4, StessaLettura
  <2>6. CASE d[Jsb] = [seq |-> Nuova(D), start |-> 0]
    <3>1. d[Jsb].start = 0 /\ d[Jsb].seq = Nuova(D)
      BY <2>6
    <3>2. ~DaRipristinare(d)
      BY <3>1 DEF DaRipristinare
    <3>3. Nuova(d) = Nuova(D) /\ \A a : Rileggi(d, a) = d[a]
      BY <3>1, <3>2 DEF Nuova, Rileggi
    <3> QED  BY <3>3, <2>1, <2>3, <2>4, StessaLettura
  <2>7. d[Jsb] \in {D[Jsb]} \cup A[Jsb]
    BY <1>1, Nomi DEF Puo
  <2> QED  BY <2>5, <2>6, <2>7
<1>2. Puo(D, D, A) /\ Puo(O, D, A)
  BY PuoSe
<1> QED
  BY <1>1, <1>2 DEF Tagliabile

\* needs_recovery changes and the journal is empty.
LEMMA TagliaSb ==
    ASSUME NEW D, NEW A, NEW O, Retto(D, A, O), Sano(D), D[Jsb].start = 0,
           \A a \in Indirizzi : a # Sb => A[a] = {}
    PROVE  Tagliabile(D, A, O)
<1>1. ASSUME NEW d, Puo(d, D, A)
      PROVE  Sano(d) /\ Recuperato(d) = Recuperato(D)
  <2>1. Disco(d) /\ Disco(D)
    BY <1>1, PuoDisco, PuoSe DEF Retto
  <2>2. \A a \in Indirizzi : a # Sb => d[a] = D[a]
    BY <1>1, Asciutto
  <2>3. d[Jsb] = D[Jsb] /\ \A i \in 1 .. Maxlen - 1 : d[Gio(i)] = D[Gio(i)]
    BY <2>2, Nomi
  <2>4. \A a \in Posti : d[a] = D[a]
    BY <2>2, Nomi
  <2>5. ~DaRipristinare(d) /\ ~DaRipristinare(D)
    BY <2>3 DEF DaRipristinare
  <2>6. Nuova(d) = Nuova(D) /\ \A a \in Posti : Rileggi(d, a) = Rileggi(D, a)
    BY <2>3, <2>4, <2>5 DEF Nuova, Rileggi
  <2> QED  BY <2>1, <2>3, <2>6, StessaLettura
<1>2. Puo(D, D, A) /\ Puo(O, D, A)
  BY PuoSe
<1> QED
  BY <1>1, <1>2 DEF Tagliabile

\* A disk without a cache in between.
LEMMA TagliaFermo ==
    ASSUME NEW d, Sano(d)
    PROVE  /\ \A e : Puo(e, d, Pulita) => e = d
           /\ Retto(d, Pulita, d) /\ Tagliabile(d, Pulita, d)
<1>1. \A a \in Indirizzi : Pulita[a] = {}
  BY DEF Pulita
<1>2. Disco(d) /\ d = [a \in Indirizzi |-> d[a]]
  BY DEF Sano, Disco
<1>3. ASSUME NEW e, Puo(e, d, Pulita) PROVE e = d
  <2>1. \A a \in Indirizzi : e[a] = d[a]
    BY <1>1, <1>3 DEF Puo
  <2>2. e = [a \in Indirizzi |-> e[a]]
    BY <1>3, Zenon DEF Puo
  <2> QED  BY <2>1, <2>2, <1>2
<1>4. Puo(d, d, Pulita)
  BY <1>2 DEF Puo
<1>5. TipoDisco(d, Pulita)
  <2>1. Pulita = [a \in Indirizzi |-> Pulita[a]]
    BY DEF Pulita
  <2>2. Pulita[Sb] = {} /\ Pulita[Jsb] = {} /\ \A i \in 1 .. Maxlen - 1 : Pulita[Gio(i)] = {}
    BY <1>1, Nomi
  <2> QED  BY <2>1, <2>2, <1>2 DEF TipoDisco, Disco
<1>6. Pulita[Jsb] = {}
  BY <1>1, Nomi
<1> QED
  BY <1>3, <1>4, <1>5, <1>6 DEF Retto, Tagliabile

\* The disk writes the superblock of the journal by itself.
LEMMA TagliaScarica ==
    ASSUME NEW D, NEW A, NEW O, Retto(D, A, O), Tagliabile(D, A, O), A[Jsb] # {},
           NEW E, NEW B, E = [D EXCEPT ![Jsb] = O[Jsb]], B = [A EXCEPT ![Jsb] = {}]
    PROVE  /\ Puo(E, D, A) /\ Retto(E, B, O) /\ Tagliabile(E, B, O)
           /\ Recuperato(E) = Recuperato(D)
<1>1. /\ D = [a \in Indirizzi |-> D[a]] /\ A = [a \in Indirizzi |-> A[a]]
      /\ TipoDisco(D, A) /\ Puo(O, D, A)
  BY DEF Retto, TipoDisco
<1>2. /\ E = [a \in Indirizzi |-> E[a]] /\ B = [a \in Indirizzi |-> B[a]]
      /\ E[Jsb] = O[Jsb] /\ B[Jsb] = {}
      /\ \A a \in Indirizzi : a # Jsb => E[a] = D[a] /\ B[a] = A[a]
  BY <1>1, Nomi
<1>3. O[Jsb] \in {D[Jsb]} \cup A[Jsb] /\ O = [a \in Indirizzi |-> O[a]]
  BY <1>1, Nomi DEF Puo
<1>4. ASSUME NEW d, Puo(d, E, B) PROVE Puo(d, D, A)
  <2>1. ASSUME NEW a \in Indirizzi PROVE d[a] \in {D[a]} \cup A[a]
    <3>1. d[a] \in {E[a]} \cup B[a]
      BY <1>4 DEF Puo
    <3>2. CASE a = Jsb
      BY <3>1, <3>2, <1>2, <1>3
    <3>3. CASE a # Jsb
      BY <3>1, <3>3, <1>2
    <3> QED  BY <3>2, <3>3
  <2> QED  BY <2>1, <1>4 DEF Puo
<1>5. Puo(E, E, B)
  BY <1>2 DEF Puo
<1>6. Puo(O, E, B)
  <2>1. ASSUME NEW a \in Indirizzi PROVE O[a] \in {E[a]} \cup B[a]
    <3>1. O[a] \in {D[a]} \cup A[a]
      BY <1>1 DEF Puo
    <3> QED  BY <3>1, <1>2
  <2> QED  BY <2>1, <1>3 DEF Puo
<1>7. TipoDisco(E, B)
  <2>1. E[Sb] = D[Sb] /\ B[Sb] = A[Sb]
    BY <1>2, Nomi
  <2>2. \A i \in 1 .. Maxlen - 1 : E[Gio(i)] = D[Gio(i)] /\ B[Gio(i)] = A[Gio(i)]
    BY <1>2, Nomi
  <2>3. E[Jsb] \in [seq : Nat, start : 0 .. Maxlen - 1]
    BY <1>1, <1>2, <1>3, Zenon DEF TipoDisco
  <2>4. /\ E[Sb] \in BOOLEAN /\ B[Sb] \subseteq BOOLEAN
        /\ \A i \in 1 .. Maxlen - 1 : Blocco(E[Gio(i)]) /\ \A x \in B[Gio(i)] : Blocco(x)
    BY <2>1, <2>2, <1>1 DEF TipoDisco
  <2> QED  BY <2>3, <2>4, <1>2 DEF TipoDisco
<1>8. Recuperato(O) = Recuperato(D)
  BY DEF Tagliabile
<1>9. \A d : Puo(d, D, A) => Sano(d) /\ Recuperato(d) = Recuperato(D)
  BY <1>8 DEF Tagliabile
<1> QED
  BY <1>2, <1>4, <1>5, <1>6, <1>7, <1>8, <1>9 DEF Retto, Tagliabile

-----------------------------------------------------------------------------
(* The inductive invariant.                                                *)

Gruppi == {Gruppo[b] : b \in Dati}

Nomate == {"niente", "prenotato", "coda", "perso", "cartella", "tronca", "chiudi", "tempo",
           "sync", "fsync", "smonta", "monta"}
Punti == {"no", "inizio", "chiudi", "bitmap", "dir", "dati", "inode", "libera", "toglie",
          "fine", "commit", "flush", "torna", "lascia", "sb", "flushsb", "smontato",
          "replay", "jsb", "flushjsb", "montato"}
Opere == [che : Nomate, pc : Punti, f : File \cup {Nessuno}, b : Dati \cup {Nessuno},
          altri : SUBSET Dati, resta : SUBSET Gruppi]

\* The places a call may be in.
TipoOp(o) ==
    /\ o \in Opere
    /\ \/ o = Niente
       \/ o.che = "prenotato" /\ o.pc \in {"inizio", "dati", "inode", "fine"}
       \/ o.che = "coda"      /\ o.pc \in {"inizio", "chiudi", "bitmap", "dati", "inode", "fine"}
       \/ o.che = "perso"     /\ o.pc \in {"chiudi", "fine"}
       \/ o.che = "cartella"  /\ o.pc \in {"chiudi", "inizio", "bitmap", "dir", "inode", "fine"}
       \/ o.che = "tronca"    /\ o.pc \in {"chiudi", "inizio", "libera", "toglie", "inode", "fine"}
       \/ o.che = "chiudi"    /\ o.pc \in {"chiudi"}
       \/ o.che = "tempo"     /\ o.pc \in {"commit"}
       \/ o.che = "sync"      /\ o.pc \in {"chiudi", "commit", "flush", "torna"}
       \/ o.che = "fsync"     /\ o.pc \in {"chiudi", "commit", "lascia"}
       \/ o.che = "smonta"    /\ o.pc \in {"chiudi", "commit", "flush", "sb", "flushsb", "smontato"}
       \/ o.che = "monta"     /\ o.pc \in {"replay", "flush", "jsb", "flushjsb", "sb", "flushsb", "montato"}

Fila(s) == \E S : s \in Seq(S)

Controllo ==
    /\ fase \in {"spento", "monta", "montato", "sola"}
    /\ stadio \in {"no", "copie", "prima", "sigillo", "seconda", "posti", "terza", "vuota"}
    /\ TipoOp(op) /\ Fila(slot) /\ Transazione(slot)
    /\ seq \in Nat /\ liberati \in BOOLEAN /\ guasto \in BOOLEAN /\ promesso \in BOOLEAN
    /\ fase # "montato" => slot = <<>> /\ ~liberati /\ ~guasto /\ stadio = "no" /\ pre = {}
    /\ fase = "monta" <=> op.che = "monta"
    /\ fase \in {"spento", "sola"} => op = Niente
    /\ stadio # "no" => op.pc \in {"inizio", "fine", "commit"} /\ ~guasto
    /\ guasto => op \in {Niente, Chiamata("smonta", "smontato"), Chiamata("fsync", "lascia")}
    /\ liberati /\ ~guasto => op.che = "tronca" /\ op.pc \in {"libera", "toglie", "inode", "fine"}
    /\ op.che = "tronca" /\ op.pc \in {"toglie", "inode"} => liberati
    /\ liberati /\ op.pc = "fine" => slot # <<>>
    /\ op.che = "sync" /\ op.pc \in {"flush", "torna"} => slot = <<>>
    /\ promesso => op = Niente /\ slot = <<>> /\ attesa = Pulita /\ fase = "montato" /\ ~guasto

\* An operation that began with room for it keeps it.
DiOp(o) == IF o.che = "cartella" THEN Meta \cup {Dato(o.b)} ELSE Meta
Altri(t, o) == {i \in 1 .. Len(t) : t[i].blk \notin DiOp(o)}
Avviata(o) ==
    \/ o.che = "coda" /\ o.pc \in {"chiudi", "bitmap", "dati", "inode"}
    \/ o.che = "prenotato" /\ o.pc \in {"dati", "inode"}
    \/ o.che = "perso" /\ o.pc = "chiudi"
    \/ o.che = "cartella" /\ o.pc \in {"bitmap", "dir", "inode"}
    \/ o.che = "tronca" /\ o.pc \in {"libera", "toglie", "inode"}
Spazio ==
    ~guasto =>
    /\ Avviata(op) => Cardinality(Altri(slot, op)) <= MaxSlot - Riserva
    /\ pre # {} /\ ~Avviata(op) /\ op.pc # "fine" /\ stadio = "no" => 2 * Len(slot) < MaxSlot

\* The disk, stage after stage.
DiscoMontato ==
    fase = "montato" /\ ~guasto =>
      /\ stadio \in {"no", "copie"} =>
           /\ Riposo(duro, attesa, ora, seq)
           /\ IF op.che = "smonta" /\ op.pc \in {"sb", "flushsb", "smontato"}
              THEN /\ Asciutti(attesa, Indirizzi \ {Sb})
                   /\ op.pc = "sb" => attesa = Pulita
              ELSE attesa[Sb] = {} /\ duro[Sb]
           /\ op.che = "sync" /\ op.pc = "torna" => attesa = Pulita
      /\ stadio \in {"prima", "sigillo"} =>
           /\ DopoCopie(duro, attesa, ora, seq) /\ Scritta(ora, slot, seq)
           /\ attesa[Sb] = {} /\ duro[Sb]
      /\ stadio \in {"sigillo", "posti", "vuota"} => attesa = Pulita
      /\ stadio = "seconda" => DopoSigillo(duro, attesa, ora, slot, seq)
      /\ stadio \in {"posti", "terza", "vuota"} => DopoPosti(duro, attesa, ora, slot, seq)
      /\ stadio \in {"terza", "vuota"} => \A i \in 1 .. Len(slot) : ora[slot[i].blk] = slot[i].v

DiscoInMonta ==
    fase = "monta" =>
      /\ op.pc \in {"replay", "jsb", "sb", "montato"} => attesa = Pulita
      /\ op.pc \in {"replay", "flush"} => DaRipristinare(duro)
      /\ op.pc \in {"replay", "flush", "jsb", "flushjsb"} => seq = Nuova(duro)
      /\ op.pc = "flush" =>
           /\ \A a \in Indirizzi : attesa[a] # {} => a \in Posti /\ Buone(passo(duro), a) # {}
           /\ \A a \in Posti : ora[a] = Rileggi(duro, a)
      /\ op.pc \in {"jsb", "flushjsb"} => \A a \in Posti : Rileggi(duro, a) = duro[a]
      /\ op.pc = "flushjsb" => /\ \A a \in Indirizzi : a # Jsb => attesa[a] = {}
                               /\ attesa[Jsb] \subseteq {[seq |-> seq, start |-> 0]}
      /\ op.pc \in {"flushjsb", "sb", "flushsb", "montato"} => ora[Jsb] = [seq |-> seq, start |-> 0]
      /\ op.pc = "flushsb" => \A a \in Indirizzi : a # Sb => attesa[a] = {}
      /\ op.pc \in {"flushsb", "montato"} => ora[Sb]

\* The volume as the programs see it, m, over the disk O: T are the blocks the
\* transaction holds, p the reservation, o the call, l whether blocks were freed.
Visione == [a \in Posti |-> Vista(a)]
Tenuti == {slot[i].blk : i \in 1 .. Len(slot)}
Libero(b, s) == \A q \in s : q[2] # b
Taglia(o, x) == o.che = "tronca" /\ o.pc \in {"libera", "toglie", "inode"} /\ x[1] = o.f
Nuovi == {"coda", "prenotato", "cartella"}
Resi(m, p, g) == m[Bm(g)] \ {x[2] : x \in p}

Coerenti(m, o) ==
    \A x \in m[Ino] :
       /\ x \in File \X Dati
       /\ Taglia(o, x) \/ x[2] \in m[Bm(Gruppo[x[2]])]
       /\ m[Dato(x[2])] = {x[1]}
       /\ \A y \in m[Ino] : y[2] = x[2] => y = x

Sotto(m, T, O, o) ==
    /\ \A x \in O[Ino] : x[2] \in m[Bm(Gruppo[x[2]])]
    /\ \A b \in Dati : Dato(b) \in T =>
         ~Libero(b, m[Ino]) \/ (o.che = "cartella" /\ o.pc = "inode" /\ b = o.b)

Messi(m, O, p) ==
    /\ \A x \in p : /\ x \in File \X Dati /\ x[2] \in m[Bm(Gruppo[x[2]])]
                    /\ Libero(x[2], m[Ino]) /\ Libero(x[2], O[Ino])
    /\ \A x, y \in p : x = y

Prende(m, O, p, o) ==
    /\ o.b \in Dati /\ o.f \in File
    /\ o.pc # "fine" => Libero(o.b, m[Ino]) /\ Libero(o.b, O[Ino])
    /\ o.che = "cartella" => o.altri = {} /\ (o.pc # "chiudi" => p = {})
    /\ o.che = "prenotato" => p = {} /\ (o.pc = "inizio" => o.b \in m[Bm(Gruppo[o.b])])
    /\ o.che = "coda" => \A c \in o.altri : c \in Dati /\ Gruppo[c] = Gruppo[o.b] /\ c = o.b + 1
    /\ o.che # "prenotato" /\ o.pc \in {"inizio", "chiudi"} =>
         o.b \notin Resi(m, p, Gruppo[o.b]) /\ o.altri \cap Resi(m, p, Gruppo[o.b]) = {}
    /\ o.pc = "bitmap" => /\ p = {} /\ o.b \notin m[Bm(Gruppo[o.b])]
                          /\ o.altri \cap m[Bm(Gruppo[o.b])] = {}
    /\ o.pc \in {"dati", "dir", "inode"} => o.b \in m[Bm(Gruppo[o.b])]
    /\ o.pc = "inode" => m[Dato(o.b)] = {o.f}
    /\ o.che = "coda" /\ o.pc \in {"dati", "inode"} => \A x \in p : x[2] # o.b

Vive(m, T, O, p, o, l) ==
    /\ Coerente([a \in Posti |-> O[a]])
    /\ ~l => Sotto(m, T, O, o)
    /\ Messi(m, O, p)
    /\ o.che \in Nuovi => Prende(m, O, p, o)
    /\ o.che = "tronca" => /\ o.pc # "chiudi" => p = {}
                           /\ o.pc # "fine" => o.f \in File
                           /\ o.pc \notin {"inode", "fine"} => o.resta # {}

VivaC == fase = "montato" => Coerenti(Visione, op)
VivaV == fase = "montato" /\ ~guasto => Vive(Visione, Tenuti, ora, pre, op, liberati)

Letto == Recuperato(ora) \in {Recuperato(duro), Visto}

-----------------------------------------------------------------------------
(* The open transaction and what is seen through it.                       *)

Vede(t, O, a) ==
    IF \E i \in 1 .. Len(t) : t[i].blk = a
    THEN t[CHOOSE i \in 1 .. Len(t) : t[i].blk = a].v
    ELSE O[a]

Veduta(t, O) == [a \in Posti |-> Vede(t, O, a)]

Presenti(t) == {t[i].blk : i \in 1 .. Len(t)}

LEMMA VistaVede == Visione = Veduta(slot, ora) /\ Tenuti = Presenti(slot)
<1>1. \A a : Vista(a) = Vede(slot, ora, a)
  BY DEF Vista, Vede, Tiene, Copia
<1> QED
  BY <1>1, Zenon DEF Visione, Veduta, Tenuti, Presenti

LEMMA VistaVedePoi == Visione' = Veduta(slot', ora') /\ Tenuti' = Presenti(slot')
<1>1. (Visione = Veduta(slot, ora) /\ Tenuti = Presenti(slot))'
  BY VistaVede, PTL
<1> QED
  BY <1>1

LEMMA VedutaSopra ==
    ASSUME NEW t, Transazione(t), NEW O
    PROVE  /\ Sopra(O, t, Veduta(t, O))
           /\ \A i \in 1 .. Len(t) : Vede(t, O, t[i].blk) = t[i].v
           /\ \A a \in Posti : Veduta(t, O)[a] = Vede(t, O, a)
           /\ \A a \in Posti : a \notin Presenti(t) => Veduta(t, O)[a] = O[a]
           /\ \A a \in Posti : (\A i \in 1 .. Len(t) : t[i].blk # a) <=> a \notin Presenti(t)
<1>1. \A a \in Posti : Veduta(t, O)[a] = Vede(t, O, a)
  BY DEF Veduta
<1>2. ASSUME NEW i \in 1 .. Len(t) PROVE t[i].blk \in Posti /\ Vede(t, O, t[i].blk) = t[i].v
  <2>1. t[i].blk \in Posti
    BY DEF Transazione
  <2> DEFINE k == CHOOSE j \in 1 .. Len(t) : t[j].blk = t[i].blk
  <2>2. k \in 1 .. Len(t) /\ t[k].blk = t[i].blk
    BY Zenon
  <2>3. Vede(t, O, t[i].blk) = t[k].v
    BY DEF Vede
  <2> HIDE DEF k
  <2>4. k = i
    BY <2>2 DEF Transazione
  <2> QED  BY <2>1, <2>3, <2>4
<1>3. \A a : (\A i \in 1 .. Len(t) : t[i].blk # a) => Vede(t, O, a) = O[a]
  BY DEF Vede
<1>4. \A a : (\A i \in 1 .. Len(t) : t[i].blk # a) <=> a \notin Presenti(t)
  BY DEF Presenti
<1> HIDE DEF Vede
<1> QED
  BY <1>1, <1>2, <1>3, <1>4 DEF Sopra

\* A view is told by what the transaction says of it.
LEMMA StessaVeduta ==
    ASSUME NEW t, Transazione(t), NEW O
    PROVE  \A m : m = [a \in Posti |-> m[a]] /\ Sopra(O, t, m) => Veduta(t, O) = m
<1>1. /\ \A i \in 1 .. Len(t) : Vede(t, O, t[i].blk) = t[i].v
      /\ \A a \in Posti : Veduta(t, O)[a] = Vede(t, O, a)
      /\ \A a \in Posti : a \notin Presenti(t) => Veduta(t, O)[a] = O[a]
      /\ \A a \in Posti : (\A i \in 1 .. Len(t) : t[i].blk # a) <=> a \notin Presenti(t)
  BY VedutaSopra
<1>2. ASSUME NEW m, Sopra(O, t, m), NEW a \in Posti PROVE Veduta(t, O)[a] = m[a]
  <2>1. CASE a \in Presenti(t)
    <3>1. PICK i \in 1 .. Len(t) : t[i].blk = a
      BY <2>1 DEF Presenti
    <3> QED  BY <3>1, <1>1, <1>2 DEF Sopra
  <2>2. CASE a \notin Presenti(t)
    BY <2>2, <1>1, <1>2 DEF Sopra
  <2> QED  BY <2>1, <2>2
<1>3. Veduta(t, O) = [a \in Posti |-> Veduta(t, O)[a]]
  BY DEF Veduta
<1>4. ASSUME NEW m, m = [a \in Posti |-> m[a]], Sopra(O, t, m) PROVE Veduta(t, O) = m
  <2>1. \A a \in Posti : Veduta(t, O)[a] = m[a]
    BY <1>2, <1>4
  <2> QED  BY <2>1, <1>3, <1>4
<1> QED
  BY <1>4

LEMMA VedutaVuota ==
    ASSUME NEW O
    PROVE  Veduta(<<>>, O) = [a \in Posti |-> O[a]] /\ Presenti(<<>>) = {}
           /\ Transazione(<<>>) /\ Fila(<<>>)
<1>1. Transazione(<<>>)
  BY MisureGiornale DEF Transazione
<1>2. Presenti(<<>>) = {}
  BY DEF Presenti
<1> DEFINE m == [a \in Posti |-> O[a]]
<1>3. Sopra(O, <<>>, m)
  BY DEF Sopra
<1>4. Fila(<<>>)
  <2>1. <<>> \in Seq({})
    OBVIOUS
  <2> QED  BY <2>1 DEF Fila
<1>5. m = [a \in Posti |-> m[a]]
  OBVIOUS
<1> HIDE DEF m
<1>6. Veduta(<<>>, O) = m
  BY <1>1, <1>3, <1>5, StessaVeduta
<1> QED
  BY <1>1, <1>2, <1>4, <1>6 DEF m

\* giornale_scrivi of block a with content v.
LEMMA Copiata ==
    ASSUME Fila(slot), Transazione(slot), NEW a \in Posti, NEW v, CiSta(a),
           NEW t, t = Copiato(a, v), NEW O
    PROVE  /\ Fila(t) /\ Transazione(t) /\ t # <<>>
           /\ Presenti(t) = Presenti(slot) \cup {a}
           /\ Veduta(t, O) = [Veduta(slot, O) EXCEPT ![a] = v]
           /\ \A o : a \in DiOp(o) => Altri(t, o) = Altri(slot, o)
<1>0. PICK S : slot \in Seq(S)
  BY DEF Fila
<1> DEFINE r == [blk |-> a, v |-> v]
           L == Len(slot)
<1>1. L \in Nat /\ L <= MaxSlot /\ (\A i \in 1 .. L : slot[i].blk \in Posti)
      /\ (\A i, j \in 1 .. L : slot[i].blk = slot[j].blk => i = j)
  BY DEF Transazione
<1>2. /\ Fila(t) /\ Len(t) \in Nat /\ Len(t) <= MaxSlot /\ Len(t) > 0 /\ L <= Len(t)
      /\ \A i \in 1 .. L : t[i] = IF slot[i].blk = a THEN r ELSE slot[i]
      /\ Tiene(a) => Len(t) = L
      /\ ~Tiene(a) => Len(t) = L + 1 /\ t[L + 1] = r
  <2>1. CASE Tiene(a)
    <3>1. t = [i \in 1 .. L |-> IF slot[i].blk = a THEN r ELSE slot[i]]
      BY <2>1 DEF Copiato
    <3>2. L > 0
      BY <2>1, <1>1 DEF Tiene
    <3> HIDE DEF r
    <3>3. t \in Seq(S \cup {r})
      <4>1. \A i \in 1 .. L : slot[i] \in S
        BY <1>0
      <4>2. \A i \in 1 .. L : t[i] \in S \cup {r}
        BY <4>1, <3>1
      <4>3. t = [i \in 1 .. L |-> t[i]]
        BY <3>1
      <4> QED  BY <4>2, <4>3, <1>1
    <3>4. Len(t) = L
      BY <3>1, <1>1
    <3>5. Fila(t)
      BY <3>3 DEF Fila
    <3>6. Len(t) \in Nat /\ Len(t) <= MaxSlot /\ Len(t) > 0 /\ L <= Len(t)
      BY <3>2, <3>4, <1>1
    <3>7. \A i \in 1 .. L : t[i] = IF slot[i].blk = a THEN r ELSE slot[i]
      BY <3>1
    <3> QED  BY <3>4, <3>5, <3>6, <3>7, <2>1
  <2>2. CASE ~Tiene(a)
    <3>1. t = Append(slot, r) /\ L < MaxSlot
      BY <2>2 DEF Copiato, CiSta
    <3>2. \A i \in 1 .. L : slot[i].blk # a
      BY <2>2 DEF Tiene
    <3> HIDE DEF r
    <3>3. slot \in Seq(S \cup {r}) /\ r \in S \cup {r}
      BY <1>0
    <3>4. t \in Seq(S \cup {r}) /\ Len(t) = L + 1 /\ t[L + 1] = r
      BY <3>1, <3>3
    <3>5. \A i \in 1 .. L : t[i] = slot[i]
      BY <3>1, <3>3
    <3>6. Len(t) \in Nat /\ Len(t) <= MaxSlot /\ Len(t) > 0 /\ L <= Len(t)
      BY <3>1, <3>4, <1>1, MisureGiornale
    <3>7. Fila(t)
      BY <3>4 DEF Fila
    <3> QED  BY <3>2, <3>4, <3>5, <3>6, <3>7, <2>2
  <2> QED  BY <2>1, <2>2
<1>3. r.blk = a /\ r.v = v
  OBVIOUS
<1> HIDE DEF r
<1>4. Tiene(a) <=> \E i \in 1 .. L : slot[i].blk = a
  BY DEF Tiene
<1>5. ASSUME NEW i \in 1 .. Len(t)
      PROVE  \/ i \in 1 .. L /\ slot[i].blk # a /\ t[i] = slot[i]
             \/ t[i] = r /\ i \in 1 .. L /\ slot[i].blk = a
             \/ t[i] = r /\ i = L + 1 /\ ~Tiene(a)
  BY <1>1, <1>2
<1>6. \A i \in 1 .. Len(t) : t[i].blk \in Posti
  BY <1>1, <1>3, <1>5
<1>7. ASSUME NEW i \in 1 .. Len(t), NEW j \in 1 .. Len(t), t[i].blk = t[j].blk PROVE i = j
  BY <1>1, <1>3, <1>4, <1>5, <1>7
<1>8. Transazione(t)
  BY <1>2, <1>6, <1>7 DEF Transazione
<1>9. \A i \in 1 .. L : i \in 1 .. Len(t)
  BY <1>1, <1>2
<1>10. \E i \in 1 .. Len(t) : t[i].blk = a
  <2>1. CASE Tiene(a)
    BY <2>1, <1>2, <1>3, <1>4, <1>9
  <2>2. CASE ~Tiene(a)
    BY <2>2, <1>1, <1>2, <1>3
  <2> QED  BY <2>1, <2>2
<1>11. Presenti(t) = Presenti(slot) \cup {a}
  <2>1. ASSUME NEW x \in Presenti(t) PROVE x \in Presenti(slot) \cup {a}
    BY <1>3, <1>5 DEF Presenti
  <2>2. ASSUME NEW x \in Presenti(slot) PROVE x \in Presenti(t)
    <3>1. PICK i \in 1 .. L : x = slot[i].blk
      BY DEF Presenti
    <3>2. t[i].blk = x
      BY <3>1, <1>2, <1>3
    <3> QED  BY <3>1, <3>2, <1>9 DEF Presenti
  <2>3. a \in Presenti(t)
    BY <1>10 DEF Presenti
  <2> QED  BY <2>1, <2>2, <2>3
<1>12. Veduta(t, O) = [Veduta(slot, O) EXCEPT ![a] = v]
  <2> DEFINE n == Veduta(slot, O)
             m == [n EXCEPT ![a] = v]
  <2>1. n = [c \in Posti |-> n[c]]
    BY DEF Veduta
  <2>2. Sopra(O, slot, n)
    BY VedutaSopra
  <2> HIDE DEF n
  <2>3. m = [c \in Posti |-> m[c]] /\ m[a] = v /\ \A c \in Posti : c # a => m[c] = n[c]
    BY <2>1
  <2> HIDE DEF m
  <2>4. ASSUME NEW i \in 1 .. Len(t) PROVE m[t[i].blk] = t[i].v
    <3>1. CASE t[i] = r
      BY <3>1, <1>3, <2>3
    <3>2. CASE i \in 1 .. L /\ slot[i].blk # a /\ t[i] = slot[i]
      <4>1. n[slot[i].blk] = slot[i].v /\ slot[i].blk \in Posti
        BY <3>2, <2>2, <1>1 DEF Sopra
      <4> QED  BY <4>1, <3>2, <2>3
    <3> QED  BY <3>1, <3>2, <1>5
  <2>5. ASSUME NEW c \in Posti, \A i \in 1 .. Len(t) : t[i].blk # c PROVE m[c] = O[c]
    <3>1. c # a
      BY <2>5, <1>10
    <3>2. ASSUME NEW i \in 1 .. L PROVE slot[i].blk # c
      <4>1. t[i].blk # c
        BY <2>5, <1>9
      <4> QED  BY <4>1, <1>2, <1>3, <3>1
    <3>3. n[c] = O[c]
      BY <3>2, <2>2 DEF Sopra
    <3> QED  BY <3>1, <3>3, <2>3
  <2>6. Sopra(O, t, m)
    BY <2>4, <2>5 DEF Sopra
  <2>7. Veduta(t, O) = m
    BY <2>3, <2>6, <1>8, StessaVeduta
  <2> QED  BY <2>7 DEF m, n
<1>13. ASSUME NEW o, a \in DiOp(o) PROVE Altri(t, o) = Altri(slot, o)
  <2>1. ASSUME NEW i \in Altri(t, o) PROVE i \in Altri(slot, o)
    <3>1. i \in 1 .. Len(t) /\ t[i].blk \notin DiOp(o)
      BY DEF Altri
    <3>2. t[i].blk # a
      BY <3>1, <1>13
    <3>3. i \in 1 .. L /\ t[i] = slot[i]
      BY <3>1, <3>2, <1>3, <1>5
    <3> QED  BY <3>1, <3>3 DEF Altri
  <2>2. ASSUME NEW i \in Altri(slot, o) PROVE i \in Altri(t, o)
    <3>1. i \in 1 .. L /\ slot[i].blk \notin DiOp(o)
      BY DEF Altri
    <3>2. t[i] = slot[i] /\ i \in 1 .. Len(t)
      BY <3>1, <1>2, <1>9, <1>13
    <3> QED  BY <3>1, <3>2 DEF Altri
  <2> QED  BY <2>1, <2>2
<1>14. t # <<>>
  BY <1>2
<1> QED
  BY <1>2, <1>8, <1>11, <1>12, <1>13, <1>14

-----------------------------------------------------------------------------
(* Room in the transaction.                                                *)

LEMMA MetaFinito == IsFiniteSet(Meta) /\ Cardinality(Meta) \in Nat
<1> DEFINE T == {Bm(Gruppo[b]) : b \in Dati}
           f == [b \in Dati |-> Bm(Gruppo[b])]
<1>1. f \in Surjection(Dati, T)
  BY DEF Surjection
<1>2. IsFiniteSet(Dati)
  BY MisureGiornale
<1>3. IsFiniteSet(T)
  <2> HIDE DEF T, f
  <2> QED  BY <1>1, <1>2, FS_Surjection
<1>4. Meta = T \cup {Ino}
  BY DEF Meta
<1>5. IsFiniteSet(Meta)
  <2> HIDE DEF T
  <2> QED  BY <1>3, <1>4, FS_AddElement
<1> QED
  BY <1>5, FS_CardinalityType

\* An operation finds room for every block it writes.
LEMMA Ingombro ==
    ASSUME Cardinality(Meta) < Riserva, NEW t, Transazione(t), NEW o, NEW a \in DiOp(o),
           a \notin Presenti(t), Cardinality(Altri(t, o)) <= MaxSlot - Riserva
    PROVE  Len(t) < MaxSlot
<1> DEFINE L == Len(t)
           B == {i \in 1 .. L : t[i].blk \in DiOp(o)}
           C == Altri(t, o)
<1>1. L \in Nat /\ \A i, j \in 1 .. L : t[i].blk = t[j].blk => i = j
  BY DEF Transazione
<1>2. IsFiniteSet(1 .. L) /\ Cardinality(1 .. L) = L
  <2> HIDE DEF L
  <2>1. /\ IsFiniteSet(1 .. L)
        /\ Cardinality(1 .. L) = IF 1 > L THEN 0 ELSE L - 1 + 1
    BY <1>1, FS_Interval
  <2> QED  BY <2>1, <1>1
<1>3. IsFiniteSet(DiOp(o)) /\ Cardinality(DiOp(o)) \in Nat /\ Cardinality(DiOp(o)) <= Riserva
  <2>1. IsFiniteSet(Meta) /\ Cardinality(Meta) \in Nat /\ Riserva \in Nat
    BY MetaFinito, MisureGiornale
  <2>2. CASE o.che # "cartella"
    BY <2>1, <2>2 DEF DiOp
  <2>3. CASE o.che = "cartella"
    <3>1. DiOp(o) = Meta \cup {Dato(o.b)}
      BY <2>3 DEF DiOp
    <3>2. /\ IsFiniteSet(Meta \cup {Dato(o.b)})
          /\ Cardinality(Meta \cup {Dato(o.b)}) =
               IF Dato(o.b) \in Meta THEN Cardinality(Meta) ELSE Cardinality(Meta) + 1
      BY <2>1, FS_AddElement
    <3> QED  BY <3>1, <3>2, <2>1
  <2> QED  BY <2>2, <2>3
<1>4. IsFiniteSet(DiOp(o) \ {a}) /\ Cardinality(DiOp(o) \ {a}) = Cardinality(DiOp(o)) - 1
  BY <1>3, FS_RemoveElement
<1> DEFINE f == [i \in B |-> t[i].blk]
           E == DiOp(o) \ {a}
<1>5. f \in Injection(B, E)
  <2>1. ASSUME NEW i \in B PROVE t[i].blk \in E
    BY DEF Presenti
  <2>2. \A i, j \in B : t[i].blk = t[j].blk => i = j
    BY <1>1
  <2> QED  BY <2>1, <2>2 DEF Injection, IsInjective
<1>6. B \subseteq 1 .. L /\ C \subseteq 1 .. L /\ B \cup C = 1 .. L /\ B \cap C = {}
  BY DEF Altri
<1> HIDE DEF B, C, f, E
<1>7. IsFiniteSet(B) /\ Cardinality(B) <= Cardinality(E) /\ Cardinality(B) \in Nat
  <2>1. IsFiniteSet(E)
    BY <1>4 DEF E
  <2> QED  BY <2>1, <1>5, FS_Injection, FS_CardinalityType
<1>8. IsFiniteSet(C) /\ Cardinality(C) \in Nat
  <2>1. C \in SUBSET (1 .. L)
    BY <1>6
  <2>2. IsFiniteSet(C)
    BY <2>1, <1>2, FS_Subset
  <2> QED  BY <2>2, FS_CardinalityType
<1>9. Cardinality(B \cup C) = Cardinality(B) + Cardinality(C) - Cardinality(B \cap C)
  BY <1>7, <1>8, FS_Union
<1>10. Cardinality(B \cap C) = 0
  BY <1>6, FS_EmptySet
<1>11. L = Cardinality(B) + Cardinality(C)
  <2>1. Cardinality(1 .. L) = L /\ B \cup C = 1 .. L
    BY <1>2, <1>6
  <2> HIDE DEF L
  <2>2. Cardinality(B \cup C) = L
    BY <2>1
  <2> QED  BY <2>2, <1>7, <1>8, <1>9, <1>10
<1>12. Cardinality(C) <= MaxSlot - Riserva /\ Cardinality(E) = Cardinality(DiOp(o)) - 1
  BY <1>4 DEF C, E
<1> QED
  BY <1>3, <1>7, <1>8, <1>11, <1>12, MisureGiornale

\* Few blocks in the transaction are room enough.
LEMMA PochiPosti ==
    ASSUME NEW t, Transazione(t), NEW o, Len(t) <= MaxSlot - Riserva
    PROVE  Cardinality(Altri(t, o)) <= MaxSlot - Riserva
<1>1. Len(t) \in Nat
  BY DEF Transazione
<1>2. IsFiniteSet(1 .. Len(t)) /\ Cardinality(1 .. Len(t)) = Len(t)
  <2>1. PICK k \in Nat : k = Len(t)
    BY <1>1
  <2>2. 1 \in Int /\ k \in Int
    OBVIOUS
  <2>3. IsFiniteSet(1 .. k) /\ Cardinality(1 .. k) = IF 1 > k THEN 0 ELSE k - 1 + 1
    BY <2>2, FS_Interval, Zenon
  <2>4. Cardinality(1 .. k) = k
    BY <2>3
  <2> QED  BY <2>1, <2>3, <2>4
<1>3. Altri(t, o) \in SUBSET (1 .. Len(t))
  BY DEF Altri
<1> DEFINE C == Altri(t, o)
<1> HIDE DEF C
<1>4. IsFiniteSet(C) /\ Cardinality(C) <= Len(t)
  BY <1>2, <1>3, FS_Subset DEF C
<1>5. Cardinality(C) \in Nat
  BY <1>4, FS_CardinalityType
<1> QED
  BY <1>1, <1>4, <1>5, MisureGiornale DEF C

-----------------------------------------------------------------------------
(* The tables.                                                             *)

LEMMA Tavola ==
    /\ Poi["prenotato"]["inizio"] = "dati" /\ Poi["prenotato"]["dati"] = "inode"
    /\ Poi["prenotato"]["inode"] = "fine" /\ Poi["prenotato"]["fine"] = "no"
    /\ Poi["coda"]["inizio"] = "chiudi" /\ Poi["coda"]["chiudi"] = "bitmap"
    /\ Poi["coda"]["bitmap"] = "dati" /\ Poi["coda"]["dati"] = "inode"
    /\ Poi["coda"]["inode"] = "fine" /\ Poi["coda"]["fine"] = "no"
    /\ Poi["perso"]["chiudi"] = "fine" /\ Poi["perso"]["fine"] = "no"
    /\ Poi["cartella"]["chiudi"] = "inizio" /\ Poi["cartella"]["inizio"] = "bitmap"
    /\ Poi["cartella"]["bitmap"] = "dir" /\ Poi["cartella"]["dir"] = "inode"
    /\ Poi["cartella"]["inode"] = "fine" /\ Poi["cartella"]["fine"] = "no"
    /\ Poi["tronca"]["chiudi"] = "inizio" /\ Poi["tronca"]["inizio"] = "libera"
    /\ Poi["tronca"]["libera"] = "toglie" /\ Poi["tronca"]["toglie"] = "inode"
    /\ Poi["tronca"]["inode"] = "fine" /\ Poi["tronca"]["fine"] = "no"
    /\ Poi["chiudi"]["chiudi"] = "no" /\ Poi["tempo"]["commit"] = "no"
    /\ Poi["sync"]["chiudi"] = "commit" /\ Poi["sync"]["commit"] = "flush"
    /\ Poi["sync"]["flush"] = "torna" /\ Poi["sync"]["torna"] = "no"
    /\ Poi["fsync"]["chiudi"] = "commit" /\ Poi["fsync"]["commit"] = "lascia"
    /\ Poi["fsync"]["lascia"] = "no"
    /\ Poi["smonta"]["chiudi"] = "commit" /\ Poi["smonta"]["commit"] = "flush"
    /\ Poi["smonta"]["flush"] = "sb" /\ Poi["smonta"]["sb"] = "flushsb"
    /\ Poi["smonta"]["flushsb"] = "smontato" /\ Poi["smonta"]["smontato"] = "no"
    /\ Poi["monta"]["replay"] = "flush" /\ Poi["monta"]["flush"] = "jsb"
    /\ Poi["monta"]["jsb"] = "flushjsb" /\ Poi["monta"]["flushjsb"] = "sb"
    /\ Poi["monta"]["sb"] = "flushsb" /\ Poi["monta"]["flushsb"] = "montato"
    /\ Poi["monta"]["montato"] = "no"
  BY DEF Poi

LEMMA TavolaSegue ==
    /\ Segue["copie"] = "prima" /\ Segue["prima"] = "sigillo" /\ Segue["sigillo"] = "seconda"
    /\ Segue["seconda"] = "posti" /\ Segue["posti"] = "terza" /\ Segue["terza"] = "vuota"
  BY DEF Segue

-----------------------------------------------------------------------------
(* What the steps of the calls do to the volume that is seen.              *)

\* Block a of the view m gets the content v.
Cambia(m, n, a, v) == m = [x \in Posti |-> m[x]] /\ n = [m EXCEPT ![a] = v]
Con(T, a) == T \cup {a}

LEMMA Fermi ==
    ASSUME NEW m, NEW T, NEW O, NEW p, NEW o, NEW l, Vive(m, T, O, p, o, l), Coerenti(m, o),
           ~(o.che = "cartella" /\ o.pc = "inode"),
           NEW q, NEW k, l => k,
           o.che = "tronca" /\ o.pc \in {"libera", "toglie", "inode"} =>
             q.che = "tronca" /\ q.pc \in {"libera", "toglie", "inode"} /\ q.f = o.f,
           q.che \in Nuovi => Prende(m, O, p, q),
           q.che = "tronca" => /\ q.pc # "chiudi" => p = {}
                               /\ q.pc # "fine" => q.f \in File
                               /\ q.pc \notin {"inode", "fine"} => q.resta # {}
    PROVE  Vive(m, T, O, p, q, k) /\ Coerenti(m, q)
<1>1. Coerenti(m, q)
  BY DEF Coerenti, Taglia
<1>2. ~k => Sotto(m, T, O, q)
  <2>1. ~k => Sotto(m, T, O, o)
    BY DEF Vive
  <2> QED  BY <2>1 DEF Sotto
<1> QED
  BY <1>1, <1>2 DEF Vive

\* A block that nothing has: free for the view and for the disk.
LEMMA NonPreso ==
    ASSUME NEW m, NEW T, NEW O, NEW p, NEW o, NEW l, Vive(m, T, O, p, o, l), Coerenti(m, o),
           ~l, o.che # "tronca", NEW b \in Dati, b \notin Resi(m, p, Gruppo[b])
    PROVE  Libero(b, m[Ino]) /\ Libero(b, O[Ino])
<1>1. Sotto(m, T, O, o) /\ Messi(m, O, p)
  BY DEF Vive
<1>2. CASE b \in m[Bm(Gruppo[b])]
  <2>1. PICK x \in p : x[2] = b
    BY <1>2 DEF Resi
  <2> QED  BY <2>1, <1>1 DEF Messi
<1>3. CASE b \notin m[Bm(Gruppo[b])]
  <2>1. Libero(b, m[Ino])
    BY <1>3 DEF Coerenti, Taglia, Libero
  <2>2. Libero(b, O[Ino])
    BY <1>1, <1>3 DEF Sotto, Libero
  <2> QED  BY <2>1, <2>2
<1> QED  BY <1>2, <1>3

\* The reservation is given back.
LEMMA VivaChiudi ==
    ASSUME NEW m, NEW T, NEW O, NEW p, NEW o, NEW l, Vive(m, T, O, p, o, l), Coerenti(m, o),
           o.pc = "chiudi", NEW x \in p,
           NEW n, NEW dove, dove = Bm(Gruppo[x[2]]),
           NEW cosa, cosa = Resi(m, p, Gruppo[x[2]]), Cambia(m, n, dove, cosa),
           NEW q, q.che = o.che, q.f = o.f, q.b = o.b, q.altri = o.altri, q.resta = o.resta,
           q.che = "coda" => q.pc = "bitmap",
           q.che \in {"cartella", "tronca"} => q.pc = "inizio",
           NEW r, r = q \/ (r.che \notin Nuovi /\ r.che # "tronca"),
           o.che \in {"coda", "cartella", "tronca"} => r = q, o.che # "prenotato"
    PROVE  Vive(n, Con(T, Bm(Gruppo[x[2]])), O, {}, r, l) /\ Coerenti(n, r)
<1> USE DEF Con
<1>c. m = [a \in Posti |-> m[a]] /\ n = [m EXCEPT ![Bm(Gruppo[x[2]])] = Resi(m, p, Gruppo[x[2]])]
  BY DEF Cambia
<1> USE <1>c
<1> DEFINE g == Gruppo[x[2]]
           c == x[2]
<1>1. Messi(m, O, p) /\ Coerente([a \in Posti |-> O[a]]) /\ (~l => Sotto(m, T, O, o))
  BY DEF Vive
<1>2. /\ x \in File \X Dati /\ c \in m[Bm(g)] /\ Libero(c, m[Ino]) /\ Libero(c, O[Ino])
      /\ \A y \in p : y = x
  BY <1>1 DEF Messi
<1>3. c \in Dati
  BY <1>2
<1>4. Bm(g) \in Posti /\ Ino \in Posti /\ Bm(g) # Ino /\ \A h : Bm(h) = Bm(g) => h = g
  BY <1>3, Nomi
<1>5. /\ n[Bm(g)] = m[Bm(g)] \ {c}
      /\ \A a \in Posti : a # Bm(g) => n[a] = m[a]
  <2>1. Resi(m, p, g) = m[Bm(g)] \ {c}
    BY <1>2 DEF Resi
  <2> QED  BY <2>1, <1>4
<1>6. n[Ino] = m[Ino]
  BY <1>4, <1>5
<1>7. \A b \in Dati : /\ n[Bm(Gruppo[b])] = m[Bm(Gruppo[b])] \ {c} \/ Gruppo[b] # g
                      /\ Gruppo[b] # g => n[Bm(Gruppo[b])] = m[Bm(Gruppo[b])]
                      /\ n[Dato(b)] = m[Dato(b)]
  BY <1>4, <1>5, Nomi
<1>8. \A b \in Dati : b # c /\ b \in m[Bm(Gruppo[b])] => b \in n[Bm(Gruppo[b])]
  BY <1>7
<1>9. Coerenti(n, r)
  <2>1. ASSUME NEW y \in n[Ino]
        PROVE  /\ y \in File \X Dati
               /\ y[2] \in n[Bm(Gruppo[y[2]])]
               /\ n[Dato(y[2])] = {y[1]}
               /\ \A z \in n[Ino] : z[2] = y[2] => z = y
    <3>1. /\ y \in File \X Dati /\ y[2] \in m[Bm(Gruppo[y[2]])]
          /\ m[Dato(y[2])] = {y[1]} /\ \A z \in m[Ino] : z[2] = y[2] => z = y
      BY <1>6 DEF Coerenti, Taglia
    <3>2. y[2] # c /\ y[2] \in Dati
      BY <3>1, <1>2, <1>6 DEF Libero
    <3> QED  BY <3>1, <3>2, <1>6, <1>7, <1>8
  <2> QED  BY <2>1 DEF Coerenti
<1>10. ~l => Sotto(n, T \cup {Bm(g)}, O, r)
  <2>1. ASSUME ~l, NEW y \in O[Ino] PROVE y[2] \in n[Bm(Gruppo[y[2]])]
    <3>1. y[2] \in m[Bm(Gruppo[y[2]])] /\ y[2] # c
      BY <2>1, <1>1, <1>2 DEF Sotto, Libero
    <3>2. y \in File \X Dati
      BY <1>1, <1>4 DEF Coerente
    <3> QED  BY <3>1, <3>2, <1>8
  <2>2. ASSUME ~l, NEW b \in Dati, Dato(b) \in T \cup {Bm(g)} PROVE ~Libero(b, n[Ino])
    <3>1. Dato(b) \in T
      BY <2>2, Nomi
    <3>2. ~Libero(b, m[Ino]) \/ (o.che = "cartella" /\ o.pc = "inode" /\ b = o.b)
      BY <3>1, <2>2, <1>1 DEF Sotto
    <3> QED  BY <3>2, <1>6
  <2> QED  BY <2>1, <2>2 DEF Sotto
<1>11. Messi(n, O, {})
  BY DEF Messi
<1>12. ASSUME r.che \in Nuovi PROVE Prende(n, O, {}, r)
  <2>1. r = q /\ o.che \in Nuovi /\ Prende(m, O, p, o) /\ o.che \in {"coda", "cartella"}
    BY <1>12 DEF Vive, Nuovi
  <2>2. /\ o.b \in Dati /\ o.f \in File /\ Libero(o.b, m[Ino]) /\ Libero(o.b, O[Ino])
        /\ o.che = "cartella" => o.altri = {}
        /\ o.che = "coda" => \A d \in o.altri : d \in Dati /\ Gruppo[d] = Gruppo[o.b] /\ d = o.b + 1
        /\ o.b \notin Resi(m, p, Gruppo[o.b]) /\ o.altri \cap Resi(m, p, Gruppo[o.b]) = {}
    BY <2>1 DEF Prende
  <2>3. Resi(m, p, Gruppo[o.b]) = m[Bm(Gruppo[o.b])] \ {c}
    BY <1>2 DEF Resi
  <2>4. o.b \notin n[Bm(Gruppo[o.b])]
    BY <2>2, <2>3, <1>7
  <2>5. o.altri \cap n[Bm(Gruppo[o.b])] = {}
    <3>1. ASSUME NEW d \in o.altri, d \in n[Bm(Gruppo[o.b])] PROVE FALSE
      <4>1. o.che = "coda" /\ d \in Dati /\ Gruppo[d] = Gruppo[o.b]
        BY <3>1, <2>1, <2>2
      <4>2. d \notin m[Bm(Gruppo[o.b])] \ {c}
        BY <3>1, <2>2, <2>3
      <4> QED  BY <3>1, <4>1, <4>2, <1>7
    <3> QED  BY <3>1
  <2>6. Resi(n, {}, Gruppo[o.b]) = n[Bm(Gruppo[o.b])]
    BY DEF Resi
  <2>7. /\ r.che = o.che /\ r.f = o.f /\ r.b = o.b /\ r.altri = o.altri
        /\ r.che = "coda" => r.pc = "bitmap"
        /\ r.che = "cartella" => r.pc = "inizio"
    BY <2>1
  <2> QED  BY <2>1, <2>2, <2>4, <2>5, <2>6, <2>7, <1>6 DEF Prende
<1>13. r.che = "tronca" => /\ r.pc # "fine" => r.f \in File
                           /\ r.pc \notin {"inode", "fine"} => r.resta # {}
  BY DEF Vive
<1> QED
  BY <1>1, <1>9, <1>10, <1>11, <1>12, <1>13 DEF Vive

\* The same call, further on.
Poco(o, q) == q.che = o.che /\ q.f = o.f /\ q.b = o.b /\ q.altri = o.altri

\* The block it sets aside.
Prenota(o) == {<<o.f, c>> : c \in o.altri}

\* What it writes.
ConBlocchi(m, o) == m[Bm(Gruppo[o.b])] \cup {o.b} \cup o.altri
Suo(o) == {o.f}
ConNuovo(m, o) == m[Ino] \cup {<<o.f, o.b>>}
SenzaFile(m, o) == {x \in m[Ino] : x[1] # o.f}
SenzaBlocchi(m, o, g) == m[Bm(g)] \ {b \in Dati : <<o.f, b>> \in m[Ino]}

\* alloca_blocco: the block and the one set aside are taken.
LEMMA VivaBitmap ==
    ASSUME NEW m, NEW T, NEW O, NEW p, NEW o, Vive(m, T, O, p, o, FALSE), Coerenti(m, o),
           o.che \in {"coda", "cartella"}, o.pc = "bitmap",
           NEW n, NEW dove, dove = Bm(Gruppo[o.b]),
           NEW cosa, cosa = ConBlocchi(m, o), Cambia(m, n, dove, cosa),
           NEW q, Poco(o, q), o.che = "coda" => q.pc = "dati", o.che = "cartella" => q.pc = "dir"
    PROVE  /\ Vive(n, Con(T, Bm(Gruppo[o.b])), O, Prenota(o), q, FALSE)
           /\ Coerenti(n, q)
<1> USE DEF Con, ConBlocchi
<1> USE DEF Prenota
<1>c. m = [a \in Posti |-> m[a]] /\ n = [m EXCEPT ![Bm(Gruppo[o.b])] = m[Bm(Gruppo[o.b])] \cup {o.b} \cup o.altri]
  BY DEF Cambia
<1> USE <1>c
<1> DEFINE g == Gruppo[o.b]
           r == {<<o.f, c>> : c \in o.altri}
<1>1. /\ Coerente([a \in Posti |-> O[a]]) /\ Sotto(m, T, O, o) /\ Prende(m, O, p, o)
  BY DEF Vive, Nuovi
<1>2. /\ o.b \in Dati /\ o.f \in File /\ Libero(o.b, m[Ino]) /\ Libero(o.b, O[Ino])
      /\ o.che = "cartella" => o.altri = {}
      /\ \A c \in o.altri : c \in Dati /\ Gruppo[c] = g /\ c = o.b + 1
      /\ p = {} /\ o.b \notin m[Bm(g)] /\ o.altri \cap m[Bm(g)] = {}
  BY <1>1 DEF Prende
<1>3. Bm(g) \in Posti /\ Ino \in Posti /\ Bm(g) # Ino
  BY <1>2, Nomi
<1>4. /\ n[Bm(g)] = m[Bm(g)] \cup {o.b} \cup o.altri
      /\ \A a \in Posti : a # Bm(g) => n[a] = m[a]
  BY <1>3
<1>5. n[Ino] = m[Ino]
  BY <1>3, <1>4
<1>6. \A b \in Dati : m[Bm(Gruppo[b])] \subseteq n[Bm(Gruppo[b])] /\ n[Dato(b)] = m[Dato(b)]
  BY <1>3, <1>4, Nomi
<1>7. Coerenti(n, q)
  <2>1. ASSUME NEW y \in n[Ino]
        PROVE  /\ y \in File \X Dati
               /\ y[2] \in n[Bm(Gruppo[y[2]])]
               /\ n[Dato(y[2])] = {y[1]}
               /\ \A z \in n[Ino] : z[2] = y[2] => z = y
    <3>1. /\ y \in File \X Dati /\ y[2] \in m[Bm(Gruppo[y[2]])]
          /\ m[Dato(y[2])] = {y[1]} /\ \A z \in m[Ino] : z[2] = y[2] => z = y
      BY <1>5 DEF Coerenti, Taglia
    <3> QED  BY <3>1, <1>5, <1>6
  <2> QED  BY <2>1 DEF Coerenti
<1>8. Sotto(n, T \cup {Bm(g)}, O, q)
  <2>1. ASSUME NEW y \in O[Ino] PROVE y[2] \in n[Bm(Gruppo[y[2]])]
    <3>1. y[2] \in m[Bm(Gruppo[y[2]])]
      BY <1>1 DEF Sotto
    <3>2. y \in File \X Dati
      BY <1>1, <1>3 DEF Coerente
    <3> QED  BY <3>1, <3>2, <1>6
  <2>2. ASSUME NEW b \in Dati, Dato(b) \in T \cup {Bm(g)} PROVE ~Libero(b, n[Ino])
    <3>1. Dato(b) \in T
      BY <2>2, Nomi
    <3>2. ~Libero(b, m[Ino])
      BY <3>1, <1>1 DEF Sotto
    <3> QED  BY <3>2, <1>5
  <2> QED  BY <2>1, <2>2 DEF Sotto
<1>9. ASSUME NEW c \in o.altri
      PROVE  c \in n[Bm(Gruppo[c])] /\ Libero(c, n[Ino]) /\ Libero(c, O[Ino]) /\ c # o.b
  <2>1. c \in Dati /\ Gruppo[c] = g /\ c = o.b + 1 /\ c \notin m[Bm(Gruppo[c])]
    BY <1>2
  <2>2. Libero(c, m[Ino])
    BY <2>1 DEF Coerenti, Taglia, Libero
  <2>3. Libero(c, O[Ino])
    BY <2>1, <1>1 DEF Sotto, Libero
  <2>4. o.b \in Int
    BY <1>2, MisureGiornale
  <2> QED  BY <2>1, <2>2, <2>3, <2>4, <1>4, <1>5
<1>10. Messi(n, O, r)
  <2>1. ASSUME NEW x \in r
        PROVE  /\ x \in File \X Dati /\ x[2] \in n[Bm(Gruppo[x[2]])]
               /\ Libero(x[2], n[Ino]) /\ Libero(x[2], O[Ino])
    <3>1. PICK c \in o.altri : x = <<o.f, c>>
      OBVIOUS
    <3> QED  BY <3>1, <1>2, <1>9
  <2>2. \A x, y \in r : x = y
    BY <1>2
  <2> QED  BY <2>1, <2>2 DEF Messi
<1>11. Prende(n, O, r, q)
  <2>1. /\ q.che = o.che /\ q.f = o.f /\ q.b = o.b /\ q.altri = o.altri
        /\ q.che = "coda" => q.pc = "dati"
        /\ q.che = "cartella" => q.pc = "dir"
    BY DEF Poco
  <2>2. o.b \in n[Bm(g)]
    BY <1>4
  <2>3. o.altri = {} => r = {}
    OBVIOUS
  <2>4. ASSUME NEW x \in r PROVE x[2] # o.b
    <3>1. PICK c \in o.altri : x = <<o.f, c>>
      OBVIOUS
    <3> QED  BY <3>1, <1>9
  <2> HIDE DEF r
  <2> QED  BY <2>1, <2>2, <2>3, <2>4, <1>2, <1>5 DEF Prende
<1> HIDE DEF r
<1>12. q.che # "tronca"
  BY DEF Poco
<1>13. Vive(n, T \cup {Bm(g)}, O, r, q, FALSE)
  BY <1>1, <1>8, <1>10, <1>11, <1>12 DEF Vive
<1> QED
  BY <1>7, <1>13 DEF r

\* A free block gets a content: in the transaction (dir_scrivi) or on the disk.
LEMMA VivaDato ==
    ASSUME NEW m, NEW T, NEW O, NEW p, NEW o, Vive(m, T, O, p, o, FALSE), Coerenti(m, o),
           o.che \in Nuovi, o.pc \in {"dati", "dir"},
           NEW n, NEW dove, dove = Dato(o.b),
           NEW cosa, cosa = Suo(o), Cambia(m, n, dove, cosa),
           NEW U, U = T \/ (U = Con(T, Dato(o.b)) /\ o.che = "cartella"),
           NEW P, \A a \in Posti : a # Dato(o.b) => P[a] = O[a],
           o.pc = "dir" => o.che = "cartella",
           NEW q, \/ Poco(o, q) /\ q.pc = "inode"
                  \/ q.che \notin Nuovi /\ q.che # "tronca" /\ U = T
    PROVE  Vive(n, U, P, p, q, FALSE) /\ Coerenti(n, q)
<1> USE DEF Con, Suo
<1>c. m = [a \in Posti |-> m[a]] /\ n = [m EXCEPT ![Dato(o.b)] = {o.f}]
  BY DEF Cambia
<1> USE <1>c
<1>1. /\ Coerente([a \in Posti |-> O[a]]) /\ Sotto(m, T, O, o) /\ Prende(m, O, p, o)
      /\ Messi(m, O, p)
  BY DEF Vive
<1>2. /\ o.b \in Dati /\ o.f \in File /\ Libero(o.b, m[Ino]) /\ Libero(o.b, O[Ino])
      /\ o.b \in m[Bm(Gruppo[o.b])]
  BY <1>1 DEF Prende
<1>3. /\ Dato(o.b) \in Posti /\ Ino \in Posti /\ Dato(o.b) # Ino
      /\ \A b \in Dati : Bm(Gruppo[b]) \in Posti /\ Bm(Gruppo[b]) # Dato(o.b)
      /\ \A b \in Dati : Dato(b) \in Posti /\ (Dato(b) = Dato(o.b) => b = o.b)
  BY <1>2, Nomi
<1>4. n[Dato(o.b)] = {o.f} /\ \A a \in Posti : a # Dato(o.b) => n[a] = m[a]
  BY <1>3
<1>5. n[Ino] = m[Ino] /\ P[Ino] = O[Ino]
  BY <1>3, <1>4
<1>6. \A b \in Dati : n[Bm(Gruppo[b])] = m[Bm(Gruppo[b])] /\ P[Bm(Gruppo[b])] = O[Bm(Gruppo[b])]
  BY <1>3, <1>4
<1>7. \A b \in Dati : b # o.b => n[Dato(b)] = m[Dato(b)] /\ P[Dato(b)] = O[Dato(b)]
  BY <1>3, <1>4
<1>8. Coerenti(n, q)
  <2>1. ASSUME NEW y \in n[Ino]
        PROVE  /\ y \in File \X Dati
               /\ y[2] \in n[Bm(Gruppo[y[2]])]
               /\ n[Dato(y[2])] = {y[1]}
               /\ \A z \in n[Ino] : z[2] = y[2] => z = y
    <3>1. /\ y \in File \X Dati /\ y[2] \in m[Bm(Gruppo[y[2]])]
          /\ m[Dato(y[2])] = {y[1]} /\ \A z \in m[Ino] : z[2] = y[2] => z = y
      BY <1>5 DEF Coerenti, Taglia, Nuovi
    <3>2. y[2] # o.b
      BY <1>2, <1>5 DEF Libero
    <3> QED  BY <3>1, <3>2, <1>5, <1>6, <1>7
  <2> QED  BY <2>1 DEF Coerenti
<1>9. Coerente([a \in Posti |-> P[a]])
  <2> DEFINE e == [a \in Posti |-> P[a]]
             d == [a \in Posti |-> O[a]]
  <2>1. Coerente(d) /\ d[Ino] = O[Ino] /\ e[Ino] = O[Ino]
    BY <1>1, <1>3, <1>5
  <2>2. \A b \in Dati : b # o.b => d[Dato(b)] = O[Dato(b)] /\ e[Dato(b)] = O[Dato(b)]
    BY <1>3, <1>7
  <2>3. \A b \in Dati : d[Bm(Gruppo[b])] = O[Bm(Gruppo[b])] /\ e[Bm(Gruppo[b])] = O[Bm(Gruppo[b])]
    BY <1>3, <1>6
  <2> HIDE DEF d, e
  <2>4. ASSUME NEW y \in e[Ino]
        PROVE  /\ y \in File \X Dati
               /\ y[2] \in e[Bm(Gruppo[y[2]])]
               /\ e[Dato(y[2])] = {y[1]}
               /\ \A z \in e[Ino] : z[2] = y[2] => z = y
    <3>1. /\ y \in File \X Dati /\ y[2] \in d[Bm(Gruppo[y[2]])]
          /\ d[Dato(y[2])] = {y[1]} /\ \A z \in d[Ino] : z[2] = y[2] => z = y
      BY <2>1 DEF Coerente
    <3>2. y[2] # o.b
      BY <1>2, <2>1 DEF Libero
    <3> QED  BY <3>1, <3>2, <2>1, <2>2, <2>3
  <2>5. Coerente(e)
    BY <2>4 DEF Coerente
  <2> QED  BY <2>5 DEF e
<1>10. Sotto(n, U, P, q)
  <2>1. ASSUME NEW y \in P[Ino] PROVE y[2] \in n[Bm(Gruppo[y[2]])]
    <3>1. y[2] \in m[Bm(Gruppo[y[2]])]
      BY <1>1, <1>5 DEF Sotto
    <3>2. y \in File \X Dati
      BY <1>1, <1>3, <1>5 DEF Coerente
    <3> QED  BY <3>1, <3>2, <1>6
  <2>2. ASSUME NEW b \in Dati, Dato(b) \in U
        PROVE ~Libero(b, n[Ino]) \/ (q.che = "cartella" /\ q.pc = "inode" /\ b = q.b)
    <3>1. CASE Dato(b) \in T
      <4>1. ~Libero(b, m[Ino])
        BY <3>1, <1>1 DEF Sotto
      <4> QED  BY <4>1, <1>5
    <3>2. CASE Dato(b) \notin T
      <4>1. Dato(b) = Dato(o.b) /\ o.che = "cartella" /\ Poco(o, q) /\ q.pc = "inode"
        BY <3>2, <2>2
      <4> QED  BY <4>1, <1>3 DEF Poco
    <3> QED  BY <3>1, <3>2
  <2> QED  BY <2>1, <2>2 DEF Sotto
<1>11. Messi(n, P, p)
  <2>1. ASSUME NEW x \in p
        PROVE  /\ x \in File \X Dati /\ x[2] \in n[Bm(Gruppo[x[2]])]
               /\ Libero(x[2], n[Ino]) /\ Libero(x[2], P[Ino])
    <3>1. /\ x \in File \X Dati /\ x[2] \in m[Bm(Gruppo[x[2]])]
          /\ Libero(x[2], m[Ino]) /\ Libero(x[2], O[Ino])
      BY <1>1 DEF Messi
    <3> QED  BY <3>1, <1>5, <1>6
  <2> QED  BY <2>1, <1>1 DEF Messi
<1>12. ASSUME q.che \in Nuovi PROVE Prende(n, P, p, q)
  <2>1. /\ q.che = o.che /\ q.f = o.f /\ q.b = o.b /\ q.altri = o.altri /\ q.pc = "inode"
    BY <1>12 DEF Poco
  <2>2. n[Bm(Gruppo[o.b])] = m[Bm(Gruppo[o.b])] /\ n[Dato(o.b)] = {o.f}
    BY <1>2, <1>4, <1>6
  <2>3. /\ o.che = "cartella" => o.altri = {} /\ p = {}
        /\ o.che = "prenotato" => p = {}
        /\ o.che = "coda" => \A c \in o.altri : c \in Dati /\ Gruppo[c] = Gruppo[o.b] /\ c = o.b + 1
        /\ o.che = "coda" => \A x \in p : x[2] # o.b
    <3>1. o.che = "coda" => o.pc = "dati"
      OBVIOUS
    <3> QED  BY <3>1, <1>1 DEF Prende
  <2> QED  BY <2>1, <2>2, <2>3, <1>2, <1>5 DEF Prende
<1>13. q.che # "tronca"
  BY DEF Poco, Nuovi
<1> QED
  BY <1>8, <1>9, <1>10, <1>11, <1>12, <1>13 DEF Vive

\* scrivi_inode of a file or directory that took a block.
LEMMA VivaInode ==
    ASSUME NEW m, NEW T, NEW O, NEW p, NEW o, Vive(m, T, O, p, o, FALSE), Coerenti(m, o),
           o.che \in Nuovi, o.pc = "inode",
           NEW n, NEW dove, dove = Ino,
           NEW cosa, cosa = ConNuovo(m, o), Cambia(m, n, dove, cosa),
           NEW q, Poco(o, q), q.pc = "fine"
    PROVE  Vive(n, Con(T, Ino), O, p, q, FALSE) /\ Coerenti(n, q)
<1> USE DEF Con, ConNuovo
<1>c. m = [a \in Posti |-> m[a]] /\ n = [m EXCEPT ![Ino] = m[Ino] \cup {<<o.f, o.b>>}]
  BY DEF Cambia
<1> USE <1>c
<1>1. /\ Coerente([a \in Posti |-> O[a]]) /\ Sotto(m, T, O, o) /\ Prende(m, O, p, o)
      /\ Messi(m, O, p)
  BY DEF Vive
<1>2. /\ o.b \in Dati /\ o.f \in File /\ Libero(o.b, m[Ino]) /\ Libero(o.b, O[Ino])
      /\ o.b \in m[Bm(Gruppo[o.b])] /\ m[Dato(o.b)] = {o.f}
      /\ \A x \in p : x[2] # o.b
  BY <1>1 DEF Prende, Nuovi
<1>3. /\ Ino \in Posti
      /\ \A b \in Dati : Bm(Gruppo[b]) \in Posti /\ Bm(Gruppo[b]) # Ino
      /\ \A b \in Dati : Dato(b) \in Posti /\ Dato(b) # Ino
  BY Nomi
<1>4. n[Ino] = m[Ino] \cup {<<o.f, o.b>>} /\ \A a \in Posti : a # Ino => n[a] = m[a]
  BY <1>3
<1>5. \A b \in Dati : n[Bm(Gruppo[b])] = m[Bm(Gruppo[b])] /\ n[Dato(b)] = m[Dato(b)]
  BY <1>3, <1>4
<1>6. ASSUME NEW y \in m[Ino]
      PROVE  /\ y \in File \X Dati /\ y[2] \in m[Bm(Gruppo[y[2]])] /\ y[2] # o.b
             /\ m[Dato(y[2])] = {y[1]} /\ \A z \in m[Ino] : z[2] = y[2] => z = y
  BY <1>2 DEF Coerenti, Taglia, Nuovi, Libero
<1>7. Coerenti(n, q)
  <2>1. ASSUME NEW y \in n[Ino]
        PROVE  /\ y \in File \X Dati
               /\ y[2] \in n[Bm(Gruppo[y[2]])]
               /\ n[Dato(y[2])] = {y[1]}
               /\ \A z \in n[Ino] : z[2] = y[2] => z = y
    <3>1. CASE y \in m[Ino]
      <4>1. /\ y \in File \X Dati /\ y[2] \in m[Bm(Gruppo[y[2]])] /\ y[2] # o.b
            /\ m[Dato(y[2])] = {y[1]} /\ \A z \in m[Ino] : z[2] = y[2] => z = y
        BY <3>1, <1>6
      <4>2. ASSUME NEW z \in n[Ino], z[2] = y[2] PROVE z = y
        <5>1. z # <<o.f, o.b>>
          BY <4>1, <4>2
        <5> QED  BY <5>1, <4>1, <4>2, <1>4
      <4>3. y[2] \in Dati
        BY <4>1
      <4> QED  BY <4>1, <4>2, <4>3, <1>5
    <3>2. CASE y = <<o.f, o.b>>
      <4>1. y \in File \X Dati /\ y[1] = o.f /\ y[2] = o.b
        BY <3>2, <1>2
      <4>2. \A z \in n[Ino] : z[2] = y[2] => z = y
        BY <4>1, <3>2, <1>4, <1>6
      <4> QED  BY <4>1, <4>2, <1>2, <1>5
    <3> QED  BY <3>1, <3>2, <1>4
  <2> QED  BY <2>1 DEF Coerenti
<1>8. Sotto(n, T \cup {Ino}, O, q)
  <2>1. ASSUME NEW y \in O[Ino] PROVE y[2] \in n[Bm(Gruppo[y[2]])]
    <3>1. y[2] \in m[Bm(Gruppo[y[2]])]
      BY <1>1 DEF Sotto
    <3>2. y \in File \X Dati
      BY <1>1, <1>3 DEF Coerente
    <3> QED  BY <3>1, <3>2, <1>5
  <2>2. ASSUME NEW b \in Dati, Dato(b) \in T \cup {Ino} PROVE ~Libero(b, n[Ino])
    <3>1. Dato(b) \in T
      BY <2>2, <1>3
    <3>2. ~Libero(b, m[Ino]) \/ b = o.b
      BY <3>1, <1>1 DEF Sotto
    <3>3. <<o.f, o.b>> \in n[Ino] /\ <<o.f, o.b>>[2] = o.b
      BY <1>4
    <3> QED  BY <3>2, <3>3, <1>4 DEF Libero
  <2> QED  BY <2>1, <2>2 DEF Sotto
<1>9. Messi(n, O, p)
  <2>1. ASSUME NEW x \in p
        PROVE  /\ x \in File \X Dati /\ x[2] \in n[Bm(Gruppo[x[2]])]
               /\ Libero(x[2], n[Ino]) /\ Libero(x[2], O[Ino])
    <3>1. /\ x \in File \X Dati /\ x[2] \in m[Bm(Gruppo[x[2]])]
          /\ Libero(x[2], m[Ino]) /\ Libero(x[2], O[Ino]) /\ x[2] # o.b
      BY <1>1, <1>2 DEF Messi
    <3>2. Libero(x[2], n[Ino])
      BY <3>1, <1>4 DEF Libero
    <3> QED  BY <3>1, <3>2, <1>5
  <2> QED  BY <2>1, <1>1 DEF Messi
<1>10. Prende(n, O, p, q)
  BY <1>1 DEF Prende, Poco, Nuovi
<1>11. q.che # "tronca"
  BY DEF Poco, Nuovi
<1> QED
  BY <1>1, <1>7, <1>8, <1>9, <1>10, <1>11 DEF Vive

\* scrivi_inode of a file that gave up its blocks.
LEMMA VivaTolto ==
    ASSUME NEW m, NEW T, NEW O, NEW p, NEW o, Vive(m, T, O, p, o, TRUE), Coerenti(m, o),
           o.che = "tronca", o.pc = "inode",
           NEW n, NEW dove, dove = Ino,
           NEW cosa, cosa = SenzaFile(m, o), Cambia(m, n, dove, cosa),
           NEW q, q.che = "tronca", q.pc = "fine"
    PROVE  Vive(n, Con(T, Ino), O, p, q, TRUE) /\ Coerenti(n, q)
<1> USE DEF Con, SenzaFile
<1>c. m = [a \in Posti |-> m[a]] /\ n = [m EXCEPT ![Ino] = {x \in m[Ino] : x[1] # o.f}]
  BY DEF Cambia
<1> USE <1>c
<1>1. /\ Coerente([a \in Posti |-> O[a]]) /\ p = {}
  BY DEF Vive
<1>2. /\ n[Ino] = {x \in m[Ino] : x[1] # o.f}
      /\ \A b \in Dati : n[Bm(Gruppo[b])] = m[Bm(Gruppo[b])] /\ n[Dato(b)] = m[Dato(b)]
  BY Nomi
<1>3. Coerenti(n, q)
  <2>1. ASSUME NEW y \in n[Ino]
        PROVE  /\ y \in File \X Dati
               /\ y[2] \in n[Bm(Gruppo[y[2]])]
               /\ n[Dato(y[2])] = {y[1]}
               /\ \A z \in n[Ino] : z[2] = y[2] => z = y
    <3>1. y \in m[Ino] /\ ~Taglia(o, y)
      BY <1>2 DEF Taglia
    <3>2. /\ y \in File \X Dati /\ y[2] \in m[Bm(Gruppo[y[2]])]
          /\ m[Dato(y[2])] = {y[1]} /\ \A z \in m[Ino] : z[2] = y[2] => z = y
      BY <3>1 DEF Coerenti
    <3> QED  BY <3>2, <1>2
  <2> QED  BY <2>1 DEF Coerenti
<1>4. Messi(n, O, p)
  BY <1>1 DEF Messi
<1> QED  BY <1>1, <1>3, <1>4 DEF Vive, Nuovi

\* libera_blocco: the bitmap of a group without the blocks of the file.
LEMMA VivaToglie ==
    ASSUME NEW m, NEW T, NEW O, NEW p, NEW o, Vive(m, T, O, p, o, TRUE), Coerenti(m, o),
           o.che = "tronca", o.pc = "toglie", NEW g \in Gruppi,
           NEW n, NEW dove, dove = Bm(g),
           NEW cosa, cosa = SenzaBlocchi(m, o, g), Cambia(m, n, dove, cosa),
           NEW q, q.che = "tronca", q.f = o.f, q.pc \in {"libera", "inode"},
           q.pc = "libera" => q.resta # {}
    PROVE  Vive(n, Con(T, Bm(g)), O, p, q, TRUE) /\ Coerenti(n, q)
<1> USE DEF Con, SenzaBlocchi
<1>c. m = [a \in Posti |-> m[a]] /\ n = [m EXCEPT ![Bm(g)] = m[Bm(g)] \ {b \in Dati : <<o.f, b>> \in m[Ino]}]
  BY DEF Cambia
<1> USE <1>c
<1> DEFINE S == {b \in Dati : <<o.f, b>> \in m[Ino]}
<1>1. /\ Coerente([a \in Posti |-> O[a]]) /\ p = {} /\ o.f \in File
  BY DEF Vive
<1>0. Bm(g) \in Posti /\ Ino \in Posti /\ Bm(g) # Ino
  <2>1. PICK b \in Dati : g = Gruppo[b]
    BY DEF Gruppi
  <2> QED  BY <2>1, Nomi
<1>2. /\ n[Ino] = m[Ino]
      /\ \A b \in Dati : b \notin S /\ b \in m[Bm(Gruppo[b])] => b \in n[Bm(Gruppo[b])]
      /\ \A b \in Dati : n[Dato(b)] = m[Dato(b)]
  <2>1. n[Bm(g)] = m[Bm(g)] \ S /\ \A a \in Posti : a # Bm(g) => n[a] = m[a]
    BY <1>0
  <2> HIDE DEF S
  <2> QED  BY <2>1, <1>0, Nomi
<1>3. Coerenti(n, q)
  <2>1. ASSUME NEW y \in n[Ino]
        PROVE  /\ y \in File \X Dati
               /\ Taglia(q, y) \/ y[2] \in n[Bm(Gruppo[y[2]])]
               /\ n[Dato(y[2])] = {y[1]}
               /\ \A z \in n[Ino] : z[2] = y[2] => z = y
    <3>1. /\ y \in File \X Dati /\ (Taglia(o, y) \/ y[2] \in m[Bm(Gruppo[y[2]])])
          /\ m[Dato(y[2])] = {y[1]} /\ \A z \in m[Ino] : z[2] = y[2] => z = y
      BY <1>2 DEF Coerenti
    <3>2. CASE y[1] = o.f
      BY <3>1, <3>2, <1>2 DEF Taglia
    <3>3. CASE y[1] # o.f
      <4>1. y[2] \in m[Bm(Gruppo[y[2]])] /\ y[2] \in Dati
        BY <3>1, <3>3 DEF Taglia
      <4>2. y[2] \notin S
        BY <3>1, <3>3
      <4> QED  BY <3>1, <4>1, <4>2, <1>2
    <3> QED  BY <3>2, <3>3
  <2> QED  BY <2>1 DEF Coerenti
<1>4. Messi(n, O, p)
  BY <1>1 DEF Messi
<1> QED  BY <1>1, <1>3, <1>4 DEF Vive, Nuovi

\* The copies of the transaction are in their places.
LEMMA VivaPosto ==
    ASSUME NEW m, NEW T, NEW O, NEW p, NEW o, NEW l, Vive(m, T, O, p, o, l), Coerenti(m, o),
           o.pc \in {"inizio", "fine", "commit"},
           NEW P, \A a \in Posti : P[a] = m[a],
           NEW U, NEW k, (U = T /\ k = l) \/ U = {}
    PROVE  Vive(m, U, P, p, o, k)
<1>1. Ino \in Posti /\ \A b \in Dati : Bm(Gruppo[b]) \in Posti /\ Dato(b) \in Posti
  BY Nomi
<1>2. P[Ino] = m[Ino] /\ \A b \in Dati : P[Bm(Gruppo[b])] = m[Bm(Gruppo[b])] /\ P[Dato(b)] = m[Dato(b)]
  BY <1>1
<1>3. \A x \in m[Ino] :
         /\ x \in File \X Dati /\ x[2] \in m[Bm(Gruppo[x[2]])]
         /\ m[Dato(x[2])] = {x[1]} /\ \A y \in m[Ino] : y[2] = x[2] => y = x
  BY DEF Coerenti, Taglia
<1>4. Coerente([a \in Posti |-> P[a]])
  <2>1. [a \in Posti |-> P[a]][Ino] = m[Ino]
    BY <1>1, <1>2
  <2>2. \A b \in Dati : /\ [a \in Posti |-> P[a]][Bm(Gruppo[b])] = m[Bm(Gruppo[b])]
                        /\ [a \in Posti |-> P[a]][Dato(b)] = m[Dato(b)]
    BY <1>1, <1>2
  <2> HIDE DEF Coerente
  <2> DEFINE R == [a \in Posti |-> P[a]]
  <2>3. R[Ino] = m[Ino] /\ \A b \in Dati : R[Bm(Gruppo[b])] = m[Bm(Gruppo[b])] /\ R[Dato(b)] = m[Dato(b)]
    BY <2>1, <2>2
  <2> HIDE DEF R
  <2>4. Coerente(R)
    BY <2>3, <1>3 DEF Coerente
  <2> QED  BY <2>4 DEF R
<1>5. ~k => Sotto(m, U, P, o)
  <2>1. \A x \in P[Ino] : x[2] \in m[Bm(Gruppo[x[2]])]
    BY <1>2, <1>3
  <2>2. ~k => \A b \in Dati : Dato(b) \in U =>
         ~Libero(b, m[Ino]) \/ (o.che = "cartella" /\ o.pc = "inode" /\ b = o.b)
    BY DEF Vive, Sotto
  <2> QED  BY <2>1, <2>2 DEF Sotto
<1>6. Messi(m, P, p)
  BY <1>2 DEF Vive, Messi
<1>7. o.che \in Nuovi => Prende(m, P, p, o)
  BY <1>2 DEF Vive, Prende
<1> QED  BY <1>4, <1>5, <1>6, <1>7 DEF Vive

\* The volume as it is found.
LEMMA VivaMonta ==
    ASSUME NEW O, Coerente([a \in Posti |-> O[a]])
    PROVE  /\ Vive([a \in Posti |-> O[a]], {}, O, {}, Niente, FALSE)
           /\ Coerenti([a \in Posti |-> O[a]], Niente)
<1> DEFINE R == [a \in Posti |-> O[a]]
<1>1. R[Ino] = O[Ino] /\ \A b \in Dati : R[Bm(Gruppo[b])] = O[Bm(Gruppo[b])] /\ R[Dato(b)] = O[Dato(b)]
  BY Nomi
<1>2. Coerente(R)
  OBVIOUS
<1> HIDE DEF R
<1>3. Coerenti(R, Niente)
  BY <1>2 DEF Coerenti, Coerente
<1>4. Sotto(R, {}, O, Niente)
  BY <1>1, <1>2 DEF Sotto, Coerente
<1>5. Messi(R, O, {})
  BY DEF Messi
<1>6. Niente.che = "niente"
  BY DEF Niente
<1>7. Vive(R, {}, O, {}, Niente, FALSE)
  BY <1>2, <1>4, <1>5, <1>6 DEF Vive, Nuovi, R
<1> QED  BY <1>3, <1>7 DEF R

\* A call that takes a block begins.
LEMMA VivaPresa ==
    ASSUME NEW m, NEW T, NEW O, NEW p, NEW o, Vive(m, T, O, p, o, FALSE), Coerenti(m, o),
           o = Niente, NEW q, q.f \in File, q.b \in Dati,
           \/ q.che = "coda" /\ q.pc = "inizio"
           \/ q.che = "cartella" /\ q.pc = "chiudi" /\ q.altri = {},
           q.b \notin Resi(m, p, Gruppo[q.b]),
           \A c \in q.altri : /\ c \in Dati /\ Gruppo[c] = Gruppo[q.b] /\ c = q.b + 1
                              /\ c \notin Resi(m, p, Gruppo[q.b])
    PROVE  Vive(m, T, O, p, q, FALSE) /\ Coerenti(m, q)
<1>1. o.che = "niente" /\ o.pc = "no"
  BY DEF Niente
<1>2. Libero(q.b, m[Ino]) /\ Libero(q.b, O[Ino])
  BY <1>1, NonPreso
<1>3. q.altri \cap Resi(m, p, Gruppo[q.b]) = {}
  OBVIOUS
<1>4. Prende(m, O, p, q)
  BY <1>2, <1>3 DEF Prende
<1> QED  BY <1>1, <1>4, Fermi

\* A write to the block set aside for it begins.
LEMMA VivaPrenota ==
    ASSUME NEW m, NEW T, NEW O, NEW p, NEW o, Vive(m, T, O, p, o, FALSE), Coerenti(m, o),
           o = Niente, NEW q, q.che = "prenotato", q.pc = "inizio", <<q.f, q.b>> \in p
    PROVE  Vive(m, T, O, {}, q, FALSE) /\ Coerenti(m, q)
<1>1. o.che = "niente" /\ o.pc = "no"
  BY DEF Niente
<1>2. /\ Coerente([a \in Posti |-> O[a]]) /\ Sotto(m, T, O, o) /\ Messi(m, O, p)
  BY DEF Vive
<1>3. /\ q.f \in File /\ q.b \in Dati /\ q.b \in m[Bm(Gruppo[q.b])]
      /\ Libero(q.b, m[Ino]) /\ Libero(q.b, O[Ino])
  BY <1>2 DEF Messi
<1>4. Prende(m, O, {}, q)
  BY <1>3 DEF Prende
<1>5. Coerenti(m, q)
  BY <1>1 DEF Coerenti, Taglia
<1>6. Sotto(m, T, O, q)
  BY <1>1, <1>2 DEF Sotto
<1>7. Messi(m, O, {})
  BY DEF Messi
<1> QED  BY <1>2, <1>4, <1>5, <1>6, <1>7 DEF Vive

\* A call goes on without a change of the volume.
LEMMA VivaAvanti ==
    ASSUME NEW m, NEW T, NEW O, NEW p, NEW o, NEW l, Vive(m, T, O, p, o, l), Coerenti(m, o),
           NEW q, Poco(o, q), q.resta = o.resta,
           \/ o.che = "prenotato" /\ o.pc = "inizio" /\ q.pc = "dati"
           \/ o.che = "coda" /\ o.pc = "inizio" /\ q.pc = "chiudi"
           \/ o.che = "coda" /\ o.pc = "chiudi" /\ q.pc = "bitmap" /\ p = {}
           \/ o.che = "cartella" /\ o.pc = "chiudi" /\ q.pc = "inizio" /\ p = {}
           \/ o.che = "cartella" /\ o.pc = "inizio" /\ q.pc = "bitmap"
           \/ o.che = "tronca" /\ o.pc = "chiudi" /\ q.pc = "inizio" /\ p = {}
           \/ o.che = "tronca" /\ o.pc = "inizio" /\ q.pc = "libera"
           \/ o.che = "tronca" /\ o.pc = "libera" /\ q.pc = "toglie",
           NEW k, l => k
    PROVE  Vive(m, T, O, p, q, k) /\ Coerenti(m, q)
<1>1. ASSUME q.che \in Nuovi PROVE Prende(m, O, p, q)
  <2>1. Prende(m, O, p, o)
    BY <1>1 DEF Vive, Poco
  <2>2. p = {} => Resi(m, p, Gruppo[o.b]) = m[Bm(Gruppo[o.b])]
    BY DEF Resi
  <2>3. CASE o.che = "prenotato" /\ o.pc = "inizio" /\ q.pc = "dati"
    BY <2>1, <2>3 DEF Prende, Poco
  <2>4. CASE o.che = "coda" /\ o.pc = "inizio" /\ q.pc = "chiudi"
    BY <2>1, <2>4 DEF Prende, Poco
  <2>5. CASE o.che = "coda" /\ o.pc = "chiudi" /\ q.pc = "bitmap" /\ p = {}
    BY <2>1, <2>2, <2>5 DEF Prende, Poco
  <2>6. CASE o.che = "cartella" /\ o.pc = "chiudi" /\ q.pc = "inizio" /\ p = {}
    BY <2>1, <2>2, <2>6 DEF Prende, Poco
  <2>7. CASE o.che = "cartella" /\ o.pc = "inizio" /\ q.pc = "bitmap"
    BY <2>1, <2>2, <2>7 DEF Prende, Poco
  <2> QED  BY <1>1, <2>3, <2>4, <2>5, <2>6, <2>7 DEF Poco, Nuovi
<1>2. q.che = "tronca" => /\ q.pc # "chiudi" => p = {}
                          /\ q.pc # "fine" => q.f \in File
                          /\ q.pc \notin {"inode", "fine"} => q.resta # {}
  BY DEF Vive, Poco
<1> QED  BY <1>1, <1>2, Fermi DEF Poco

\* A call that is over, or does not touch the volume.
LEMMA VivaFine ==
    ASSUME NEW m, NEW T, NEW O, NEW p, NEW o, NEW l, Vive(m, T, O, p, o, l), Coerenti(m, o),
           o.pc \notin {"libera", "toglie", "inode"},
           NEW q, q.che \notin Nuovi, q.che # "tronca" \/ (q.pc = "chiudi" /\ q.f \in File /\ q.resta # {})
    PROVE  Vive(m, T, O, p, q, l) /\ Coerenti(m, q)
BY Fermi

-----------------------------------------------------------------------------
(* Where a call is and where it goes.                                      *)

Ind ==
    /\ Controllo /\ Spazio
    /\ Retto(duro, attesa, ora) /\ Tagliabile(duro, attesa, ora) /\ Letto
    /\ DiscoMontato /\ DiscoInMonta /\ VivaC /\ VivaV

OltreDi(o) ==
    LET pc == Poi[o.che][o.pc]
    IN  IF pc = "no" THEN Niente ELSE [o EXCEPT !.pc = pc]

LEMMA NienteTipo ==
    /\ Niente \in Opere /\ TipoOp(Niente)
    /\ Niente.che = "niente" /\ Niente.pc = "no" /\ Niente.altri = {} /\ Niente.resta = {}
    /\ Niente.f = Nessuno /\ Niente.b = Nessuno
BY DEF Niente, Opere, TipoOp, Nomate, Punti

\* The calls that may be at a place.
LEMMA Luoghi ==
    ASSUME NEW o, TipoOp(o)
    PROVE  /\ o.pc = "no" <=> o = Niente
           /\ o.che = "niente" <=> o = Niente
           /\ o.pc = "bitmap" => o.che \in {"coda", "cartella"}
           /\ o.pc = "dir" => o.che = "cartella"
           /\ o.pc = "dati" => o.che \in {"coda", "prenotato"}
           /\ o.pc = "inode" => o.che \in {"coda", "prenotato", "cartella", "tronca"}
           /\ o.pc \in {"libera", "toglie"} => o.che = "tronca"
           /\ o.pc = "torna" => o.che = "sync"
           /\ o.pc = "lascia" => o.che = "fsync"
           /\ o.pc = "smontato" => o.che = "smonta"
           /\ o.pc \in {"montato", "replay", "jsb", "flushjsb"} => o.che = "monta"
           /\ o.pc = "commit" => o.che \in {"tempo", "sync", "fsync", "smonta"}
           /\ o.pc = "inizio" => o.che \in {"coda", "prenotato", "cartella", "tronca"}
           /\ o.pc = "fine" => o.che \in {"coda", "prenotato", "cartella", "tronca", "perso"}
           /\ o.pc = "chiudi" => o.che \in {"coda", "perso", "cartella", "tronca", "chiudi",
                                            "sync", "fsync", "smonta"}
           /\ o.pc = "flush" => o.che \in {"sync", "smonta", "monta"}
           /\ o.pc \in {"sb", "flushsb"} => o.che \in {"smonta", "monta"}
<1>1. Niente.che = "niente" /\ Niente.pc = "no"
  BY NienteTipo
<1> QED  BY <1>1 DEF TipoOp

LEMMA VaOltre ==
    ASSUME NEW o, TipoOp(o), o # Niente, NEW q, q = OltreDi(o)
    PROVE  /\ TipoOp(q)
           /\ Poi[o.che][o.pc] = "no" => q = Niente
           /\ Poi[o.che][o.pc] # "no" =>
                /\ Poco(o, q) /\ q.resta = o.resta /\ q.pc = Poi[o.che][o.pc] /\ q # Niente
<1> DEFINE p == Poi[o.che][o.pc]
<1>0. o \in Opere
  BY DEF TipoOp
<1>1. CASE p = "no"
  BY <1>1, NienteTipo DEF OltreDi
<1>2. CASE p # "no"
  <2>1. q = [o EXCEPT !.pc = p]
    BY <1>2 DEF OltreDi
  <2>2. \/ o.che = "prenotato" /\ o.pc \in {"inizio", "dati", "inode"} /\ p \in {"dati", "inode", "fine"}
        \/ o.che = "coda" /\ o.pc \in {"inizio", "chiudi", "bitmap", "dati", "inode"}
             /\ p \in {"chiudi", "bitmap", "dati", "inode", "fine"}
        \/ o.che = "perso" /\ p = "fine"
        \/ o.che = "cartella" /\ p \in {"inizio", "bitmap", "dir", "inode", "fine"}
        \/ o.che = "tronca" /\ p \in {"inizio", "libera", "toglie", "inode", "fine"}
        \/ o.che = "sync" /\ p \in {"commit", "flush", "torna"}
        \/ o.che = "fsync" /\ p \in {"commit", "lascia"}
        \/ o.che = "smonta" /\ p \in {"commit", "flush", "sb", "flushsb", "smontato"}
        \/ o.che = "monta" /\ p \in {"flush", "jsb", "flushjsb", "sb", "flushsb", "montato"}
    <3>1. \/ o.che = "prenotato" /\ o.pc \in {"inizio", "dati", "inode", "fine"}
          \/ o.che = "coda"      /\ o.pc \in {"inizio", "chiudi", "bitmap", "dati", "inode", "fine"}
          \/ o.che = "perso"     /\ o.pc \in {"chiudi", "fine"}
          \/ o.che = "cartella"  /\ o.pc \in {"chiudi", "inizio", "bitmap", "dir", "inode", "fine"}
          \/ o.che = "tronca"    /\ o.pc \in {"chiudi", "inizio", "libera", "toglie", "inode", "fine"}
          \/ o.che = "chiudi"    /\ o.pc = "chiudi"
          \/ o.che = "tempo"     /\ o.pc = "commit"
          \/ o.che = "sync"      /\ o.pc \in {"chiudi", "commit", "flush", "torna"}
          \/ o.che = "fsync"     /\ o.pc \in {"chiudi", "commit", "lascia"}
          \/ o.che = "smonta"    /\ o.pc \in {"chiudi", "commit", "flush", "sb", "flushsb", "smontato"}
          \/ o.che = "monta"     /\ o.pc \in {"replay", "flush", "jsb", "flushjsb", "sb", "flushsb", "montato"}
      BY DEF TipoOp
    <3> QED  BY <3>1, <1>2, Tavola
  <2>3. p \in Punti /\ p # "no"
    <3> HIDE DEF p
    <3> QED  BY <2>2 DEF Punti
  <2> HIDE DEF p
  <2>4. /\ q \in Opere /\ q.che = o.che /\ q.pc = p /\ q.f = o.f /\ q.b = o.b
        /\ q.altri = o.altri /\ q.resta = o.resta
    BY <2>1, <2>3, <1>0 DEF Opere
  <2>5. q # Niente
    BY <2>3, <2>4, NienteTipo
  <2>6. TipoOp(q)
    BY <2>2, <2>4 DEF TipoOp
  <2> QED  BY <2>4, <2>5, <2>6, <1>2 DEF Poco, p
<1> QED  BY <1>1, <1>2

LEMMA OltreOp == Oltre = OltreDi(op)
BY DEF Oltre, OltreDi

\* A call of the file system, given by its fields.
LEMMA Chiamate ==
    ASSUME NEW c \in Nomate, NEW w \in Punti, NEW f \in File \cup {Nessuno}, NEW b \in Dati \cup {Nessuno},
           NEW A \in SUBSET Dati, NEW R \in SUBSET Gruppi, NEW o,
           o = [Chiamata(c, w) EXCEPT !.f = f, !.b = b, !.altri = A, !.resta = R]
    PROVE  /\ o \in Opere /\ o.che = c /\ o.pc = w /\ o.f = f /\ o.b = b /\ o.altri = A /\ o.resta = R
BY DEF Chiamata, Niente, Opere

LEMMA Semplici ==
    ASSUME NEW c \in Nomate, NEW w \in Punti, NEW o, o = Chiamata(c, w)
    PROVE  /\ o \in Opere /\ o.che = c /\ o.pc = w /\ o.f = Nessuno /\ o.b = Nessuno
           /\ o.altri = {} /\ o.resta = {}
BY DEF Chiamata, Niente, Opere

(* The control part, by what a step may change.                            *)

\* Mounted and no commit failed: a call goes on to another place, with more
\* in the transaction or the same.
LEMMA ControlloVa ==
    ASSUME Controllo, fase = "montato", ~guasto, fase' = fase, guasto' = guasto,
           stadio = "no", stadio' = "no", TipoOp(op'), op'.che # "monta",
           Fila(slot'), Transazione(slot'), slot # <<>> => slot' # <<>>,
           seq' \in Nat, liberati' \in BOOLEAN,
           liberati' => op'.che = "tronca" /\ op'.pc \in {"libera", "toglie", "inode", "fine"},
           op'.che = "tronca" /\ op'.pc \in {"toglie", "inode"} => liberati',
           liberati' /\ op'.pc = "fine" => slot' # <<>>,
           op'.che = "sync" /\ op'.pc \in {"flush", "torna"} => slot' = <<>>,
           promesso' \in BOOLEAN, promesso' => op' = Niente /\ slot' = <<>> /\ attesa' = Pulita
    PROVE  Controllo'
BY DEF Controllo

-----------------------------------------------------------------------------
(* What follows from the stage a mounted volume is in.                     *)

Base ==
    /\ Controllo /\ Spazio /\ Retto(duro, attesa, ora)
    /\ DiscoMontato /\ DiscoInMonta /\ VivaC /\ VivaV

\* Between two operations, and in a commit, all that is seen is what there is.
LEMMA VistoFermo ==
    fase = "montato" /\ TipoOp(op) /\ op.pc \in {"no", "inizio", "fine", "commit", "smontato", "lascia"}
      => Visto = [a \in Meta |-> Vista(a)]
<1> SUFFICES ASSUME fase = "montato", TipoOp(op),
                    op.pc \in {"no", "inizio", "fine", "commit", "smontato", "lascia"}
             PROVE  Visto = [a \in Meta |-> Vista(a)]
  OBVIOUS
<1>1. ~Dentro
  <2>1. op = Niente => op.che = "niente"
    BY NienteTipo
  <2> QED  BY <2>1, Luoghi DEF Dentro
<1>2. \A g : BitmapNuova(g) = Vista(Bm(g))
  BY <1>1 DEF BitmapNuova
<1>3. \A a \in Meta : a = Ino \/ a = Bm(a[2])
  BY Nomi DEF Bm
<1>4. \A a \in Meta : (IF a # Ino THEN BitmapNuova(a[2])
                       ELSE IF Dentro THEN InodeNuovo ELSE Vista(Ino)) = Vista(a)
  BY <1>1, <1>2, <1>3
<1> QED  BY <1>4 DEF Visto

LEMMA CoerenteSe ==
    ASSUME NEW m, NEW o, Coerenti(m, o), o.pc \notin {"libera", "toglie", "inode"},
           m = [a \in Posti |-> m[a]]
    PROVE  Coerente(m) /\ Coerente([a \in Posti |-> m[a]])
<1>1. Coerente(m)
  BY DEF Coerente, Coerenti, Taglia
<1> QED  BY <1>1

LEMMA VedutaForma ==
    ASSUME NEW t, NEW O
    PROVE  Veduta(t, O) = [a \in Posti |-> Veduta(t, O)[a]]
BY DEF Veduta

LEMMA Dedotto ==
    Base /\ fase = "montato" /\ ~guasto =>
      /\ Tagliabile(duro, attesa, ora)
      /\ Letto
      /\ stadio \in {"no", "copie", "prima", "sigillo"} =>
           Recuperato(ora) = Recuperato(duro) /\ Recuperato(duro) = [a \in Meta |-> ora[a]]
      /\ stadio \notin {"no", "copie", "prima", "sigillo"} =>
           Recuperato(ora) = [a \in Meta |-> Vista(a)]
      /\ Coerente([a \in Posti |-> ora[a]])
<1> SUFFICES ASSUME Base, fase = "montato", ~guasto
             PROVE  /\ Tagliabile(duro, attesa, ora)
                    /\ Letto
                    /\ stadio \in {"no", "copie", "prima", "sigillo"} =>
                         Recuperato(ora) = Recuperato(duro) /\ Recuperato(duro) = [a \in Meta |-> ora[a]]
                    /\ stadio \notin {"no", "copie", "prima", "sigillo"} =>
                         Recuperato(ora) = [a \in Meta |-> Vista(a)]
                    /\ Coerente([a \in Posti |-> ora[a]])
  OBVIOUS
<1> DEFINE m == Veduta(slot, ora)
<1>1. /\ Coerente([a \in Posti |-> ora[a]]) /\ Retto(duro, attesa, ora)
      /\ seq \in Nat /\ Transazione(slot) /\ Coerenti(m, op) /\ TipoOp(op)
  BY VistaVede DEF Base, Controllo, VivaC, VivaV, Vive
<1>2. Puo(duro, duro, attesa) /\ Puo(ora, duro, attesa)
  BY <1>1, PuoSe
<1>3. Sopra(ora, slot, m)
  BY <1>1, VedutaSopra
<1>4. CASE stadio \in {"no", "copie"}
  <2>1. Riposo(duro, attesa, ora, seq)
    BY <1>4 DEF Base, DiscoMontato
  <2>2. /\ Recuperato(ora) = [a \in Meta |-> ora[a]] /\ Recuperato(duro) = [a \in Meta |-> ora[a]]
        /\ Tagliabile(duro, attesa, ora)
    BY <2>1, <1>1, <1>2, TagliaRiposo
  <2> QED  BY <2>2, <1>1, <1>4 DEF Letto
<1>5. CASE stadio \in {"prima", "sigillo"}
  <2>1. DopoCopie(duro, attesa, ora, seq)
    BY <1>5 DEF Base, DiscoMontato
  <2>2. /\ Recuperato(ora) = [a \in Meta |-> ora[a]] /\ Recuperato(duro) = [a \in Meta |-> ora[a]]
        /\ Tagliabile(duro, attesa, ora)
    BY <2>1, <1>1, <1>2, TagliaCopie
  <2> QED  BY <2>2, <1>1, <1>5 DEF Letto
<1>6. CASE stadio \in {"seconda", "posti", "terza", "vuota"}
  <2>1. op.pc \in {"inizio", "fine", "commit"}
    BY <1>6 DEF Base, Controllo
  <2>2. Visto = [a \in Meta |-> Vista(a)]
    BY <2>1, <1>1, VistoFermo
  <2>3. Coerente([a \in Posti |-> m[a]])
    BY <2>1, <1>1, CoerenteSe, VedutaForma
  <2>4. [a \in Meta |-> m[a]] = [a \in Meta |-> Vista(a)]
    <3>1. \A a \in Meta : m[a] = Vista(a)
      BY VistaVede, Nomi DEF Visione
    <3> QED  BY <3>1
  <2> HIDE DEF m
  <2>5. Recuperato(ora) = [a \in Meta |-> m[a]] /\ Tagliabile(duro, attesa, ora)
    <3>1. CASE stadio = "seconda"
      <4>1. DopoSigillo(duro, attesa, ora, slot, seq)
        BY <3>1 DEF Base, DiscoMontato
      <4> QED  BY <4>1, <1>1, <1>3, <2>3, TagliaSigillo
    <3>2. CASE stadio # "seconda"
      <4>1. DopoPosti(duro, attesa, ora, slot, seq)
        BY <3>2, <1>6 DEF Base, DiscoMontato
      <4> QED  BY <4>1, <1>1, <1>2, <1>3, <2>3, TagliaPosti
    <3> QED  BY <3>1, <3>2
  <2> QED  BY <2>2, <2>4, <2>5, <1>1, <1>6 DEF Letto
<1>7. stadio \in {"no", "copie", "prima", "sigillo", "seconda", "posti", "terza", "vuota"}
  BY DEF Base, Controllo
<1> QED  BY <1>4, <1>5, <1>6, <1>7

LEMMA DedottoDopo == (Base /\ fase = "montato" /\ ~guasto => Ind)'
<1>1. Base /\ fase = "montato" /\ ~guasto => Ind
  BY Dedotto DEF Base, Ind
<1> QED  BY <1>1, PTL

LEMMA DedottoPoi ==
    ASSUME Base', fase' = "montato", ~guasto'
    PROVE  Ind'
BY DedottoDopo

\* A step that does not touch the disk, in a volume that is mounted and well.
LEMMA SenzaDisco ==
    ASSUME Ind, fase = "montato", ~guasto, UNCHANGED <<disco, fase, guasto, seq>>,
           stadio = "no", stadio' \in {"no", "copie"},
           op.pc \notin {"sb", "flushsb", "smontato"},
           op'.pc \notin {"sb", "flushsb", "smontato", "torna"},
           Controllo', Spazio', Coerenti(Veduta(slot', ora), op'),
           Vive(Veduta(slot', ora), Presenti(slot'), ora, pre', op', liberati')
    PROVE  Ind'
<1>1. duro' = duro /\ attesa' = attesa /\ ora' = ora /\ fase' = fase /\ guasto' = guasto /\ seq' = seq
  BY DEF disco
<1>2. Retto(duro, attesa, ora)'
  BY <1>1 DEF Ind, Retto, TipoDisco, Puo
<1>3. VivaC' /\ VivaV'
  <2>1. Visione' = Veduta(slot', ora) /\ Tenuti' = Presenti(slot')
    BY <1>1, VistaVedePoi
  <2>2. Coerenti(Visione', op') /\ Vive(Visione', Tenuti', ora', pre', op', liberati')
    BY <2>1, <1>1
  <2>3. Coerenti(Visione, op)' /\ Vive(Visione, Tenuti, ora, pre, op, liberati)'
    BY <2>2 DEF Coerenti, Vive, Sotto, Messi, Prende, Coerente, Taglia, Libero, Resi
  <2> QED  BY <2>3 DEF VivaC, VivaV
<1>4. DiscoMontato'
  <2>1. /\ Riposo(duro, attesa, ora, seq) /\ attesa[Sb] = {} /\ duro[Sb]
    BY DEF Ind, DiscoMontato
  <2>2. Riposo(duro', attesa', ora', seq')
    BY <2>1, <1>1
  <2>3. Riposo(duro, attesa, ora, seq)'
    BY <2>2 DEF Riposo, Asciutti, Importanti
  <2> QED  BY <1>1, <2>1, <2>3 DEF DiscoMontato
<1>5. DiscoInMonta'
  BY <1>1 DEF DiscoInMonta
<1>6. Base'
  BY <1>2, <1>3, <1>4, <1>5 DEF Base
<1> QED  BY <1>1, <1>6, DedottoPoi

LEMMA VistoVeduta ==
    fase = "montato" /\ TipoOp(op) /\ op.pc \in {"no", "inizio", "fine", "commit", "smontato", "lascia"}
      => Visto = [a \in Meta |-> Veduta(slot, ora)[a]]
<1>1. \A a \in Meta : Vista(a) = Veduta(slot, ora)[a]
  BY VistaVede, Nomi DEF Visione
<1>2. [a \in Meta |-> Vista(a)] = [a \in Meta |-> Veduta(slot, ora)[a]]
  BY <1>1
<1> QED  BY <1>2, VistoFermo

LEMMA VistoVedutaDopo ==
    (fase = "montato" /\ TipoOp(op) /\ op.pc \in {"no", "inizio", "fine", "commit", "smontato", "lascia"}
      => Visto = [a \in Meta |-> Veduta(slot, ora)[a]])'
BY VistoVeduta, PTL

LEMMA VistoPoi ==
    ASSUME fase' = "montato", TipoOp(op'), op'.pc \in {"no", "inizio", "fine", "commit", "smontato", "lascia"}
    PROVE  Visto' = [a \in Meta |-> Veduta(slot', ora')[a]]
<1>1. TipoOp(op)'
  BY DEF TipoOp
<1>2. (Visto = [a \in Meta |-> Veduta(slot, ora)[a]])'
  BY <1>1, VistoVedutaDopo
<1>3. \A a : (Veduta(slot, ora)[a])' = Veduta(slot', ora')[a]
  BY DEF Veduta, Vede
<1> QED  BY <1>2, <1>3

LEMMA TipoPoi == ASSUME TipoOp(op') PROVE TipoOp(op)'
BY DEF TipoOp

\* A call begins, in a volume that is mounted and well.
LEMMA Comincia ==
    ASSUME Ind, fase = "montato", op = Niente, ~guasto,
           UNCHANGED <<disco, fase, slot, seq, liberati, guasto, stadio>>, promesso' = FALSE,
           TipoOp(op'), op'.pc \in {"inizio", "chiudi", "commit"}, op'.che # "monta",
           op'.pc = "chiudi" => op'.che \notin {"coda", "perso"},
           pre' = pre \/ pre' = {},
           Coerenti(Veduta(slot, ora), op'),
           Vive(Veduta(slot, ora), Presenti(slot), ora, pre', op', FALSE)
    PROVE  Ind'
<1>1. /\ fase' = fase /\ slot' = slot /\ seq' = seq /\ liberati' = liberati /\ guasto' = guasto
      /\ stadio' = stadio
  OBVIOUS
<1>2. op.pc = "no" /\ op.che = "niente"
  BY NienteTipo
<1>3. stadio = "no" /\ Controllo /\ Spazio /\ Fila(slot) /\ Transazione(slot) /\ seq \in Nat
  BY <1>2 DEF Ind, Controllo
<1>4. liberati = FALSE
  BY <1>2 DEF Ind, Controllo
<1>5. Controllo'
  BY <1>1, <1>3, <1>4, ControlloVa
<1>6. ~Avviata(op')
  BY DEF Avviata
<1>7. Spazio'
  <2>1. pre # {} => 2 * Len(slot) < MaxSlot
    BY <1>2, <1>3 DEF Spazio, Avviata
  <2>2. pre' # {} => 2 * Len(slot) < MaxSlot
    BY <2>1
  <2>3. ~Avviata(op)'
    BY <1>6 DEF Avviata
  <2> QED  BY <1>1, <2>2, <2>3 DEF Spazio
<1> QED  BY <1>1, <1>2, <1>3, <1>4, <1>5, <1>7, SenzaDisco

\* After a failed commit only unmount and fsync still come.
LEMMA GuastoFermo ==
    ASSUME Ind, fase = "montato", guasto,
           UNCHANGED <<disco, fase, slot, seq, liberati, guasto, stadio>>, promesso' = FALSE,
           op' \in {Niente, Chiamata("smonta", "smontato"), Chiamata("fsync", "lascia")}
    PROVE  Ind'
<1>1. /\ fase' = fase /\ slot' = slot /\ seq' = seq /\ liberati' = liberati /\ guasto' = guasto
      /\ stadio' = stadio /\ duro' = duro /\ attesa' = attesa /\ ora' = ora
  BY DEF disco
<1>2. ASSUME NEW o \in {Niente, Chiamata("smonta", "smontato"), Chiamata("fsync", "lascia")}
      PROVE  TipoOp(o) /\ o.pc \in {"no", "smontato", "lascia"} /\ o.che \in {"niente", "smonta", "fsync"}
             /\ ~Avviata(o)
  <2>1. CASE o = Niente
    BY <2>1, NienteTipo DEF Avviata
  <2>2. CASE o = Chiamata("smonta", "smontato")
    <3>1. o \in Opere /\ o.che = "smonta" /\ o.pc = "smontato"
      BY <2>2, Semplici DEF Nomate, Punti
    <3> QED  BY <3>1 DEF TipoOp, Avviata
  <2>3. CASE o = Chiamata("fsync", "lascia")
    <3>1. o \in Opere /\ o.che = "fsync" /\ o.pc = "lascia"
      BY <2>3, Semplici DEF Nomate, Punti
    <3> QED  BY <3>1 DEF TipoOp, Avviata
  <2> QED  BY <2>1, <2>2, <2>3
<1>3. op \in {Niente, Chiamata("smonta", "smontato"), Chiamata("fsync", "lascia")}
  BY DEF Ind, Controllo
<1>4. stadio = "no"
  BY DEF Ind, Controllo
<1>5. Controllo'
  <2>1. /\ TipoOp(op') /\ op'.pc \in {"no", "smontato", "lascia"}
        /\ op'.che \in {"niente", "smonta", "fsync"}
    BY <1>2
  <2>2. TipoOp(op)'
    BY <2>1, TipoPoi
  <2>3. Fila(slot') /\ Transazione(slot') /\ seq \in Nat /\ liberati \in BOOLEAN
    BY <1>1 DEF Ind, Controllo
  <2>4. Fila(slot)' /\ Transazione(slot)'
    BY <2>3 DEF Fila, Transazione
  <2>5. promesso' \in BOOLEAN /\ ~promesso'
    OBVIOUS
  <2> QED  BY <1>1, <1>4, <2>1, <2>2, <2>3, <2>4, <2>5 DEF Controllo
<1>6. Spazio' /\ DiscoMontato' /\ VivaV'
  BY <1>1 DEF Spazio, DiscoMontato, VivaV
<1>7. DiscoInMonta'
  BY <1>1 DEF DiscoInMonta
<1>8. Retto(duro, attesa, ora)' /\ Tagliabile(duro, attesa, ora)'
  BY <1>1 DEF Ind, Retto, TipoDisco, Puo, Tagliabile
<1>9. VivaC'
  <2>1. Visione' = Visione
    BY <1>1, VistaVede, VistaVedePoi
  <2>2. Coerenti(Visione, op)
    BY DEF Ind, VivaC
  <2>3. Coerenti(Visione, op')
    BY <2>2, <1>2, <1>3 DEF Coerenti, Taglia
  <2>4. Coerenti(Visione, op)'
    BY <2>1, <2>3 DEF Coerenti, Taglia
  <2> QED  BY <2>4 DEF VivaC
<1>10. Letto'
  <2>1. Visto = [a \in Meta |-> Veduta(slot, ora)[a]]
    BY <1>2, <1>3, VistoVeduta
  <2>2. Visto' = [a \in Meta |-> Veduta(slot', ora')[a]]
    BY <1>1, <1>2, VistoPoi
  <2>3. Visto' = Visto
    BY <1>1, <2>1, <2>2
  <2>4. Recuperato(ora)' = Recuperato(ora) /\ Recuperato(duro)' = Recuperato(duro)
    BY <1>1 DEF Recuperato, Rileggi, passo, DaRipristinare
  <2> QED  BY <2>3, <2>4 DEF Ind, Letto
<1> QED  BY <1>5, <1>6, <1>7, <1>8, <1>9, <1>10 DEF Ind

\* The volume as it is seen, in a volume that is mounted and well.
LEMMA VivaOra ==
    ASSUME Ind, fase = "montato", ~guasto
    PROVE  /\ Vive(Veduta(slot, ora), Presenti(slot), ora, pre, op, liberati)
           /\ Coerenti(Veduta(slot, ora), op)
           /\ Veduta(slot, ora) = [a \in Posti |-> Veduta(slot, ora)[a]]
           /\ \A a \in Posti : Vista(a) = Veduta(slot, ora)[a]
           /\ \A b \in Dati : Vista(Bm(Gruppo[b])) = Veduta(slot, ora)[Bm(Gruppo[b])]
           /\ \A b \in Dati : Presi(Gruppo[b]) = Resi(Veduta(slot, ora), pre, Gruppo[b])
           /\ Vista(Ino) = Veduta(slot, ora)[Ino]
           /\ \A f : Suoi(f) = {b \in Dati : <<f, b>> \in Veduta(slot, ora)[Ino]}
           /\ Controllo /\ TipoOp(op) /\ Fila(slot) /\ Transazione(slot) /\ seq \in Nat
           /\ Retto(duro, attesa, ora)
           /\ Coerente([a \in Posti |-> ora[a]])
<1>1. /\ Vive(Veduta(slot, ora), Presenti(slot), ora, pre, op, liberati)
      /\ Coerenti(Veduta(slot, ora), op)
  BY VistaVede DEF Ind, VivaC, VivaV
<1>2. \A a \in Posti : Vista(a) = Veduta(slot, ora)[a]
  BY VistaVede DEF Visione
<1>3. /\ \A b \in Dati : Vista(Bm(Gruppo[b])) = Veduta(slot, ora)[Bm(Gruppo[b])]
      /\ Vista(Ino) = Veduta(slot, ora)[Ino]
  BY <1>2, Nomi
<1>4. \A b \in Dati : Presi(Gruppo[b]) = Resi(Veduta(slot, ora), pre, Gruppo[b])
  BY <1>3 DEF Presi, Resi
<1>5. \A f : Suoi(f) = {b \in Dati : <<f, b>> \in Veduta(slot, ora)[Ino]}
  BY <1>3 DEF Suoi
<1>6. /\ Controllo /\ TipoOp(op) /\ Fila(slot) /\ Transazione(slot) /\ seq \in Nat
      /\ Retto(duro, attesa, ora)
  BY DEF Ind, Controllo
<1>7. Coerente([a \in Posti |-> ora[a]])
  BY <1>1 DEF Vive
<1> QED  BY <1>1, <1>2, <1>3, <1>4, <1>5, <1>6, <1>7, VedutaForma

LEMMA PassoCall ==
    ASSUME Ind, Pronto
    PROVE  /\ fase = "montato" /\ op = Niente /\ ~guasto /\ liberati = FALSE
           /\ Vive(Veduta(slot, ora), Presenti(slot), ora, pre, op, FALSE)
           /\ Coerenti(Veduta(slot, ora), op)
<1>1. fase = "montato" /\ op = Niente /\ ~guasto
  BY DEF Pronto
<1>2. liberati = FALSE
  BY <1>1, NienteTipo DEF Ind, Controllo
<1> QED  BY <1>1, <1>2, VivaOra

LEMMA PassoPrenotato ==
    ASSUME Ind, NEW f \in File, ScriviPrenotato(f)
    PROVE  Ind'
<1>1. Pronto
  BY DEF ScriviPrenotato
<1>2. PICK b \in Dati :
          /\ <<f, b>> \in pre
          /\ Chiama([Chiamata("prenotato", "inizio") EXCEPT !.f = f, !.b = b])
  BY DEF ScriviPrenotato
<1>3. /\ op' \in Opere /\ op'.che = "prenotato" /\ op'.pc = "inizio" /\ op'.f = f /\ op'.b = b
  <2>1. op' = [Chiamata("prenotato", "inizio") EXCEPT !.f = f, !.b = b]
    BY <1>2 DEF Chiama
  <2> QED  BY <2>1 DEF Chiamata, Niente, Opere, Nomate, Punti
<1>4. TipoOp(op')
  BY <1>3 DEF TipoOp
<1>5. pre' = {}
  BY DEF ScriviPrenotato
<1>6. /\ Vive(Veduta(slot, ora), Presenti(slot), ora, {}, op', FALSE)
      /\ Coerenti(Veduta(slot, ora), op')
  BY <1>1, <1>2, <1>3, PassoCall, VivaPrenota
<1>7. UNCHANGED <<disco, fase, slot, seq, liberati, guasto, stadio>> /\ promesso' = FALSE
  BY <1>2 DEF Chiama
<1> QED  BY <1>1, <1>3, <1>4, <1>5, <1>6, <1>7, PassoCall, Comincia

LEMMA PassoCoda ==
    ASSUME Ind, NEW f \in File, ScriviInCoda(f)
    PROVE  Ind'
<1>1. Pronto /\ pre' = pre
  BY DEF ScriviInCoda
<1>0. PICK b \in Dati :
         \E A \in SUBSET {c \in Dati : /\ c = b + 1 /\ Gruppo[c] = Gruppo[b]
                                       /\ c \notin Presi(Gruppo[b])} :
          /\ PrimoLibero(b)
          /\ Chiama([Chiamata("coda", "inizio") EXCEPT !.f = f, !.b = b, !.altri = A])
  BY DEF ScriviInCoda
<1>2. PICK A \in SUBSET {c \in Dati : /\ c = b + 1 /\ Gruppo[c] = Gruppo[b]
                                      /\ c \notin Presi(Gruppo[b])} :
          /\ PrimoLibero(b)
          /\ Chiama([Chiamata("coda", "inizio") EXCEPT !.f = f, !.b = b, !.altri = A])
  BY <1>0
<1>3. A \in SUBSET Dati
  OBVIOUS
<1>4. /\ op' \in Opere /\ op'.che = "coda" /\ op'.pc = "inizio" /\ op'.f = f /\ op'.b = b
      /\ op'.altri = A
  <2>1. op' = [Chiamata("coda", "inizio") EXCEPT !.f = f, !.b = b, !.altri = A]
    BY <1>2 DEF Chiama
  <2> QED  BY <2>1, <1>3 DEF Chiamata, Niente, Opere, Nomate, Punti
<1>5. TipoOp(op')
  BY <1>4 DEF TipoOp
<1>6. /\ b \notin Resi(Veduta(slot, ora), pre, Gruppo[b])
      /\ \A c \in A : /\ c \in Dati /\ Gruppo[c] = Gruppo[b] /\ c = b + 1
                      /\ c \notin Resi(Veduta(slot, ora), pre, Gruppo[b])
  BY <1>1, <1>2, VivaOra DEF PrimoLibero, Pronto
<1>7. /\ Vive(Veduta(slot, ora), Presenti(slot), ora, pre, op', FALSE)
      /\ Coerenti(Veduta(slot, ora), op')
  BY <1>1, <1>4, <1>6, PassoCall, VivaPresa
<1>8. UNCHANGED <<disco, fase, slot, seq, liberati, guasto, stadio>> /\ promesso' = FALSE
  BY <1>2 DEF Chiama
<1> QED  BY <1>1, <1>4, <1>5, <1>7, <1>8, PassoCall, Comincia

LEMMA PassoCartella ==
    ASSUME Ind, NEW f \in File, CreaCartella(f)
    PROVE  Ind'
<1>1. Pronto /\ pre' = pre
  BY DEF CreaCartella
<1>2. PICK b \in Dati :
          /\ PrimoLibero(b)
          /\ Chiama([Chiamata("cartella", "chiudi") EXCEPT !.f = f, !.b = b])
  BY DEF CreaCartella
<1>4. /\ op' \in Opere /\ op'.che = "cartella" /\ op'.pc = "chiudi" /\ op'.f = f /\ op'.b = b
      /\ op'.altri = {}
  <2>1. op' = [Chiamata("cartella", "chiudi") EXCEPT !.f = f, !.b = b]
    BY <1>2 DEF Chiama
  <2> QED  BY <2>1 DEF Chiamata, Niente, Opere, Nomate, Punti
<1>5. TipoOp(op')
  BY <1>4 DEF TipoOp
<1>6. b \notin Resi(Veduta(slot, ora), pre, Gruppo[b])
  BY <1>1, <1>2, VivaOra DEF PrimoLibero, Pronto
<1>7. /\ Vive(Veduta(slot, ora), Presenti(slot), ora, pre, op', FALSE)
      /\ Coerenti(Veduta(slot, ora), op')
  BY <1>1, <1>4, <1>6, PassoCall, VivaPresa
<1>8. UNCHANGED <<disco, fase, slot, seq, liberati, guasto, stadio>> /\ promesso' = FALSE
  BY <1>2 DEF Chiama
<1> QED  BY <1>1, <1>4, <1>5, <1>7, <1>8, PassoCall, Comincia

LEMMA PassoTronca ==
    ASSUME Ind, NEW f \in File, Tronca(f)
    PROVE  Ind'
<1> DEFINE R == {Gruppo[b] : b \in Suoi(f)}
<1>1. Pronto /\ pre' = pre /\ Suoi(f) # {}
  BY DEF Tronca
<1>2. Chiama([Chiamata("tronca", "chiudi") EXCEPT !.f = f, !.resta = R])
  BY DEF Tronca
<1>3. R \in SUBSET Gruppi /\ R # {}
  BY <1>1 DEF Gruppi, Suoi
<1> HIDE DEF R
<1>4. /\ op' \in Opere /\ op'.che = "tronca" /\ op'.pc = "chiudi" /\ op'.f = f /\ op'.resta = R
  <2>1. op' = [Chiamata("tronca", "chiudi") EXCEPT !.f = f, !.resta = R]
    BY <1>2 DEF Chiama
  <2> QED  BY <2>1, <1>3 DEF Chiamata, Niente, Opere, Nomate, Punti
<1>5. TipoOp(op')
  BY <1>4 DEF TipoOp
<1>7. /\ Vive(Veduta(slot, ora), Presenti(slot), ora, pre, op', FALSE)
      /\ Coerenti(Veduta(slot, ora), op')
  BY <1>1, <1>3, <1>4, PassoCall, VivaFine, NienteTipo DEF Nuovi
<1>8. UNCHANGED <<disco, fase, slot, seq, liberati, guasto, stadio>> /\ promesso' = FALSE
  BY <1>2 DEF Chiama
<1> QED  BY <1>1, <1>4, <1>5, <1>7, <1>8, PassoCall, Comincia

LEMMA PassoSemplice ==
    ASSUME Ind, fase = "montato", op = Niente, ~guasto,
           NEW c \in {"chiudi", "tempo", "sync", "smonta", "fsync"},
           op' = Chiamata(c, IF c = "tempo" THEN "commit" ELSE "chiudi"),
           UNCHANGED <<disco, fase, slot, seq, liberati, guasto, stadio>>, promesso' = FALSE,
           pre' = pre
    PROVE  Ind'
<1> DEFINE w == IF c = "tempo" THEN "commit" ELSE "chiudi"
<1>1. op' \in Opere /\ op'.che = c /\ op'.pc = w
  <2>1. c \in Nomate /\ w \in Punti
    BY DEF Nomate, Punti
  <2> QED  BY <2>1, Semplici
<1>2. TipoOp(op')
  BY <1>1 DEF TipoOp
<1>3. Pronto
  BY DEF Pronto
<1>4. /\ Vive(Veduta(slot, ora), Presenti(slot), ora, pre, op', FALSE)
      /\ Coerenti(Veduta(slot, ora), op')
  BY <1>1, <1>3, PassoCall, VivaFine, NienteTipo DEF Nuovi
<1> QED  BY <1>1, <1>2, <1>3, <1>4, PassoCall, Comincia

LEMMA PassoInizia ==
    ASSUME Ind, Inizia
    PROVE  Monta \/ Ind'
<1>1. ASSUME NEW f \in File, ScriviPrenotato(f) \/ ScriviInCoda(f) \/ CreaCartella(f) \/ Tronca(f)
      PROVE  Ind'
  BY <1>1, PassoPrenotato, PassoCoda, PassoCartella, PassoTronca
<1>2. CASE Chiudi
  BY <1>2, PassoSemplice DEF Chiudi, Chiama, Pronto
<1>3. CASE Tempo
  BY <1>3, PassoSemplice DEF Tempo, Chiama, Pronto
<1>4. CASE Sync
  BY <1>4, PassoSemplice DEF Sync, Chiama, Pronto
<1>5. CASE Smonta
  <2>1. CASE guasto
    BY <1>5, <2>1, GuastoFermo DEF Smonta, Chiama
  <2>2. CASE ~guasto
    BY <1>5, <2>2, PassoSemplice DEF Smonta, Chiama
  <2> QED  BY <2>1, <2>2
<1>6. CASE Fsync
  <2>1. CASE guasto
    BY <1>6, <2>1, GuastoFermo DEF Fsync
  <2>2. CASE ~guasto
    BY <1>6, <2>2, PassoSemplice DEF Fsync
  <2> QED  BY <2>1, <2>2
<1> QED  BY <1>1, <1>2, <1>3, <1>4, <1>5, <1>6 DEF Inizia

-----------------------------------------------------------------------------
(* The steps that write to the transaction.                                *)

\* There is a slot: nothing is committed in the middle of an operation.
LEMMA ScriveSlot ==
    ASSUME Cardinality(Meta) < Riserva, Ind, fase = "montato", ~guasto, stadio = "no",
           op # Niente, NEW a \in Posti, a \in DiOp(op), NEW v, NEW o, NEW p,
           giornale_scrivi(a, v, o, p),
           Avviata(op) \/ (pre # {} /\ op.pc # "fine")
    PROVE  /\ op' = o /\ pre' = p /\ stadio' = "no" /\ liberati' = liberati
           /\ UNCHANGED <<disco, fase, guasto, seq>> /\ promesso' = FALSE
           /\ Fila(slot') /\ Transazione(slot') /\ slot' # <<>>
           /\ Presenti(slot') = Presenti(slot) \cup {a}
           /\ Veduta(slot', ora) = [Veduta(slot, ora) EXCEPT ![a] = v]
           /\ Altri(slot', op) = Altri(slot, op)
<1>1. Fila(slot) /\ Transazione(slot) /\ Spazio /\ ~promesso /\ promesso \in BOOLEAN
  BY DEF Ind, Controllo
<1>2. CiSta(a)
  <2>1. CASE a \in Presenti(slot)
    BY <2>1 DEF Presenti, CiSta, Tiene
  <2>2. CASE a \notin Presenti(slot) /\ Avviata(op)
    <3>1. Cardinality(Altri(slot, op)) <= MaxSlot - Riserva
      BY <2>2, <1>1 DEF Spazio
    <3>2. Len(slot) < MaxSlot
      BY <2>2, <3>1, <1>1, Ingombro
    <3> QED  BY <3>2 DEF CiSta
  <2>3. CASE ~Avviata(op)
    <3>1. 2 * Len(slot) < MaxSlot
      BY <2>3, <1>1 DEF Spazio
    <3>2. Len(slot) \in Nat /\ MaxSlot \in Nat
      BY <1>1, MisureGiornale DEF Transazione
    <3>3. Len(slot) < MaxSlot
      BY <3>1, <3>2
    <3> QED  BY <3>3 DEF CiSta
  <2> QED  BY <2>1, <2>2, <2>3
<1>3. slot' = Copiato(a, v) /\ op' = o /\ pre' = p /\ stadio' = stadio
  BY <1>2 DEF giornale_scrivi
<1>4. /\ UNCHANGED <<disco, fase, guasto, seq>> /\ liberati' = liberati /\ promesso' = promesso
  BY DEF giornale_scrivi, StessoFsync
<1>5. /\ Fila(slot') /\ Transazione(slot') /\ slot' # <<>>
      /\ Presenti(slot') = Presenti(slot) \cup {a}
      /\ Veduta(slot', ora) = [Veduta(slot, ora) EXCEPT ![a] = v]
      /\ \A q : a \in DiOp(q) => Altri(slot', q) = Altri(slot, q)
  BY <1>1, <1>2, <1>3, Copiata
<1> QED  BY <1>1, <1>3, <1>4, <1>5

LEMMA Scritto ==
    ASSUME Ind, fase = "montato", ~guasto, stadio = "no", op # Niente,
           UNCHANGED <<disco, fase, guasto, seq>>, liberati' = liberati, stadio' = "no",
           promesso' = FALSE, Fila(slot'), Transazione(slot'), slot' # <<>>,
           Altri(slot', op) = Altri(slot, op), TipoOp(op'), op'.che # "monta",
           op.pc \notin {"sb", "flushsb", "smontato"},
           op'.pc \notin {"sb", "flushsb", "smontato", "torna", "flush"},
           Avviata(op') => Avviata(op) /\ DiOp(op') = DiOp(op),
           Avviata(op') \/ op'.pc = "fine" \/ pre' = {},
           liberati => op'.che = "tronca" /\ op'.pc \in {"libera", "toglie", "inode", "fine"},
           op'.che = "tronca" /\ op'.pc \in {"toglie", "inode"} => liberati,
           Coerenti(Veduta(slot', ora), op'),
           Vive(Veduta(slot', ora), Presenti(slot'), ora, pre', op', liberati)
    PROVE  Ind'
<1>1. Controllo /\ Spazio /\ seq \in Nat /\ liberati \in BOOLEAN
  BY DEF Ind, Controllo
<1>2. seq' = seq /\ guasto' = guasto /\ fase' = fase
  OBVIOUS
<1>3. Controllo'
  BY <1>1, <1>2, ControlloVa
<1>4. Spazio'
  <2>1. Avviata(op') => Cardinality(Altri(slot', op')) <= MaxSlot - Riserva
    BY <1>1 DEF Spazio, Altri
  <2>2. Avviata(op)' => Cardinality(Altri(slot, op))' <= MaxSlot - Riserva
    BY <2>1 DEF Avviata, Altri, DiOp
  <2>3. pre' # {} => Avviata(op)' \/ op'.pc = "fine"
    BY DEF Avviata
  <2> QED  BY <2>2, <2>3 DEF Spazio
<1> QED  BY <1>2, <1>3, <1>4, SenzaDisco

LEMMA InCorso ==
    ASSUME Ind, op.pc \in {"inizio", "fine", "commit", "chiudi", "bitmap", "dir", "dati", "inode",
                           "libera", "toglie", "torna"}
    PROVE  /\ fase = "montato" /\ ~guasto /\ op # Niente /\ TipoOp(op) /\ op.che # "monta"
           /\ op.che # "tronca" => liberati = FALSE
           /\ ~promesso
<1>1. op # Niente /\ TipoOp(op)
  BY NienteTipo DEF Ind, Controllo
<1>2. op.che # "monta"
  BY <1>1 DEF TipoOp
<1>3. ~guasto
  <2>1. guasto => op \in {Niente, Chiamata("smonta", "smontato"), Chiamata("fsync", "lascia")}
    BY DEF Ind, Controllo
  <2>2. Niente.pc = "no" /\ Chiamata("smonta", "smontato").pc = "smontato"
        /\ Chiamata("fsync", "lascia").pc = "lascia"
    BY NienteTipo DEF Chiamata, Niente
  <2>3. op.pc \notin {"no", "smontato", "lascia"}
    OBVIOUS
  <2> QED  BY <2>1, <2>2, <2>3
<1>4. fase = "montato"
  BY <1>1, <1>2 DEF Ind, Controllo
<1>5. ~promesso /\ (op.che # "tronca" => liberati = FALSE)
  BY <1>1, <1>3 DEF Ind, Controllo
<1> QED  BY <1>1, <1>2, <1>3, <1>4, <1>5

LEMMA PassoBitmap ==
    ASSUME Cardinality(Meta) < Riserva, Ind, alloca_blocco
    PROVE  Ind'
<1> DEFINE a == Bm(Gruppo[op.b])
           m == Veduta(slot, ora)
<1>1. stadio = "no" /\ op.pc = "bitmap"
      /\ giornale_scrivi(a, Vista(a) \cup {op.b} \cup op.altri, Oltre, {<<op.f, c>> : c \in op.altri})
  BY DEF alloca_blocco, Tocca
<1>2. op.che \in {"coda", "cartella"} /\ op # Niente /\ TipoOp(op)
  BY <1>1, InCorso, Luoghi
<1>3. fase = "montato" /\ ~guasto /\ liberati = FALSE
  BY <1>1, <1>2, InCorso
<1>4. Vive(m, Presenti(slot), ora, pre, op, FALSE) /\ Coerenti(m, op)
  BY <1>3, VivaOra
<1>5. op.b \in Dati /\ a \in Posti /\ a \in Meta
  BY <1>2, <1>4, Nomi DEF Vive, Nuovi, Prende
<1>6. Vista(a) = m[a]
  BY <1>3, <1>5, VivaOra
<1>7. Avviata(op) /\ a \in DiOp(op)
  BY <1>1, <1>2, <1>5 DEF Avviata, DiOp
<1>8. /\ op' = Oltre /\ pre' = {<<op.f, c>> : c \in op.altri} /\ stadio' = "no" /\ liberati' = liberati
      /\ UNCHANGED <<disco, fase, guasto, seq>> /\ promesso' = FALSE
      /\ Fila(slot') /\ Transazione(slot') /\ slot' # <<>>
      /\ Presenti(slot') = Presenti(slot) \cup {a}
      /\ Veduta(slot', ora) = [m EXCEPT ![a] = m[a] \cup {op.b} \cup op.altri]
      /\ Altri(slot', op) = Altri(slot, op)
  <2> HIDE DEF a, m
  <2> QED  BY <1>1, <1>2, <1>3, <1>5, <1>6, <1>7, ScriveSlot DEF m
<1>9. /\ TipoOp(op') /\ Poco(op, op')
      /\ op.che = "coda" => op'.pc = "dati"
      /\ op.che = "cartella" => op'.pc = "dir"
  BY <1>1, <1>2, <1>8, VaOltre, OltreOp, Tavola
<1>10. Vive(Veduta(slot', ora), Presenti(slot'), ora, pre', op', FALSE) /\ Coerenti(Veduta(slot', ora), op')
  <2>1. Cambia(m, Veduta(slot', ora), a, ConBlocchi(m, op))
    BY <1>3, <1>8, VivaOra DEF Cambia, ConBlocchi
  <2> HIDE DEF m
  <2>3. op.pc = "bitmap" /\ op.che \in {"coda", "cartella"}
    BY <1>1, <1>2
  <2>2. /\ Vive(Veduta(slot', ora), Con(Presenti(slot), a), ora, Prenota(op), op', FALSE)
        /\ Coerenti(Veduta(slot', ora), op')
    BY <2>1, <2>3, <1>4, <1>9, VivaBitmap
  <2> QED  BY <2>2, <1>8 DEF Prenota, Con
<1>11. Avviata(op') /\ DiOp(op') = DiOp(op)
  BY <1>2, <1>9 DEF Avviata, DiOp, Poco
<1> HIDE DEF a, m
<1>12. op'.che # "monta" /\ op'.che # "tronca" /\ op'.pc \in {"dati", "dir"}
  BY <1>2, <1>9 DEF Poco
<1> QED  BY <1>1, <1>2, <1>3, <1>7, <1>8, <1>9, <1>10, <1>11, <1>12, Scritto

\* Where a call goes once the reservation is given back.
Chiuso(o, r) ==
    /\ o.che # "prenotato"
    /\ \/ r.che \notin Nuovi /\ r.che # "tronca" /\ o.che \notin {"coda", "cartella", "tronca"}
       \/ /\ Poco(o, r) /\ r.resta = o.resta
          /\ o.che = "coda" => r.pc = "bitmap"
          /\ o.che \in {"cartella", "tronca"} => r.pc = "inizio"

LEMMA VivaChiuso ==
    ASSUME NEW m, NEW T, NEW O, NEW p, NEW o, NEW l, Vive(m, T, O, p, o, l), Coerenti(m, o),
           o.pc = "chiudi", NEW x \in p,
           NEW n, Cambia(m, n, Bm(Gruppo[x[2]]), Resi(m, p, Gruppo[x[2]])),
           NEW r, Chiuso(o, r)
    PROVE  Vive(n, Con(T, Bm(Gruppo[x[2]])), O, {}, r, l) /\ Coerenti(n, r)
<1>1. CASE o.che \in {"coda", "cartella", "tronca"}
  <2>1. /\ r.che = o.che /\ r.f = o.f /\ r.b = o.b /\ r.altri = o.altri /\ r.resta = o.resta
        /\ r.che = "coda" => r.pc = "bitmap"
        /\ r.che \in {"cartella", "tronca"} => r.pc = "inizio"
    BY <1>1 DEF Chiuso, Poco
  <2> QED  BY <1>1, <2>1, VivaChiudi
<1>2. CASE o.che \notin {"coda", "cartella", "tronca"}
  <2>1. r.che \notin Nuovi /\ r.che # "tronca" /\ o.che # "prenotato"
    BY <1>2 DEF Chiuso, Poco, Nuovi
  <2> DEFINE q == o
  <2>2. /\ q.che = o.che /\ q.f = o.f /\ q.b = o.b /\ q.altri = o.altri /\ q.resta = o.resta
        /\ q.che = "coda" => q.pc = "bitmap"
        /\ q.che \in {"cartella", "tronca"} => q.pc = "inizio"
        /\ o.che \in {"coda", "cartella", "tronca"} => r = q
    BY <1>2
  <2> HIDE DEF q
  <2> QED  BY <2>1, <2>2, VivaChiudi
<1> QED  BY <1>1, <1>2

LEMMA PassoDir ==
    ASSUME Cardinality(Meta) < Riserva, Ind, dir_scrivi
    PROVE  Ind'
<1> DEFINE a == Dato(op.b)
           m == Veduta(slot, ora)
<1>1. stadio = "no" /\ op.pc = "dir" /\ giornale_scrivi(a, {op.f}, Oltre, pre)
  BY DEF dir_scrivi, Tocca
<1>2. op.che = "cartella" /\ op # Niente /\ TipoOp(op)
  BY <1>1, InCorso, Luoghi
<1>3. fase = "montato" /\ ~guasto /\ liberati = FALSE
  BY <1>1, <1>2, InCorso
<1>4. Vive(m, Presenti(slot), ora, pre, op, FALSE) /\ Coerenti(m, op)
  BY <1>3, VivaOra
<1>5. op.b \in Dati /\ a \in Posti
  BY <1>2, <1>4, Nomi DEF Vive, Nuovi, Prende
<1>7. Avviata(op) /\ a \in DiOp(op)
  BY <1>1, <1>2, <1>5 DEF Avviata, DiOp
<1>8. /\ op' = Oltre /\ pre' = pre /\ stadio' = "no" /\ liberati' = liberati
      /\ UNCHANGED <<disco, fase, guasto, seq>> /\ promesso' = FALSE
      /\ Fila(slot') /\ Transazione(slot') /\ slot' # <<>>
      /\ Presenti(slot') = Presenti(slot) \cup {a}
      /\ Veduta(slot', ora) = [m EXCEPT ![a] = {op.f}]
      /\ Altri(slot', op) = Altri(slot, op)
  <2> HIDE DEF a, m
  <2> QED  BY <1>1, <1>2, <1>3, <1>5, <1>7, ScriveSlot DEF m
<1>9. TipoOp(op') /\ Poco(op, op') /\ op'.pc = "inode"
  BY <1>1, <1>2, <1>8, VaOltre, OltreOp, Tavola
<1>10. Vive(Veduta(slot', ora), Presenti(slot'), ora, pre', op', FALSE) /\ Coerenti(Veduta(slot', ora), op')
  <2>1. Cambia(m, Veduta(slot', ora), a, Suo(op)) /\ Presenti(slot') = Con(Presenti(slot), a)
    BY <1>3, <1>8, VivaOra DEF Cambia, Suo, Con
  <2>2. op.pc = "dir" /\ op.che = "cartella" /\ op.che \in Nuovi
    BY <1>1, <1>2 DEF Nuovi
  <2> HIDE DEF m
  <2>3. Vive(Veduta(slot', ora), Presenti(slot'), ora, pre, op', FALSE) /\ Coerenti(Veduta(slot', ora), op')
    BY <2>1, <2>2, <1>4, <1>9, VivaDato
  <2> QED  BY <2>3, <1>8
<1>11. Avviata(op') /\ DiOp(op') = DiOp(op) /\ op'.che = "cartella"
  BY <1>2, <1>9 DEF Avviata, DiOp, Poco
<1> HIDE DEF a, m
<1> QED  BY <1>1, <1>2, <1>3, <1>7, <1>8, <1>9, <1>10, <1>11, Scritto

LEMMA PassoInode ==
    ASSUME Cardinality(Meta) < Riserva, Ind, scrivi_inode
    PROVE  Ind'
<1> DEFINE m == Veduta(slot, ora)
<1>1. stadio = "no" /\ op.pc = "inode" /\ giornale_scrivi(Ino, InodeNuovo, Oltre, pre)
  BY DEF scrivi_inode, Tocca
<1>2. op.che \in {"coda", "prenotato", "cartella", "tronca"} /\ op # Niente /\ TipoOp(op)
  BY <1>1, InCorso, Luoghi
<1>3. fase = "montato" /\ ~guasto /\ (op.che # "tronca" => liberati = FALSE)
  BY <1>1, <1>2, InCorso
<1>3a. op.che = "tronca" => liberati = TRUE
  BY <1>1 DEF Ind, Controllo
<1>4. Vive(m, Presenti(slot), ora, pre, op, liberati) /\ Coerenti(m, op) /\ Vista(Ino) = m[Ino]
  BY <1>3, VivaOra
<1>5. Ino \in Posti /\ Ino \in Meta
  BY Nomi
<1>7. Avviata(op) /\ Ino \in DiOp(op)
  BY <1>1, <1>2, <1>5 DEF Avviata, DiOp
<1>8. /\ op' = Oltre /\ pre' = pre /\ stadio' = "no" /\ liberati' = liberati
      /\ UNCHANGED <<disco, fase, guasto, seq>> /\ promesso' = FALSE
      /\ Fila(slot') /\ Transazione(slot') /\ slot' # <<>>
      /\ Presenti(slot') = Presenti(slot) \cup {Ino}
      /\ Veduta(slot', ora) = [m EXCEPT ![Ino] = InodeNuovo]
      /\ Altri(slot', op) = Altri(slot, op)
  <2> HIDE DEF m
  <2> QED  BY <1>1, <1>2, <1>3, <1>5, <1>7, ScriveSlot DEF m
<1>9. TipoOp(op') /\ Poco(op, op') /\ op'.pc = "fine"
  BY <1>1, <1>2, <1>8, VaOltre, OltreOp, Tavola
<1>9a. op'.che = op.che
  BY <1>9 DEF Poco
<1>10. Vive(Veduta(slot', ora), Presenti(slot'), ora, pre', op', liberati) /\ Coerenti(Veduta(slot', ora), op')
  <2>0. m = [x \in Posti |-> m[x]]
    BY <1>3, VivaOra
  <2>1. Cambia(m, Veduta(slot', ora), Ino, InodeNuovo) /\ Presenti(slot') = Con(Presenti(slot), Ino)
    BY <2>0, <1>8 DEF Cambia, Con
  <2>2. CASE op.che = "tronca"
    <3>1. InodeNuovo = SenzaFile(m, op)
      BY <2>2, <1>4 DEF InodeNuovo, SenzaFile
    <3> HIDE DEF m
    <3>2. Vive(m, Presenti(slot), ora, pre, op, TRUE) /\ Coerenti(m, op)
      BY <1>4, <1>3a, <2>2
    <3>3. Cambia(m, Veduta(slot', ora), Ino, SenzaFile(m, op))
      BY <3>1, <2>1
    <3>4. op.pc = "inode" /\ op'.che = "tronca" /\ op'.pc = "fine"
      BY <1>1, <1>9, <1>9a, <2>2
    <3>5. Vive(Veduta(slot', ora), Con(Presenti(slot), Ino), ora, pre, op', TRUE) /\ Coerenti(Veduta(slot', ora), op')
      BY <3>2, <3>3, <3>4, <2>2, VivaTolto
    <3> QED  BY <3>5, <2>1, <1>8, <1>3a, <2>2
  <2>3. CASE op.che # "tronca"
    <3>1. InodeNuovo = ConNuovo(m, op)
      BY <2>3, <1>4 DEF InodeNuovo, ConNuovo
    <3> HIDE DEF m
    <3>2. Vive(m, Presenti(slot), ora, pre, op, FALSE) /\ Coerenti(m, op) /\ op.che \in Nuovi
      BY <1>2, <1>4, <1>3, <2>3 DEF Nuovi
    <3>3. Cambia(m, Veduta(slot', ora), Ino, ConNuovo(m, op)) /\ op.pc = "inode"
      BY <3>1, <2>1, <1>1
    <3>5. Vive(Veduta(slot', ora), Con(Presenti(slot), Ino), ora, pre, op', FALSE) /\ Coerenti(Veduta(slot', ora), op')
      BY <3>2, <3>3, <1>9, VivaInode
    <3> QED  BY <3>5, <2>1, <1>8, <1>3, <2>3
  <2> QED  BY <2>2, <2>3
<1>11. ~Avviata(op')
  BY <1>9 DEF Avviata
<1> HIDE DEF m
<1>12. op.pc \notin {"sb", "flushsb", "smontato"} /\ op'.che # "monta"
  BY <1>1, <1>2, <1>9a
<1>13. liberati => op'.che = "tronca" /\ op'.pc = "fine"
  BY <1>3, <1>9, <1>9a
<1> QED  BY <1>1, <1>2, <1>3, <1>8, <1>9, <1>10, <1>11, <1>12, <1>13, Scritto

LEMMA PassoToglie ==
    ASSUME Cardinality(Meta) < Riserva, Ind, libera_blocco
    PROVE  Ind'
<1> DEFINE m == Veduta(slot, ora)
<1>0. PICK g \in op.resta :
         giornale_scrivi(Bm(g), Vista(Bm(g)) \ Suoi(op.f),
                         [op EXCEPT !.resta = @ \ {g},
                                    !.pc = IF op.resta = {g} THEN "inode" ELSE "libera"],
                         pre)
  BY DEF libera_blocco
<1> DEFINE q == [op EXCEPT !.resta = @ \ {g}, !.pc = IF op.resta = {g} THEN "inode" ELSE "libera"]
           a == Bm(g)
<1>1. stadio = "no" /\ op.pc = "toglie"
  BY DEF libera_blocco, Tocca
<1>2. op.che = "tronca" /\ op # Niente /\ TipoOp(op) /\ op \in Opere
  BY <1>1, InCorso, Luoghi DEF TipoOp
<1>3. fase = "montato" /\ ~guasto /\ liberati = TRUE
  BY <1>1, <1>2, InCorso DEF Ind, Controllo
<1>4. Vive(m, Presenti(slot), ora, pre, op, TRUE) /\ Coerenti(m, op)
  BY <1>3, VivaOra
<1>5. g \in Gruppi /\ a \in Posti /\ a \in Meta
  <2>1. g \in Gruppi
    BY <1>2 DEF Opere
  <2> QED  BY <2>1, Nomi DEF Gruppi
<1>6. Vista(a) \ Suoi(op.f) = SenzaBlocchi(m, op, g)
  BY <1>3, <1>5, VivaOra DEF SenzaBlocchi
<1>7. Avviata(op) /\ a \in DiOp(op)
  BY <1>1, <1>2, <1>5 DEF Avviata, DiOp
<1>8. /\ op' = q /\ pre' = pre /\ stadio' = "no" /\ liberati' = liberati
      /\ UNCHANGED <<disco, fase, guasto, seq>> /\ promesso' = FALSE
      /\ Fila(slot') /\ Transazione(slot') /\ slot' # <<>>
      /\ Presenti(slot') = Presenti(slot) \cup {a}
      /\ Veduta(slot', ora) = [m EXCEPT ![a] = SenzaBlocchi(m, op, g)]
      /\ Altri(slot', op) = Altri(slot, op)
  <2>1. giornale_scrivi(a, SenzaBlocchi(m, op, g), q, pre)
    BY <1>0, <1>6
  <2> HIDE DEF a, m, q
  <2> QED  BY <2>1, <1>1, <1>2, <1>3, <1>5, <1>7, ScriveSlot DEF m
<1>9. /\ op' \in Opere /\ op'.che = "tronca" /\ op'.f = op.f /\ op'.pc \in {"libera", "inode"}
      /\ op'.pc = "libera" => op'.resta # {}
  <2>1. op.resta \ {g} \in SUBSET Gruppi /\ op'.che = op.che /\ op'.f = op.f
    BY <1>2, <1>8 DEF Opere
  <2>2. op' \in Opere /\ op'.resta = op.resta \ {g} /\ op'.pc = IF op.resta = {g} THEN "inode" ELSE "libera"
    BY <1>2, <1>8, <2>1 DEF Opere, Punti
  <2> QED  BY <1>2, <2>1, <2>2
<1> HIDE DEF q
<1>9a. TipoOp(op')
  BY <1>9 DEF TipoOp
<1>10. Vive(Veduta(slot', ora), Presenti(slot'), ora, pre', op', TRUE) /\ Coerenti(Veduta(slot', ora), op')
  <2>0. m = [x \in Posti |-> m[x]]
    BY <1>3, VivaOra
  <2>1. Cambia(m, Veduta(slot', ora), a, SenzaBlocchi(m, op, g)) /\ Presenti(slot') = Con(Presenti(slot), a)
    BY <2>0, <1>8 DEF Cambia, Con
  <2> HIDE DEF m
  <2>5. Vive(Veduta(slot', ora), Con(Presenti(slot), a), ora, pre, op', TRUE) /\ Coerenti(Veduta(slot', ora), op')
    BY <2>1, <1>1, <1>2, <1>4, <1>5, <1>9, VivaToglie
  <2> QED  BY <2>5, <2>1, <1>8
<1>11. Avviata(op') /\ DiOp(op') = DiOp(op) /\ op'.che # "monta"
  BY <1>2, <1>9 DEF DiOp, Avviata
<1> HIDE DEF a, m
<1> QED  BY <1>1, <1>2, <1>3, <1>7, <1>8, <1>9, <1>9a, <1>10, <1>11, Scritto

LEMMA PassoChiudi ==
    ASSUME Cardinality(Meta) < Riserva, Ind, prenotazione_chiudi, pre # {}
    PROVE  Ind'
<1> DEFINE m == Veduta(slot, ora)
<1>0. PICK p \in pre : giornale_scrivi(Bm(Gruppo[p[2]]), Presi(Gruppo[p[2]]), Oltre, {})
  BY DEF prenotazione_chiudi
<1> DEFINE g == Gruppo[p[2]]
           a == Bm(g)
<1>1. stadio = "no" /\ op.pc = "chiudi"
  BY DEF prenotazione_chiudi, Tocca
<1>2. op # Niente /\ TipoOp(op)
      /\ op.che \in {"coda", "perso", "cartella", "tronca", "chiudi", "sync", "fsync", "smonta"}
  BY <1>1, InCorso, Luoghi
<1>3. fase = "montato" /\ ~guasto /\ liberati = FALSE
  <2>1. fase = "montato" /\ ~guasto
    BY <1>1, InCorso
  <2> QED  BY <1>1, <2>1 DEF Ind, Controllo
<1>4. Vive(m, Presenti(slot), ora, pre, op, FALSE) /\ Coerenti(m, op)
  BY <1>3, VivaOra
<1>5. p[2] \in Dati /\ a \in Posti /\ a \in Meta
  <2>1. p[2] \in Dati
    BY <1>4 DEF Vive, Messi
  <2> QED  BY <2>1, Nomi
<1>6. Presi(g) = Resi(m, pre, g)
  BY <1>3, <1>5, VivaOra
<1>7. a \in DiOp(op)
  BY <1>5 DEF DiOp
<1>8. /\ op' = Oltre /\ pre' = {} /\ stadio' = "no" /\ liberati' = liberati
      /\ UNCHANGED <<disco, fase, guasto, seq>> /\ promesso' = FALSE
      /\ Fila(slot') /\ Transazione(slot') /\ slot' # <<>>
      /\ Presenti(slot') = Presenti(slot) \cup {a}
      /\ Veduta(slot', ora) = [m EXCEPT ![a] = Resi(m, pre, g)]
      /\ Altri(slot', op) = Altri(slot, op)
  <2>1. giornale_scrivi(a, Resi(m, pre, g), Oltre, {})
    BY <1>0, <1>6
  <2> HIDE DEF a, m, g
  <2> QED  BY <2>1, <1>1, <1>2, <1>3, <1>5, <1>7, ScriveSlot DEF m
<1>9. /\ TipoOp(op')
      /\ op.che # "chiudi" => Poco(op, op') /\ op'.resta = op.resta
      /\ op.che = "chiudi" => op' = Niente
      /\ op.che = "coda" => op'.pc = "bitmap"
      /\ op.che \in {"cartella", "tronca"} => op'.pc = "inizio"
      /\ op.che \in {"sync", "fsync", "smonta"} => op'.pc = "commit"
      /\ op.che = "perso" => op'.pc = "fine"
  BY <1>1, <1>2, <1>8, VaOltre, OltreOp, Tavola
<1>10. Vive(Veduta(slot', ora), Presenti(slot'), ora, {}, op', FALSE) /\ Coerenti(Veduta(slot', ora), op')
  <2>0. m = [x \in Posti |-> m[x]]
    BY <1>3, VivaOra
  <2>1. Cambia(m, Veduta(slot', ora), a, Resi(m, pre, g)) /\ Presenti(slot') = Con(Presenti(slot), a)
    BY <2>0, <1>8 DEF Cambia, Con
  <2>2. Chiuso(op, op')
    BY <1>2, <1>9, NienteTipo DEF Chiuso, Nuovi, Poco
  <2> HIDE DEF m
  <2>5. Vive(Veduta(slot', ora), Con(Presenti(slot), a), ora, {}, op', FALSE) /\ Coerenti(Veduta(slot', ora), op')
    BY <2>1, <2>2, <1>1, <1>4, VivaChiuso
  <2> QED  BY <2>5, <2>1
<1>11. Avviata(op') => Avviata(op) /\ DiOp(op') = DiOp(op)
  <2>1. op = Niente \/ op.che = "chiudi" \/ op'.che = op.che
    BY <1>9 DEF Poco
  <2>2. op.che = "chiudi" => op'.che = "niente"
    BY <1>9, NienteTipo
  <2> QED  BY <1>1, <1>2, <1>9, <2>1, <2>2 DEF Avviata, DiOp, Poco
<1> HIDE DEF a, m, g
<1>12. /\ op'.che # "monta"
       /\ op'.pc \in {"no", "bitmap", "inizio", "commit", "fine"}
  BY <1>2, <1>9, NienteTipo DEF Poco
<1> QED  BY <1>1, <1>2, <1>3, <1>8, <1>9, <1>10, <1>11, <1>12, Scritto

-----------------------------------------------------------------------------
(* The steps that only go on.                                              *)

LEMMA Avanzato ==
    ASSUME Ind, fase = "montato", ~guasto, stadio = "no", op # Niente, stadio' = "no",
           UNCHANGED <<disco, fase, guasto, seq, slot, pre>>,
           promesso' \in BOOLEAN, promesso' => op' = Niente /\ slot = <<>> /\ attesa = Pulita,
           TipoOp(op'), op'.che # "monta",
           op.pc \notin {"sb", "flushsb", "smontato"},
           op'.pc \notin {"sb", "flushsb", "smontato", "torna"},
           Avviata(op') => \/ Avviata(op) /\ DiOp(op') = DiOp(op)
                           \/ Len(slot) <= MaxSlot - Riserva,
           pre # {} /\ ~Avviata(op') /\ op'.pc # "fine" => 2 * Len(slot) < MaxSlot,
           liberati' \in BOOLEAN,
           liberati' => op'.che = "tronca" /\ op'.pc \in {"libera", "toglie", "inode"},
           op'.che = "tronca" /\ op'.pc \in {"toglie", "inode"} => liberati',
           op'.che = "sync" /\ op'.pc = "flush" => slot = <<>>,
           Coerenti(Veduta(slot, ora), op'),
           Vive(Veduta(slot, ora), Presenti(slot), ora, pre, op', liberati')
    PROVE  Ind'
<1>1. Controllo /\ Spazio /\ seq \in Nat /\ Fila(slot) /\ Transazione(slot)
  BY DEF Ind, Controllo
<1>2. /\ seq' = seq /\ guasto' = guasto /\ fase' = fase /\ slot' = slot /\ pre' = pre
      /\ attesa' = attesa
  BY DEF disco
<1>3. Controllo'
  BY <1>1, <1>2, ControlloVa
<1>4. Spazio'
  <2>1. Avviata(op') => Cardinality(Altri(slot', op')) <= MaxSlot - Riserva
    <3>1. Avviata(op) /\ DiOp(op') = DiOp(op) => Cardinality(Altri(slot', op')) <= MaxSlot - Riserva
      BY <1>1, <1>2 DEF Spazio, Altri
    <3>2. Len(slot) <= MaxSlot - Riserva => Cardinality(Altri(slot', op')) <= MaxSlot - Riserva
      BY <1>1, <1>2, PochiPosti
    <3> QED  BY <3>1, <3>2
  <2>2. Avviata(op)' => Cardinality(Altri(slot, op))' <= MaxSlot - Riserva
    BY <2>1 DEF Avviata, Altri, DiOp
  <2>3. pre' # {} => Avviata(op)' \/ op'.pc = "fine" \/ 2 * Len(slot') < MaxSlot
    BY <1>2 DEF Avviata
  <2> QED  BY <2>2, <2>3 DEF Spazio
<1> QED  BY <1>2, <1>3, <1>4, SenzaDisco

LEMMA InCommit ==
    ASSUME Ind, stadio = "no", op.pc \in {"inizio", "fine", "commit"}, commit,
           UNCHANGED <<disco, fase, memoria>>, StessoFsync
    PROVE  Ind'
<1>1. /\ fase' = fase /\ slot' = slot /\ seq' = seq /\ liberati' = liberati /\ guasto' = guasto
      /\ pre' = pre /\ op' = op /\ stadio' = "copie" /\ promesso' = promesso /\ attesa' = attesa
  BY DEF commit, memoria, StessoFsync, disco
<1>2. fase = "montato" /\ ~guasto /\ ~promesso
  BY InCorso
<1>3. Controllo'
  BY <1>1, <1>2, TipoPoi DEF Ind, Controllo, Fila, Transazione
<1>4. Spazio'
  BY <1>1 DEF Spazio, Avviata
<1>5. /\ Vive(Veduta(slot, ora), Presenti(slot), ora, pre, op, liberati)
      /\ Coerenti(Veduta(slot, ora), op)
  BY <1>2, VivaOra
<1> QED  BY <1>1, <1>2, <1>3, <1>4, <1>5, SenzaDisco

LEMMA PassoGiornaleInizio ==
    ASSUME Ind, giornale_inizio
    PROVE  Ind'
<1>1. stadio = "no" /\ op.pc = "inizio" /\ UNCHANGED <<disco, fase, memoria>> /\ StessoFsync
  BY DEF giornale_inizio, Tocca
<1>2. CASE MaxSlot - Len(slot) < Riserva
  BY <1>1, <1>2, InCommit DEF giornale_inizio
<1>3. CASE ~(MaxSlot - Len(slot) < Riserva)
  <2>1. op' = Oltre /\ stadio' = "no"
    BY <1>1, <1>3 DEF giornale_inizio, Avanza
  <2>2. /\ fase = "montato" /\ ~guasto /\ op # Niente /\ TipoOp(op) /\ ~promesso
        /\ op.che \in {"coda", "prenotato", "cartella", "tronca"}
    BY <1>1, InCorso, Luoghi
  <2>3. liberati = FALSE
    BY <1>1, <2>2 DEF Ind, Controllo
  <2>4. /\ TipoOp(op') /\ Poco(op, op') /\ op'.resta = op.resta
        /\ op.che = "prenotato" => op'.pc = "dati"
        /\ op.che = "coda" => op'.pc = "chiudi"
        /\ op.che = "cartella" => op'.pc = "bitmap"
        /\ op.che = "tronca" => op'.pc = "libera"
    BY <1>1, <2>1, <2>2, VaOltre, OltreOp, Tavola
  <2>5. /\ Vive(Veduta(slot, ora), Presenti(slot), ora, pre, op, FALSE)
        /\ Coerenti(Veduta(slot, ora), op)
    BY <2>2, <2>3, VivaOra
  <2>6. /\ Vive(Veduta(slot, ora), Presenti(slot), ora, pre, op', FALSE)
        /\ Coerenti(Veduta(slot, ora), op')
    BY <1>1, <2>2, <2>4, <2>5, VivaAvanti
  <2>7. op'.che = op.che /\ Avviata(op')
    BY <2>2, <2>4 DEF Poco, Avviata
  <2>8. Len(slot) <= MaxSlot - Riserva
    <3>1. Len(slot) \in Nat
      BY DEF Ind, Controllo, Transazione
    <3> QED  BY <1>3, <3>1, MisureGiornale
  <2>9. liberati' = FALSE /\ promesso' = FALSE /\ UNCHANGED <<disco, fase, guasto, seq, slot, pre>>
    BY <1>1, <2>2, <2>3 DEF memoria, StessoFsync, Ind, Controllo
  <2>10. op'.pc \in {"dati", "chiudi", "bitmap", "libera"}
    BY <2>2, <2>4
  <2> QED  BY <1>1, <2>1, <2>2, <2>4, <2>6, <2>7, <2>8, <2>9, <2>10, Avanzato
<1> QED  BY <1>2, <1>3

\* A call that is over, or goes on to where it touches nothing.
LEMMA Passato ==
    ASSUME Ind, fase = "montato", ~guasto, stadio = "no", op # Niente, stadio' = "no",
           UNCHANGED <<disco, fase, guasto, seq, slot, pre>>, liberati = FALSE, liberati' = FALSE,
           promesso' \in BOOLEAN, promesso' => op' = Niente /\ slot = <<>> /\ attesa = Pulita,
           TipoOp(op'), op'.che \notin Nuovi, op'.che \notin {"monta", "tronca", "perso"},
           op.pc \notin {"sb", "flushsb", "smontato", "libera", "toglie", "inode"},
           op'.pc \notin {"sb", "flushsb", "smontato", "torna"},
           pre # {} => 2 * Len(slot) < MaxSlot,
           op'.che = "sync" /\ op'.pc = "flush" => slot = <<>>
    PROVE  Ind'
<1>1. /\ Vive(Veduta(slot, ora), Presenti(slot), ora, pre, op, FALSE)
      /\ Coerenti(Veduta(slot, ora), op)
  BY VivaOra
<1>2. /\ Vive(Veduta(slot, ora), Presenti(slot), ora, pre, op', FALSE)
      /\ Coerenti(Veduta(slot, ora), op')
  BY <1>1, VivaFine
<1>3. ~Avviata(op')
  BY DEF Avviata, Nuovi
<1> QED  BY <1>2, <1>3, Avanzato

LEMMA SlotVuoto ==
    ASSUME Transazione(slot), slot = <<>>
    PROVE  2 * Len(slot) < MaxSlot
<1>1. Len(slot) = 0
  OBVIOUS
<1> QED  BY <1>1, MisureGiornale

LEMMA PassoGiornaleFine ==
    ASSUME Ind, giornale_fine
    PROVE  Ind'
<1>1. stadio = "no" /\ op.pc = "fine" /\ UNCHANGED <<disco, fase, memoria>> /\ StessoFsync
  BY DEF giornale_fine, Tocca
<1>2. CASE slot # <<>> /\ (liberati \/ 2 * Len(slot) >= MaxSlot)
  BY <1>1, <1>2, InCommit DEF giornale_fine
<1>3. CASE ~(slot # <<>> /\ (liberati \/ 2 * Len(slot) >= MaxSlot))
  <2>1. op' = Oltre /\ stadio' = "no"
    BY <1>1, <1>3 DEF giornale_fine, Avanza
  <2>2. /\ fase = "montato" /\ ~guasto /\ op # Niente /\ TipoOp(op) /\ ~promesso /\ Transazione(slot)
        /\ op.che \in {"coda", "prenotato", "cartella", "tronca", "perso"}
    BY <1>1, InCorso, Luoghi DEF Ind, Controllo
  <2>3. liberati = FALSE
    BY <1>1, <1>3, <2>2 DEF Ind, Controllo
  <2>4. op' = Niente
    BY <1>1, <2>1, <2>2, VaOltre, OltreOp, Tavola
  <2>5. 2 * Len(slot) < MaxSlot
    <3>1. Len(slot) \in Nat /\ MaxSlot \in Nat
      BY <2>2, MisureGiornale DEF Transazione
    <3> QED  BY <1>3, <2>2, <3>1, SlotVuoto
  <2>9. liberati' = FALSE /\ promesso' = FALSE /\ UNCHANGED <<disco, fase, guasto, seq, slot, pre>>
    BY <1>1, <2>2, <2>3 DEF memoria, StessoFsync, Ind, Controllo
  <2>10. TipoOp(op') /\ op'.che = "niente" /\ op'.pc = "no"
    BY <2>4, NienteTipo
  <2> QED  BY <1>1, <2>1, <2>2, <2>3, <2>5, <2>9, <2>10, Passato DEF Nuovi
<1> QED  BY <1>2, <1>3

LEMMA PassoGiornaleCommit ==
    ASSUME Ind, giornale_commit
    PROVE  Ind'
<1>1. stadio = "no" /\ op.pc = "commit" /\ UNCHANGED <<disco, fase, memoria>> /\ StessoFsync
  BY DEF giornale_commit, Tocca
<1>2. CASE slot # <<>>
  BY <1>1, <1>2, InCommit DEF giornale_commit
<1>3. CASE slot = <<>>
  <2>1. op' = Oltre /\ stadio' = "no"
    BY <1>1, <1>3 DEF giornale_commit, Avanza
  <2>2. /\ fase = "montato" /\ ~guasto /\ op # Niente /\ TipoOp(op) /\ ~promesso /\ Transazione(slot)
        /\ op.che \in {"tempo", "sync", "fsync", "smonta"} /\ liberati = FALSE
    BY <1>1, InCorso, Luoghi DEF Ind, Controllo
  <2>4. /\ TipoOp(op') /\ op'.che \in {"niente", "sync", "fsync", "smonta"}
        /\ op'.pc \in {"no", "flush", "lascia"}
    BY <1>1, <2>1, <2>2, VaOltre, OltreOp, Tavola, NienteTipo DEF Poco
  <2>5. 2 * Len(slot) < MaxSlot
    BY <1>3, <2>2, SlotVuoto
  <2>9. liberati' = FALSE /\ promesso' = FALSE /\ UNCHANGED <<disco, fase, guasto, seq, slot, pre>>
    BY <1>1, <2>2 DEF memoria, StessoFsync, Ind, Controllo
  <2> QED  BY <1>1, <1>3, <2>1, <2>2, <2>4, <2>5, <2>9, Passato DEF Nuovi
<1> QED  BY <1>2, <1>3

LEMMA PassoSenzaPre ==
    ASSUME Ind, prenotazione_chiudi, pre = {}
    PROVE  Ind'
<1>1. stadio = "no" /\ op.pc = "chiudi" /\ op' = Oltre /\ UNCHANGED <<disco, fase, memoria, stadio>> /\ StessoFsync
  BY DEF prenotazione_chiudi, Tocca, Avanza
<1>2. /\ fase = "montato" /\ ~guasto /\ op # Niente /\ TipoOp(op) /\ ~promesso
      /\ op.che \in {"coda", "perso", "cartella", "tronca", "chiudi", "sync", "fsync", "smonta"}
  BY <1>1, InCorso, Luoghi
<1>3. liberati = FALSE
  BY <1>1, <1>2 DEF Ind, Controllo
<1>4. /\ TipoOp(op')
      /\ op.che # "chiudi" => Poco(op, op') /\ op'.resta = op.resta
      /\ op.che = "chiudi" => op' = Niente
      /\ op.che = "coda" => op'.pc = "bitmap"
      /\ op.che \in {"cartella", "tronca"} => op'.pc = "inizio"
      /\ op.che \in {"sync", "fsync", "smonta"} => op'.pc = "commit"
      /\ op.che = "perso" => op'.pc = "fine"
  BY <1>1, <1>2, VaOltre, OltreOp, Tavola
<1>5. /\ Vive(Veduta(slot, ora), Presenti(slot), ora, pre, op, FALSE)
      /\ Coerenti(Veduta(slot, ora), op)
  BY <1>2, <1>3, VivaOra
<1>6. /\ Vive(Veduta(slot, ora), Presenti(slot), ora, pre, op', FALSE)
      /\ Coerenti(Veduta(slot, ora), op')
  <2>1. CASE op.che \in {"coda", "cartella", "tronca"}
    BY <1>1, <1>4, <1>5, <2>1, VivaAvanti
  <2>2. CASE op.che \notin {"coda", "cartella", "tronca"}
    <3>1. op'.che \notin Nuovi /\ op'.che # "tronca"
      BY <1>2, <1>4, <2>2, NienteTipo DEF Nuovi, Poco
    <3> QED  BY <1>1, <1>5, <3>1, VivaFine
  <2> QED  BY <2>1, <2>2
<1>7. /\ op'.che \in {"niente", "coda", "perso", "cartella", "tronca", "sync", "fsync", "smonta"}
      /\ op'.pc \in {"no", "bitmap", "inizio", "commit", "fine"}
  BY <1>2, <1>4, NienteTipo DEF Poco
<1>8. Avviata(op') => Avviata(op) /\ DiOp(op') = DiOp(op)
  <2>1. Avviata(op') => op'.che = "coda" /\ op.che = "coda"
    BY <1>2, <1>4, <1>7, NienteTipo DEF Avviata, Poco
  <2> QED  BY <2>1, <1>1 DEF Avviata, DiOp
<1>9. liberati' = FALSE /\ promesso' = FALSE /\ UNCHANGED <<disco, fase, guasto, seq, slot, pre>> /\ stadio' = "no"
  BY <1>1, <1>2, <1>3 DEF memoria, StessoFsync, Ind, Controllo
<1> QED  BY <1>1, <1>2, <1>4, <1>6, <1>7, <1>8, <1>9, Avanzato

LEMMA PassoLiberato ==
    ASSUME Ind, giornale_liberato
    PROVE  Ind'
<1>1. /\ stadio = "no" /\ op.pc = "libera" /\ op' = Oltre /\ liberati' = TRUE /\ promesso' = promesso
      /\ UNCHANGED <<disco, fase, slot, seq, guasto, pre, stadio>>
  BY DEF giornale_liberato, Tocca, Avanza, StessoFsync
<1>2. /\ fase = "montato" /\ ~guasto /\ op # Niente /\ TipoOp(op) /\ promesso = FALSE
      /\ op.che = "tronca"
  BY <1>1, InCorso, Luoghi DEF Ind, Controllo
<1>4. TipoOp(op') /\ Poco(op, op') /\ op'.resta = op.resta /\ op'.pc = "toglie"
  BY <1>1, <1>2, VaOltre, OltreOp, Tavola
<1>5. /\ Vive(Veduta(slot, ora), Presenti(slot), ora, pre, op, liberati)
      /\ Coerenti(Veduta(slot, ora), op)
  BY <1>2, VivaOra
<1>6. /\ Vive(Veduta(slot, ora), Presenti(slot), ora, pre, op', TRUE)
      /\ Coerenti(Veduta(slot, ora), op')
  BY <1>1, <1>2, <1>4, <1>5, VivaAvanti
<1>7. op'.che = "tronca" /\ Avviata(op') /\ Avviata(op) /\ DiOp(op') = DiOp(op)
  BY <1>1, <1>2, <1>4 DEF Avviata, DiOp, Poco
<1> QED  BY <1>1, <1>2, <1>4, <1>6, <1>7, Avanzato

-----------------------------------------------------------------------------
(* The steps that write to the disk.                                       *)

LEMMA RettoPoi ==
    ASSUME Retto(duro', attesa', ora') PROVE Retto(duro, attesa, ora)'
BY DEF Retto, TipoDisco, Puo

LEMMA RiposoPoi ==
    ASSUME Riposo(duro', attesa', ora', seq') PROVE Riposo(duro, attesa, ora, seq)'
BY DEF Riposo, Asciutti, Importanti

LEMMA VivaPoi ==
    ASSUME Coerenti(Veduta(slot', ora'), op'),
           fase' = "montato" /\ ~guasto' => Vive(Veduta(slot', ora'), Presenti(slot'), ora', pre', op', liberati')
    PROVE  VivaC' /\ VivaV'
<1>1. Visione' = Veduta(slot', ora') /\ Tenuti' = Presenti(slot')
  BY VistaVedePoi
<1>2. Coerenti(Visione', op') /\ (fase' = "montato" /\ ~guasto' => Vive(Visione', Tenuti', ora', pre', op', liberati'))
  BY <1>1
<1>3. Coerenti(Visione, op)'
  BY <1>2 DEF Coerenti, Taglia
<1>4. fase' = "montato" /\ ~guasto' => Vive(Visione, Tenuti, ora, pre, op, liberati)'
  BY <1>2 DEF Vive, Sotto, Messi, Prende, Coerente, Taglia, Libero, Resi
<1> QED  BY <1>3, <1>4 DEF VivaC, VivaV

\* The disk of a mounted volume, in the stage st of a commit or outside of one.
Fermo(D, A, O, n, o) ==
    /\ Riposo(D, A, O, n)
    /\ IF o.che = "smonta" /\ o.pc \in {"sb", "flushsb", "smontato"}
       THEN Asciutti(A, Indirizzi \ {Sb}) /\ (o.pc = "sb" => A = Pulita)
       ELSE A[Sb] = {} /\ D[Sb]
    /\ o.che = "sync" /\ o.pc = "torna" => A = Pulita

Messe(O, t) == \A i \in 1 .. Len(t) : O[t[i].blk] = t[i].v

Stadi(D, A, O, t, n, o, st) ==
    /\ st \in {"no", "copie"} => Fermo(D, A, O, n, o)
    /\ st \in {"prima", "sigillo"} =>
         DopoCopie(D, A, O, n) /\ Scritta(O, t, n) /\ A[Sb] = {} /\ D[Sb]
    /\ st \in {"sigillo", "posti", "vuota"} => A = Pulita
    /\ st = "seconda" => DopoSigillo(D, A, O, t, n)
    /\ st \in {"posti", "terza", "vuota"} => DopoPosti(D, A, O, t, n)
    /\ st \in {"terza", "vuota"} => Messe(O, t)

LEMMA StadiOra ==
    ASSUME Ind, fase = "montato", ~guasto
    PROVE  Stadi(duro, attesa, ora, slot, seq, op, stadio)
BY DEF Ind, DiscoMontato, Stadi, Fermo, Messe

LEMMA StadiPoi ==
    ASSUME Stadi(duro', attesa', ora', slot', seq', op', stadio')
    PROVE  DiscoMontato'
<1> USE DEF Stadi, Fermo, Messe
<1>1. stadio' \in {"no", "copie"} => Riposo(duro, attesa, ora, seq)' /\ Asciutti(attesa, Indirizzi \ {Sb})' = Asciutti(attesa', Indirizzi \ {Sb})
  BY RiposoPoi DEF Asciutti
<1>2. stadio' \in {"prima", "sigillo"} => DopoCopie(duro, attesa, ora, seq)' /\ Scritta(ora, slot, seq)'
  BY DEF DopoCopie, Scritta, Asciutti, Etichette
<1>3. stadio' = "seconda" => DopoSigillo(duro, attesa, ora, slot, seq)'
  BY DEF DopoSigillo, Scritta, Asciutti, Etichette
<1>4. stadio' \in {"posti", "terza", "vuota"} => DopoPosti(duro, attesa, ora, slot, seq)'
  BY DEF DopoPosti, Scritta, Etichette
<1> QED  BY <1>1, <1>2, <1>3, <1>4 DEF DiscoMontato

LEMMA Assieme ==
    ASSUME Controllo', Spazio', fase' = "montato", ~guasto', Retto(duro', attesa', ora'),
           Stadi(duro', attesa', ora', slot', seq', op', stadio'),
           Coerenti(Veduta(slot', ora'), op'),
           Vive(Veduta(slot', ora'), Presenti(slot'), ora', pre', op', liberati')
    PROVE  Ind'
<1>1. DiscoInMonta'
  BY DEF DiscoInMonta
<1>2. Base'
  BY <1>1, RettoPoi, VivaPoi, StadiPoi DEF Base
<1> QED  BY <1>2, DedottoPoi

\* What a write leaves.
LEMMA RettoScrive ==
    ASSUME Retto(duro, attesa, ora), NEW v, NEW t, Scrive(v, t), DOMAIN v \subseteq Indirizzi,
           \A a \in DOMAIN v : v[a] \in t[a] \/ v[a] = ora[a],
           Sb \in DOMAIN v => t[Sb] \subseteq BOOLEAN,
           Jsb \in DOMAIN v => t[Jsb] \subseteq [seq : Nat, start : 0 .. Maxlen - 1],
           \A i \in 1 .. Maxlen - 1 : Gio(i) \in DOMAIN v => \A x \in t[Gio(i)] : Blocco(x)
    PROVE  /\ Retto(duro', attesa', ora') /\ duro' = duro
           /\ \A a \in Indirizzi : /\ ora'[a] = IF a \in DOMAIN v THEN v[a] ELSE ora[a]
                                   /\ attesa'[a] = attesa[a] \cup (IF a \in DOMAIN v THEN t[a] ELSE {})
<1>1. /\ duro' = duro
      /\ ora' = [a \in Indirizzi |-> IF a \in DOMAIN v THEN v[a] ELSE ora[a]]
      /\ attesa' = [a \in Indirizzi |-> attesa[a] \cup (IF a \in DOMAIN v THEN t[a] ELSE {})]
  BY DEF Scrive
<1>2. \A a \in Indirizzi : /\ ora'[a] = IF a \in DOMAIN v THEN v[a] ELSE ora[a]
                           /\ attesa'[a] = attesa[a] \cup (IF a \in DOMAIN v THEN t[a] ELSE {})
  BY <1>1
<1>3. ora' = [a \in Indirizzi |-> ora'[a]] /\ attesa' = [a \in Indirizzi |-> attesa'[a]]
  BY <1>1
<1>4. TipoDisco(duro, attesa) /\ Puo(ora, duro, attesa)
  BY DEF Retto
<1>5. \A a \in Indirizzi : ora'[a] \in {duro[a]} \cup attesa'[a]
  BY <1>2, <1>4 DEF Puo
<1>6. Puo(ora', duro', attesa')
  BY <1>1, <1>3, <1>5 DEF Puo
<1>7. attesa'[Sb] \subseteq BOOLEAN /\ attesa'[Jsb] \subseteq [seq : Nat, start : 0 .. Maxlen - 1]
  BY <1>2, <1>4, Nomi DEF TipoDisco
<1>8. ASSUME NEW i \in 1 .. Maxlen - 1, NEW x \in attesa'[Gio(i)] PROVE Blocco(x)
  <2>1. Gio(i) \in Indirizzi
    BY Nomi
  <2>2. attesa'[Gio(i)] = attesa[Gio(i)] \cup (IF Gio(i) \in DOMAIN v THEN t[Gio(i)] ELSE {})
    BY <1>2, <2>1
  <2>3. \A y \in attesa[Gio(i)] : Blocco(y)
    BY <1>4 DEF TipoDisco
  <2>4. x \in attesa[Gio(i)] \/ (Gio(i) \in DOMAIN v /\ x \in t[Gio(i)])
    BY <2>2
  <2> QED  BY <2>3, <2>4
<1>9. TipoDisco(duro', attesa')
  BY <1>1, <1>3, <1>4, <1>7, <1>8 DEF TipoDisco
<1> QED  BY <1>1, <1>2, <1>6, <1>9 DEF Retto

Messo(D, A, O, E, B, P, v) ==
    /\ E = D
    /\ \A a \in Indirizzi : a \in DOMAIN v => P[a] = v[a] /\ B[a] = A[a] \cup {v[a]}
    /\ \A a \in Indirizzi : a \notin DOMAIN v => P[a] = O[a] /\ B[a] = A[a]

LEMMA RettoMetti ==
    ASSUME Retto(duro, attesa, ora), NEW v, Metti(v), DOMAIN v \subseteq Indirizzi,
           Sb \in DOMAIN v => v[Sb] \in BOOLEAN,
           Jsb \in DOMAIN v => v[Jsb] \in [seq : Nat, start : 0 .. Maxlen - 1],
           \A i \in 1 .. Maxlen - 1 : Gio(i) \in DOMAIN v => Blocco(v[Gio(i)])
    PROVE  Retto(duro', attesa', ora') /\ Messo(duro, attesa, ora, duro', attesa', ora', v)
<1> DEFINE t == [a \in DOMAIN v |-> {v[a]}]
<1>1. Scrive(v, t)
  BY DEF Metti
<1>2. \A a \in DOMAIN v : t[a] = {v[a]}
  OBVIOUS
<1> HIDE DEF t
<1>3. /\ \A a \in DOMAIN v : v[a] \in t[a] \/ v[a] = ora[a]
      /\ Sb \in DOMAIN v => t[Sb] \subseteq BOOLEAN
      /\ Jsb \in DOMAIN v => t[Jsb] \subseteq [seq : Nat, start : 0 .. Maxlen - 1]
      /\ \A i \in 1 .. Maxlen - 1 : Gio(i) \in DOMAIN v => \A x \in t[Gio(i)] : Blocco(x)
  BY <1>2
<1>4. /\ Retto(duro', attesa', ora') /\ duro' = duro
      /\ \A a \in Indirizzi : /\ ora'[a] = IF a \in DOMAIN v THEN v[a] ELSE ora[a]
                              /\ attesa'[a] = attesa[a] \cup (IF a \in DOMAIN v THEN t[a] ELSE {})
  BY <1>1, <1>3, RettoScrive
<1>5. \A a \in Indirizzi : a \in DOMAIN v => ora'[a] = v[a] /\ attesa'[a] = attesa[a] \cup {v[a]}
  BY <1>2, <1>4
<1>6. \A a \in Indirizzi : a \notin DOMAIN v => ora'[a] = ora[a] /\ attesa'[a] = attesa[a]
  BY <1>4
<1> QED  BY <1>4, <1>5, <1>6 DEF Messo

\* The metadata on disk O are consistent as they are.
Intero(O) == Coerente([a \in Posti |-> O[a]])

\* One block is written; the others are as they were.
Solo(v, a) == DOMAIN v = {a}
Altrove(O, P, a) == \A c \in Posti : c # a => P[c] = O[c]

\* Data in a block that no file has.
LEMMA RiposoDato ==
    ASSUME NEW D, NEW A, NEW O, NEW n, Riposo(D, A, O, n), NEW b \in Dati, Libero(b, O[Ino]),
           Intero(O),
           NEW E, NEW B, NEW P, NEW v, Messo(D, A, O, E, B, P, v), Solo(v, Dato(b))
    PROVE  /\ Riposo(E, B, P, n) /\ E[Sb] = D[Sb] /\ B[Sb] = A[Sb]
           /\ Altrove(O, P, Dato(b))
<1>1. E = D /\ \A a \in Indirizzi : a # Dato(b) => P[a] = O[a] /\ B[a] = A[a]
  BY DEF Messo, Solo
<1>2. /\ Meta \subseteq Indirizzi /\ Jsb \in Indirizzi /\ Sb \in Indirizzi /\ Posti \subseteq Indirizzi
      /\ Ino \in Meta /\ \A a \in Meta : a # Dato(b)
      /\ Jsb # Dato(b) /\ Sb # Dato(b) /\ Ino # Dato(b)
  BY Nomi
<1>3. P[Ino] = O[Ino] /\ P[Jsb] = O[Jsb] /\ B[Jsb] = A[Jsb] /\ B[Sb] = A[Sb]
  BY <1>1, <1>2
<1>4. Importanti(P) = Importanti(O)
  BY <1>3 DEF Importanti
<1>5. \A a \in Importanti(O) : a \in Indirizzi /\ a # Dato(b)
  <2>1. ASSUME NEW p \in O[Ino] PROVE Dato(p[2]) \in Indirizzi /\ Dato(p[2]) # Dato(b)
    <3>1. p \in File \X Dati
      BY <1>2, Nomi DEF Coerente, Intero
    <3> QED  BY <3>1, Nomi DEF Libero
  <2> QED  BY <2>1, <1>2 DEF Importanti
<1>6. Asciutti(B, Importanti(P))
  BY <1>1, <1>4, <1>5 DEF Riposo, Asciutti
<1>7. \A i \in 1 .. Maxlen - 1 : B[Gio(i)] = A[Gio(i)]
  BY <1>1, Nomi
<1>8. Asciutti(B, {Gio(i) : i \in 1 .. Maxlen - 1})
  BY <1>7 DEF Riposo, Asciutti
<1>9. Riposo(E, B, P, n)
  BY <1>1, <1>3, <1>4, <1>6, <1>8 DEF Riposo
<1> QED  BY <1>1, <1>2, <1>3, <1>9 DEF Altrove

LEMMA VedutaDato ==
    ASSUME NEW t, Transazione(t), NEW O, NEW P, NEW a \in Posti, a \notin Presenti(t),
           NEW x, P[a] = x, Altrove(O, P, a)
    PROVE  Cambia(Veduta(t, O), Veduta(t, P), a, x)
<1>1. \A c \in Posti : Vede(t, P, c) = IF c = a THEN x ELSE Vede(t, O, c)
  BY DEF Vede, Presenti, Altrove
<1>2. Veduta(t, P) = [c \in Posti |-> IF c = a THEN x ELSE Vede(t, O, c)]
  BY <1>1 DEF Veduta
<1>3. Veduta(t, P) = [Veduta(t, O) EXCEPT ![a] = x]
  BY <1>2 DEF Veduta
<1> QED  BY <1>3, VedutaForma DEF Cambia

\* A data write that succeeded, or failed on its way.
LEMMA DatiScritti ==
    ASSUME Ind, stadio = "no", op.pc = "dati", ~Tiene(Dato(op.b)),
           Metti([a \in {Dato(op.b)} |-> {op.f}]), UNCHANGED <<fase, memoria, stadio>>, StessoFsync,
           op' = Oltre \/ op' = Chiamata("perso", "chiudi")
    PROVE  Ind'
<1> DEFINE m == Veduta(slot, ora)
           a == Dato(op.b)
           v == [c \in {a} |-> {op.f}]
<1>1. /\ fase' = fase /\ slot' = slot /\ seq' = seq /\ liberati' = liberati /\ guasto' = guasto
      /\ pre' = pre /\ stadio' = stadio /\ promesso' = promesso
  BY DEF memoria, StessoFsync
<1>2. /\ fase = "montato" /\ ~guasto /\ op # Niente /\ TipoOp(op) /\ promesso = FALSE
      /\ op.che \in {"coda", "prenotato"} /\ liberati = FALSE
  BY InCorso, Luoghi DEF Ind, Controllo
<1>3. /\ Vive(m, Presenti(slot), ora, pre, op, FALSE) /\ Coerenti(m, op) /\ Controllo /\ Spazio
      /\ Transazione(slot) /\ Fila(slot) /\ seq \in Nat /\ Retto(duro, attesa, ora)
  BY <1>2, VivaOra DEF Ind
<1>3a. Intero(ora)
  BY <1>2, VivaOra DEF Intero
<1>4. /\ op.b \in Dati /\ a \in Posti /\ Libero(op.b, ora[Ino]) /\ op.che \in Nuovi
  <2>1. op.che \in Nuovi
    BY <1>2 DEF Nuovi
  <2>2. Prende(m, ora, pre, op)
    BY <2>1, <1>3 DEF Vive
  <2> QED  BY <2>1, <2>2, Nomi DEF Prende
<1>5. DOMAIN v = {a} /\ v[a] = {op.f} /\ Metti(v)
  OBVIOUS
<1> HIDE DEF v
<1>6. Retto(duro', attesa', ora') /\ Messo(duro, attesa, ora, duro', attesa', ora', v)
  <2>1. DOMAIN v \subseteq Indirizzi /\ Sb \notin DOMAIN v /\ Jsb \notin DOMAIN v
        /\ \A i \in 1 .. Maxlen - 1 : Gio(i) \notin DOMAIN v
    BY <1>4, <1>5, Nomi
  <2> QED  BY <2>1, <1>3, <1>5, RettoMetti
<1>7. /\ Riposo(duro, attesa, ora, seq) /\ attesa[Sb] = {} /\ duro[Sb]
  BY <1>2 DEF Ind, DiscoMontato
<1>8. /\ Riposo(duro', attesa', ora', seq) /\ duro'[Sb] = duro[Sb] /\ attesa'[Sb] = attesa[Sb]
      /\ Altrove(ora, ora', a)
  <2>1. Riposo(duro, attesa, ora, seq) /\ Solo(v, a) /\ Messo(duro, attesa, ora, duro', attesa', ora', v)
    BY <1>5, <1>6, <1>7 DEF Solo
  <2>2. op.b \in Dati /\ Libero(op.b, ora[Ino])
    BY <1>4
  <2> QED  BY <2>1, <2>2, <1>3a, RiposoDato
<1>9. ora'[a] = Suo(op)
  BY <1>4, <1>5, <1>6, Nomi DEF Messo, Suo
<1>10. a \notin Presenti(slot)
  BY DEF Tiene, Presenti
<1>11. Cambia(m, Veduta(slot, ora'), a, Suo(op))
  BY <1>3, <1>4, <1>8, <1>9, <1>10, VedutaDato
<1>12. Cambia(m, Veduta(slot', ora'), a, Suo(op))
  BY <1>1, <1>11
<1>13. /\ TipoOp(op')
       /\ \/ Poco(op, op') /\ op'.pc = "inode"
          \/ op'.che = "perso" /\ op'.pc = "chiudi"
  <2>1. CASE op' = Oltre
    BY <2>1, <1>2, VaOltre, OltreOp, Tavola
  <2>2. CASE op' = Chiamata("perso", "chiudi")
    <3>1. op' \in Opere /\ op'.che = "perso" /\ op'.pc = "chiudi"
      BY <2>2, Semplici DEF Nomate, Punti
    <3> QED  BY <3>1 DEF TipoOp
  <2> QED  BY <2>1, <2>2
<1>14. Vive(Veduta(slot', ora'), Presenti(slot'), ora', pre', op', FALSE) /\ Coerenti(Veduta(slot', ora'), op')
  <2> HIDE DEF m
  <2>1. op'.che = "perso" => op'.che \notin Nuovi /\ op'.che # "tronca"
    BY DEF Nuovi
  <2>2. Vive(Veduta(slot', ora'), Presenti(slot), ora', pre, op', FALSE) /\ Coerenti(Veduta(slot', ora'), op')
    BY <2>1, <1>3, <1>4, <1>8, <1>12, <1>13, VivaDato DEF Altrove
  <2> QED  BY <2>2, <1>1
<1>15. /\ op'.che \in {"coda", "prenotato", "perso"} /\ op'.pc \in {"inode", "chiudi"}
       /\ Avviata(op') /\ Avviata(op) /\ DiOp(op') = DiOp(op)
  BY <1>2, <1>13 DEF Poco, Avviata, DiOp
<1>16. Controllo'
  BY <1>1, <1>2, <1>3, <1>13, <1>15, ControlloVa
<1>17. Spazio'
  <2>1. Cardinality(Altri(slot', op')) <= MaxSlot - Riserva
    BY <1>1, <1>2, <1>3, <1>15 DEF Spazio, Altri
  <2>2. Cardinality(Altri(slot, op))' <= MaxSlot - Riserva
    BY <2>1 DEF Altri, DiOp
  <2>3. Avviata(op)'
    BY <1>15 DEF Avviata
  <2> QED  BY <2>2, <2>3 DEF Spazio
<1>18. Stadi(duro', attesa', ora', slot', seq', op', stadio')
  BY <1>1, <1>7, <1>8, <1>15 DEF Stadi, Fermo
<1> HIDE DEF m
<1> QED  BY <1>1, <1>2, <1>6, <1>14, <1>16, <1>17, <1>18, Assieme

\* The transaction never holds the block of data that is written.
LEMMA PassoDati ==
    ASSUME Ind, giornale_dati \/ ErroreDati
    PROVE  Ind'
<1>1. stadio = "no" /\ op.pc = "dati"
  BY DEF giornale_dati, ErroreDati, Tocca
<1>2. /\ fase = "montato" /\ ~guasto /\ op.che \in {"coda", "prenotato"} /\ liberati = FALSE
  BY <1>1, InCorso, Luoghi DEF Ind, Controllo
<1>3. ~Tiene(Dato(op.b))
  <2>1. Vive(Veduta(slot, ora), Presenti(slot), ora, pre, op, FALSE)
    BY <1>2, VivaOra
  <2>2. Prende(Veduta(slot, ora), ora, pre, op) /\ Sotto(Veduta(slot, ora), Presenti(slot), ora, op)
    BY <2>1, <1>2 DEF Vive, Nuovi
  <2>3. op.b \in Dati /\ Libero(op.b, Veduta(slot, ora)[Ino])
    BY <2>2, <1>1 DEF Prende
  <2>4. Dato(op.b) \notin Presenti(slot)
    BY <2>2, <2>3, <1>1 DEF Sotto
  <2> QED  BY <2>4 DEF Tiene, Presenti
<1> QED  BY <1>1, <1>3, DatiScritti DEF giornale_dati, ErroreDati, Avanza

-----------------------------------------------------------------------------
(* The stages of a commit.                                                 *)

LEMMA VivaStessa ==
    ASSUME NEW m, NEW T, NEW O, NEW p, NEW o, NEW l, Vive(m, T, O, p, o, l),
           NEW P, \A a \in Posti : P[a] = O[a]
    PROVE  Vive(m, T, P, p, o, l) /\ (Intero(O) => Intero(P))
<1>1. [a \in Posti |-> P[a]] = [a \in Posti |-> O[a]]
  OBVIOUS
<1>2. P[Ino] = O[Ino]
  BY Nomi
<1> QED  BY <1>1, <1>2 DEF Vive, Sotto, Messi, Prende, Intero

LEMMA VedutaStessa ==
    ASSUME NEW t, NEW O, NEW P, \A a \in Posti : P[a] = O[a]
    PROVE  Veduta(t, P) = Veduta(t, O)
<1>1. \A a \in Posti : Vede(t, P, a) = Vede(t, O, a)
  BY DEF Vede
<1> QED  BY <1>1 DEF Veduta

\* What commit() writes before the first flush.
ScritturaCopie(v, t, n) ==
    /\ DOMAIN v = {Jsb} \cup {Gio(i) : i \in 1 .. Len(t) + 1}
    /\ v[Jsb] = [seq |-> n, start |-> 1]
    /\ v[Gio(1)] = [tipo |-> "desc", seq |-> n, tag |-> Etichette(t)]
    /\ \A i \in 1 .. Len(t) : v[Gio(i + 1)] = [tipo |-> "copia", v |-> t[i].v]

LEMMA CopieScritte ==
    ASSUME Transazione(slot)
    PROVE  ScritturaCopie(InCopie, slot, seq)
<1>0. Len(slot) \in Nat
  BY DEF Transazione
<1>1. DOMAIN InCopie = {Jsb} \cup {Gio(i) : i \in 1 .. Len(slot) + 1}
  BY DEF InCopie
<1>2. InCopie[Jsb] = [seq |-> seq, start |-> 1]
  BY DEF InCopie
<1>3. \A i \in 1 .. Len(slot) + 1 : Gio(i) # Jsb /\ Gio(i)[2] = i /\ (Gio(i) = Gio(1) => i = 1)
  BY DEF Gio, Jsb
<1>4. ASSUME NEW i \in 1 .. Len(slot) + 1
      PROVE  InCopie[Gio(i)] = IF Gio(i) = Gio(1) THEN Descrittore
                               ELSE [tipo |-> "copia", v |-> slot[i - 1].v]
  BY <1>3 DEF InCopie
<1>5. InCopie[Gio(1)] = [tipo |-> "desc", seq |-> seq, tag |-> Etichette(slot)]
  <2>1. 1 \in 1 .. Len(slot) + 1
    BY <1>0
  <2>2. InCopie[Gio(1)] = Descrittore
    BY <2>1, <1>4
  <2> QED  BY <2>2 DEF Descrittore, Etichette
<1>6. ASSUME NEW i \in 1 .. Len(slot)
      PROVE  InCopie[Gio(i + 1)] = [tipo |-> "copia", v |-> slot[i].v]
  <2>1. i + 1 \in 1 .. Len(slot) + 1 /\ i + 1 # 1 /\ i + 1 - 1 = i
    BY <1>0
  <2> DEFINE k == i + 1
  <2>2. k \in 1 .. Len(slot) + 1 /\ k # 1 /\ k - 1 = i
    BY <2>1
  <2> HIDE DEF k
  <2>3. Gio(k) # Gio(1)
    BY <2>2, <1>3
  <2>4. InCopie[Gio(k)] = [tipo |-> "copia", v |-> slot[k - 1].v]
    BY <2>2, <2>3, <1>4
  <2> QED  BY <2>2, <2>4 DEF k
<1> QED  BY <1>1, <1>2, <1>5, <1>6 DEF ScritturaCopie

\* The blocks of the journal it writes are of their type.
LEMMA CopieTipo ==
    ASSUME NEW t, Transazione(t), NEW n \in Nat, NEW v, ScritturaCopie(v, t, n)
    PROVE  /\ DOMAIN v \subseteq Indirizzi /\ Sb \notin DOMAIN v
           /\ \A a \in Posti : a \notin DOMAIN v
           /\ Jsb \in DOMAIN v /\ v[Jsb] \in [seq : Nat, start : 0 .. Maxlen - 1]
           /\ \A i \in 1 .. Maxlen - 1 : Gio(i) \in DOMAIN v =>
                 Blocco(v[Gio(i)]) /\ Prima(v[Gio(i)], n)
           /\ \A i \in 1 .. Len(t) + 1 : Gio(i) \in DOMAIN v
<1>0. Len(t) \in Nat /\ Maxlen \in Nat /\ 1 <= Maxlen - 1 /\ Len(t) + 2 <= Maxlen - 1
  BY MisureGiornale DEF Transazione
<1>1. DOMAIN v = {Jsb} \cup {Gio(i) : i \in 1 .. Len(t) + 1}
  BY DEF ScritturaCopie
<1>2. \A i \in 1 .. Len(t) + 1 : i \in 1 .. Maxlen - 1
  BY <1>0
<1>3. DOMAIN v \subseteq Indirizzi /\ Sb \notin DOMAIN v /\ \A a \in Posti : a \notin DOMAIN v
  BY <1>1, <1>2, Nomi
<1>4. v[Jsb] \in [seq : Nat, start : 0 .. Maxlen - 1]
  BY <1>0 DEF ScritturaCopie
<1>5. ASSUME NEW i \in 1 .. Maxlen - 1, Gio(i) \in DOMAIN v
      PROVE  Blocco(v[Gio(i)]) /\ Prima(v[Gio(i)], n)
  <2>1. i \in 1 .. Len(t) + 1
    BY <1>1, <1>5, Nomi
  <2>2. CASE i = 1
    <3>1. v[Gio(i)] = [tipo |-> "desc", seq |-> n, tag |-> Etichette(t)]
      BY <2>2 DEF ScritturaCopie
    <3>2. Etichette(t) \in Seq(Posti)
      BY DelleEtichette
    <3> QED  BY <3>1, <3>2 DEF Blocco, Prima
  <2>3. CASE i # 1
    <3> DEFINE k == i - 1
    <3>1. k \in 1 .. Len(t) /\ k + 1 = i
      BY <2>1, <2>3, <1>0
    <3> HIDE DEF k
    <3>2. v[Gio(k + 1)] = [tipo |-> "copia", v |-> t[k].v]
      BY <3>1 DEF ScritturaCopie
    <3>3. v[Gio(i)].tipo = "copia"
      BY <3>1, <3>2
    <3> QED  BY <3>3 DEF Blocco, Prima
  <2> QED  BY <2>2, <2>3
<1>6. \A i \in 1 .. Len(t) + 1 : Gio(i) \in DOMAIN v
  BY <1>1
<1> QED  BY <1>1, <1>3, <1>4, <1>5, <1>6

LEMMA StadioCopie ==
    ASSUME NEW D, NEW A, NEW O, Retto(D, A, O), NEW t, Transazione(t), NEW n \in Nat,
           Riposo(D, A, O, n), A[Sb] = {}, D[Sb], A[Jsb] = {}, Intero(O),
           NEW E, NEW B, NEW P, NEW v, Messo(D, A, O, E, B, P, v), ScritturaCopie(v, t, n)
    PROVE  /\ DopoCopie(E, B, P, n) /\ Scritta(P, t, n) /\ B[Sb] = {} /\ E[Sb]
           /\ \A a \in Posti : P[a] = O[a]
<1>0. Len(t) \in Nat
  BY DEF Transazione
<1>1. /\ DOMAIN v \subseteq Indirizzi /\ Sb \notin DOMAIN v
      /\ \A a \in Posti : a \notin DOMAIN v
      /\ Jsb \in DOMAIN v
      /\ \A i \in 1 .. Maxlen - 1 : Gio(i) \in DOMAIN v => Prima(v[Gio(i)], n)
      /\ \A i \in 1 .. Len(t) + 1 : Gio(i) \in DOMAIN v
  BY CopieTipo
<1>2. /\ E = D
      /\ \A a \in Indirizzi : a \in DOMAIN v => P[a] = v[a] /\ B[a] = A[a] \cup {v[a]}
      /\ \A a \in Indirizzi : a \notin DOMAIN v => P[a] = O[a] /\ B[a] = A[a]
  BY DEF Messo
<1>3. \A a \in Posti : P[a] = O[a] /\ B[a] = A[a]
  BY <1>1, <1>2, Nomi
<1>4. B[Sb] = {} /\ E[Sb]
  BY <1>1, <1>2, Nomi
<1>5. Scritta(P, t, n)
  <2>1. P[Jsb] = [seq |-> n, start |-> 1]
    BY <1>1, <1>2 DEF ScritturaCopie
  <2>2. \A i \in 1 .. Len(t) + 1 : P[Gio(i)] = v[Gio(i)]
    BY <1>1, <1>2
  <2>3. 1 \in 1 .. Len(t) + 1 /\ \A i \in 1 .. Len(t) : i + 1 \in 1 .. Len(t) + 1
    BY <1>0
  <2>4. P[Gio(1)] = v[Gio(1)] /\ \A i \in 1 .. Len(t) : P[Gio(i + 1)] = v[Gio(i + 1)]
    BY <2>2, <2>3
  <2> QED  BY <2>1, <2>4 DEF Scritta, ScritturaCopie
<1>6. Asciutti(B, Meta) /\ \A p \in P[Ino] : B[Dato(p[2])] = {}
  <2>1. Asciutti(A, Meta) /\ \A p \in O[Ino] : A[Dato(p[2])] = {}
    BY DEF Riposo, Asciutti, Importanti
  <2>2. P[Ino] = O[Ino]
    BY <1>3, Nomi
  <2>3. \A p \in O[Ino] : Dato(p[2]) \in Posti
    BY Nomi DEF Intero, Coerente
  <2> QED  BY <2>1, <2>2, <2>3, <1>3, Nomi DEF Asciutti
<1>7. {E[Jsb]} \cup B[Jsb] \subseteq {[seq |-> n, start |-> 0], [seq |-> n, start |-> 1]}
  <2>1. D[Jsb] = [seq |-> n, start |-> 0]
    <3>1. Puo(O, D, A) /\ Jsb \in Indirizzi
      BY PuoSe, Nomi
    <3> QED  BY <3>1, Asciutto DEF Riposo
  <2>2. B[Jsb] = {[seq |-> n, start |-> 1]}
    BY <1>1, <1>2 DEF ScritturaCopie
  <2> QED  BY <1>2, <2>1, <2>2
<1>8. \A i \in 1 .. Maxlen - 1 : Prima(E[Gio(i)], n) /\ \A x \in B[Gio(i)] : Prima(x, n)
  <2>1. ASSUME NEW i \in 1 .. Maxlen - 1
        PROVE  Prima(E[Gio(i)], n) /\ \A x \in B[Gio(i)] : Prima(x, n)
    <3>1. Prima(D[Gio(i)], n) /\ A[Gio(i)] = {} /\ Gio(i) \in Indirizzi
      BY Nomi DEF Riposo, Asciutti
    <3> QED  BY <3>1, <1>1, <1>2
  <2> QED  BY <2>1
<1> QED  BY <1>3, <1>4, <1>5, <1>6, <1>7, <1>8 DEF DopoCopie

\* blk_flush.
LEMMA StadioPrima ==
    ASSUME NEW D, NEW A, NEW O, Retto(D, A, O), NEW n \in Nat,
           DopoCopie(D, A, O, n), A[Sb] = {}, D[Sb], Intero(O)
    PROVE  DopoCopie(O, Pulita, O, n) /\ Pulita[Sb] = {} /\ O[Sb]
<1>1. Puo(O, D, A)
  BY PuoSe
<1>2. \A a \in Indirizzi : O[a] \in {D[a]} \cup A[a] /\ Pulita[a] = {}
  BY <1>1 DEF Puo, Pulita
<1>3. O[Sb] = D[Sb] /\ Pulita[Sb] = {}
  BY <1>2, Nomi
<1>4. Asciutti(Pulita, Meta)
  BY <1>2, Nomi DEF Asciutti
<1>5. \A p \in O[Ino] : Pulita[Dato(p[2])] = {}
  <2>1. \A p \in O[Ino] : Dato(p[2]) \in Indirizzi => Pulita[Dato(p[2])] = {}
    BY <1>2
  <2>2. \A p \in O[Ino] : Dato(p[2]) \in Posti
    BY Nomi DEF Intero, Coerente
  <2> QED  BY <2>1, <2>2, Nomi
<1>6. {O[Jsb]} \cup Pulita[Jsb] \subseteq {[seq |-> n, start |-> 0], [seq |-> n, start |-> 1]}
  BY <1>2, Nomi DEF DopoCopie
<1>7. \A i \in 1 .. Maxlen - 1 : Prima(O[Gio(i)], n) /\ \A x \in Pulita[Gio(i)] : Prima(x, n)
  BY <1>2, Nomi DEF DopoCopie
<1> QED  BY <1>3, <1>4, <1>5, <1>6, <1>7 DEF DopoCopie

\* A disk with nothing in its cache gives what it holds.
LEMMA Fermato ==
    ASSUME NEW D, NEW A, NEW O, Retto(D, A, O), A = Pulita
    PROVE  O = D /\ \A a \in Indirizzi : A[a] = {} /\ O[a] = D[a]
<1>1. Puo(O, D, A) /\ TipoDisco(D, A)
  BY DEF Retto
<1>2. \A a \in Indirizzi : A[a] = {} /\ O[a] = D[a]
  BY <1>1 DEF Puo, Pulita
<1>3. O = [a \in Indirizzi |-> O[a]] /\ D = [a \in Indirizzi |-> D[a]]
  BY <1>1 DEF Puo, TipoDisco
<1>4. [a \in Indirizzi |-> O[a]] = [a \in Indirizzi |-> D[a]]
  BY <1>2
<1>5. O = D
  BY <1>3, <1>4
<1> QED  BY <1>2, <1>5

\* After a flush.
LEMMA Svuotato ==
    ASSUME NEW D, NEW A, NEW O, Retto(D, A, O)
    PROVE  Retto(O, Pulita, O) /\ \A a \in Indirizzi : Pulita[a] = {}
<1>1. Disco(O)
  BY PuoSe
<1>2. \A a \in Indirizzi : Pulita[a] = {}
  BY DEF Pulita
<1>3. Pulita = [a \in Indirizzi |-> Pulita[a]]
  BY DEF Pulita
<1>4. O = [a \in Indirizzi |-> O[a]]
  BY <1>1 DEF Disco
<1>5. Puo(O, O, Pulita)
  BY <1>4 DEF Puo
<1>6. TipoDisco(O, Pulita)
  <2>1. /\ O[Sb] \in BOOLEAN /\ Pulita[Sb] \subseteq BOOLEAN
        /\ O[Jsb] \in [seq : Nat, start : 0 .. Maxlen - 1]
        /\ Pulita[Jsb] \subseteq [seq : Nat, start : 0 .. Maxlen - 1]
    BY <1>1, <1>2, Nomi DEF Disco
  <2>2. \A i \in 1 .. Maxlen - 1 : Blocco(O[Gio(i)]) /\ \A x \in Pulita[Gio(i)] : Blocco(x)
    BY <1>1, <1>2, Nomi DEF Disco
  <2> QED  BY <1>3, <1>4, <2>1, <2>2 DEF TipoDisco
<1> QED  BY <1>2, <1>5, <1>6 DEF Retto

\* The commit block.
LEMMA StadioSigillo ==
    ASSUME NEW D, NEW A, NEW O, Retto(D, A, O), A = Pulita, NEW t, Transazione(t), NEW n \in Nat,
           DopoCopie(D, A, O, n), Scritta(O, t, n), D[Sb],
           NEW E, NEW B, NEW P, NEW v, Messo(D, A, O, E, B, P, v),
           NEW c, c = Gio(Len(t) + 2), Solo(v, c),
           NEW w, w = [tipo |-> "commit", seq |-> n], v[c] = w
    PROVE  DopoSigillo(E, B, P, t, n) /\ \A a \in Posti : P[a] = O[a]
<1>1. O = D /\ \A a \in Indirizzi : A[a] = {} /\ O[a] = D[a]
  BY Fermato
<1>2. c \in Indirizzi /\ c \notin Posti
  <2>1. Len(t) \in Nat /\ \A i \in 1 .. Len(t) + 2 : i \in 1 .. Maxlen - 1
    BY DelleEtichette DEF Transazione
  <2>2. Len(t) + 2 \in 1 .. Maxlen - 1
    BY <2>1
  <2> QED  BY <2>2, Nomi
<1>3. /\ E = D /\ P[c] = w /\ B[c] = A[c] \cup {w}
      /\ \A a \in Indirizzi : a # c => P[a] = O[a] /\ B[a] = A[a]
  BY <1>2 DEF Messo, Solo
<1>4. Asciutti(B, Indirizzi \ {c}) /\ B[c] = {w}
  BY <1>1, <1>2, <1>3 DEF Asciutti
<1>5. E[Sb] /\ Scritta(E, t, n)
  BY <1>1, <1>3
<1>6. \A i \in 1 .. Maxlen - 1 : Prima(E[Gio(i)], n)
  BY <1>3 DEF DopoCopie
<1>7. \A a \in Posti : P[a] = O[a]
  BY <1>2, <1>3, Nomi
<1> QED  BY <1>3, <1>4, <1>5, <1>6, <1>7 DEF DopoSigillo

LEMMA StadioSeconda ==
    ASSUME NEW D, NEW A, NEW O, Retto(D, A, O), NEW t, Transazione(t), NEW n \in Nat,
           DopoSigillo(D, A, O, t, n)
    PROVE  DopoPosti(O, Pulita, O, t, n)
<1> DEFINE c == Gio(Len(t) + 2)
           w == [tipo |-> "commit", seq |-> n]
<1>1. /\ \A a \in Indirizzi : a # c => A[a] = {}
      /\ D[Sb] /\ Scritta(D, t, n) /\ O[c] = w
      /\ \A i \in 1 .. Maxlen - 1 : Prima(D[Gio(i)], n)
  BY DEF DopoSigillo, Asciutti
<1>2. Puo(O, D, A)
  BY DEF Retto
<1>3. \A a \in Indirizzi : a # c => O[a] = D[a]
  BY <1>1, <1>2 DEF Puo
<1>4. /\ Len(t) \in Nat /\ 1 \in 1 .. Maxlen - 1 /\ 1 # Len(t) + 2
      /\ \A i \in 1 .. Len(t) : i + 1 \in 1 .. Maxlen - 1 /\ i + 1 # Len(t) + 2
  <2>1. Len(t) \in Nat /\ \A i \in 1 .. Len(t) + 2 : i \in 1 .. Maxlen - 1
    BY DelleEtichette DEF Transazione
  <2> QED  BY <2>1
<1>5. Gio(1) # c /\ Gio(1) \in Indirizzi /\ Jsb # c /\ Jsb \in Indirizzi /\ Sb # c /\ Sb \in Indirizzi
  BY <1>4, Nomi
<1>6. \A i \in 1 .. Len(t) : Gio(i + 1) # c /\ Gio(i + 1) \in Indirizzi
  BY <1>4, Nomi
<1>7. Scritta(O, t, n) /\ O[Sb]
  BY <1>1, <1>3, <1>5, <1>6 DEF Scritta
<1>8. \A a \in Indirizzi : Pulita[a] = {}
  BY DEF Pulita
<1>9. ASSUME NEW i \in 1 .. Maxlen - 1, O[Gio(i)].tipo # "copia"
      PROVE  O[Gio(i)].seq <= n
  <2>1. CASE Gio(i) = c
    BY <2>1, <1>1
  <2>2. CASE Gio(i) # c
    BY <2>2, <1>1, <1>3, <1>9, Nomi DEF Prima
  <2> QED  BY <2>1, <2>2
<1> QED  BY <1>1, <1>7, <1>8, <1>9 DEF DopoPosti

\* Every copy to its place.
ScritturaPosti(v, t) ==
    /\ DOMAIN v = Presenti(t)
    /\ \A i \in 1 .. Len(t) : v[t[i].blk] = t[i].v

LEMMA StadioPosti ==
    ASSUME NEW D, NEW A, NEW O, Retto(D, A, O), A = Pulita, NEW t, Transazione(t), NEW n \in Nat,
           DopoPosti(D, A, O, t, n),
           NEW E, NEW B, NEW P, NEW v, Messo(D, A, O, E, B, P, v), ScritturaPosti(v, t)
    PROVE  /\ DopoPosti(E, B, P, t, n) /\ Messe(P, t)
           /\ \A a \in Posti : P[a] = Veduta(t, O)[a]
           /\ Veduta(t, P) = Veduta(t, O)
<1>1. \A a \in Indirizzi : A[a] = {}
  BY Fermato
<1>2. /\ \A i \in 1 .. Len(t) : t[i].blk \in Posti /\ t[i].blk \in DOMAIN v
      /\ \A a \in DOMAIN v : \E i \in 1 .. Len(t) : t[i].blk = a
  BY DEF Transazione, ScritturaPosti, Presenti
<1>3. /\ E = D
      /\ \A a \in Indirizzi : a \in DOMAIN v => P[a] = v[a]
      /\ \A a \in Indirizzi : a \notin DOMAIN v => P[a] = O[a] /\ B[a] = A[a]
  BY DEF Messo
<1>4. \A i \in 1 .. Len(t) : P[t[i].blk] = t[i].v
  BY <1>2, <1>3, Nomi DEF ScritturaPosti
<1>5. \A a \in Posti : a \notin Presenti(t) => P[a] = O[a]
  BY <1>3, Nomi DEF ScritturaPosti
<1>6. DopoPosti(E, B, P, t, n)
  <2>1. ASSUME NEW a \in Indirizzi, B[a] # {}
        PROVE  \E i \in 1 .. Len(t) : t[i].blk = a
    BY <1>1, <1>2, <1>3, <2>1
  <2> QED  BY <2>1, <1>3 DEF DopoPosti
<1>7. ASSUME NEW a \in Posti
      PROVE  P[a] = Veduta(t, O)[a] /\ Vede(t, P, a) = Vede(t, O, a)
  <2>1. /\ \A i \in 1 .. Len(t) : Vede(t, O, t[i].blk) = t[i].v
        /\ Veduta(t, O)[a] = Vede(t, O, a)
        /\ a \notin Presenti(t) => Veduta(t, O)[a] = O[a]
    BY VedutaSopra
  <2>2. CASE a \in Presenti(t)
    <3>1. PICK i \in 1 .. Len(t) : t[i].blk = a
      BY <2>2 DEF Presenti
    <3>2. Vede(t, P, a) = Vede(t, O, a)
      BY <3>1 DEF Vede
    <3> QED  BY <3>1, <3>2, <2>1, <1>4
  <2>3. CASE a \notin Presenti(t)
    <3>1. P[a] = O[a]
      BY <2>3, <1>5
    <3>2. Vede(t, P, a) = Vede(t, O, a)
      BY <3>1 DEF Vede
    <3> QED  BY <3>1, <3>2, <2>3, <2>1
  <2> QED  BY <2>2, <2>3
<1>8. Veduta(t, P) = Veduta(t, O)
  BY <1>7 DEF Veduta
<1> QED  BY <1>4, <1>6, <1>7, <1>8 DEF Messe

LEMMA StadioTerza ==
    ASSUME NEW D, NEW A, NEW O, Retto(D, A, O), NEW t, Transazione(t), NEW n \in Nat,
           DopoPosti(D, A, O, t, n)
    PROVE  DopoPosti(O, Pulita, O, t, n)
<1>1. \A a \in Indirizzi : a \notin Posti => A[a] = {}
  BY DEF DopoPosti, Transazione
<1>2. Puo(O, D, A)
  BY DEF Retto
<1>3. \A a \in Indirizzi : a \notin Posti => O[a] = D[a]
  BY <1>1, <1>2 DEF Puo
<1>4. O[Sb] = D[Sb] /\ O[Jsb] = D[Jsb] /\ \A i \in 1 .. Maxlen - 1 : O[Gio(i)] = D[Gio(i)]
  BY <1>3, Nomi
<1>5. /\ Len(t) + 2 \in 1 .. Maxlen - 1 /\ 1 \in 1 .. Maxlen - 1
      /\ \A i \in 1 .. Len(t) : i + 1 \in 1 .. Maxlen - 1
  <2>1. Len(t) \in Nat /\ \A i \in 1 .. Len(t) + 2 : i \in 1 .. Maxlen - 1
    BY DelleEtichette DEF Transazione
  <2> QED  BY <2>1
<1>6. Scritta(O, t, n) /\ O[Gio(Len(t) + 2)] = [tipo |-> "commit", seq |-> n]
  <2>1. Scritta(D, t, n) /\ D[Gio(Len(t) + 2)] = [tipo |-> "commit", seq |-> n]
    BY DEF DopoPosti
  <2>2. O[Gio(Len(t) + 2)] = D[Gio(Len(t) + 2)] /\ O[Gio(1)] = D[Gio(1)]
        /\ \A i \in 1 .. Len(t) : O[Gio(i + 1)] = D[Gio(i + 1)]
    BY <1>4, <1>5
  <2> QED  BY <2>1, <2>2, <1>4 DEF Scritta
<1>7. \A i \in 1 .. Maxlen - 1 : O[Gio(i)].tipo # "copia" => O[Gio(i)].seq <= n
  BY <1>4 DEF DopoPosti
<1>8. O[Sb] /\ \A a \in Indirizzi : Pulita[a] = {}
  BY <1>4 DEF DopoPosti, Pulita
<1> QED  BY <1>6, <1>7, <1>8 DEF DopoPosti

\* The places hold the view.
LEMMA VedutaMessa ==
    ASSUME NEW t, Transazione(t), NEW O, Messe(O, t)
    PROVE  /\ Sopra(O, t, O) /\ \A a \in Posti : Veduta(t, O)[a] = O[a]
           /\ Veduta(t, O) = [a \in Posti |-> O[a]]
<1>1. Sopra(O, t, O)
  BY DEF Sopra, Messe
<1>2. ASSUME NEW a \in Posti
      PROVE  Vede(t, O, a) = O[a]
  <2>1. /\ \A i \in 1 .. Len(t) : Vede(t, O, t[i].blk) = t[i].v
        /\ Veduta(t, O)[a] = Vede(t, O, a)
        /\ a \notin Presenti(t) => Veduta(t, O)[a] = O[a]
    BY VedutaSopra
  <2>2. CASE a \in Presenti(t)
    BY <2>1, <2>2 DEF Presenti, Messe
  <2> QED  BY <2>1, <2>2
<1> QED  BY <1>1, <1>2 DEF Veduta

\* The journal is empty again.
LEMMA StadioVuota ==
    ASSUME NEW D, NEW A, NEW O, Retto(D, A, O), A = Pulita, NEW t, Transazione(t), NEW n \in Nat,
           DopoPosti(D, A, O, t, n), Messe(O, t), Intero(O),
           NEW E, NEW B, NEW P, NEW v, Messo(D, A, O, E, B, P, v), Solo(v, Jsb),
           NEW w, w = [seq |-> n + 1, start |-> 0], v[Jsb] = w
    PROVE  /\ Riposo(E, B, P, n + 1) /\ B[Sb] = {} /\ E[Sb]
           /\ \A a \in Posti : P[a] = O[a]
<1>1. O = D /\ \A a \in Indirizzi : A[a] = {} /\ O[a] = D[a]
  BY Fermato
<1>2. /\ E = D /\ P[Jsb] = w /\ B[Jsb] = {w}
      /\ \A a \in Indirizzi : a # Jsb => P[a] = O[a] /\ B[a] = {}
  BY <1>1, Nomi DEF Messo, Solo
<1>3. \A a \in Posti : P[a] = O[a] /\ a # Jsb /\ a \in Indirizzi
  BY <1>2, Nomi
<1>4. B[Sb] = {} /\ E[Sb]
  BY <1>2, Nomi DEF DopoPosti
<1>5. Importanti(P) \subseteq Posti
  <2>1. P[Ino] = O[Ino]
    BY <1>3, Nomi
  <2>2. \A p \in O[Ino] : Dato(p[2]) \in Posti
    BY Nomi DEF Intero, Coerente
  <2> QED  BY <2>1, <2>2, Nomi DEF Importanti
<1>6. Asciutti(B, Importanti(P)) /\ Asciutti(B, {Gio(i) : i \in 1 .. Maxlen - 1})
  <2>1. \A i \in 1 .. Maxlen - 1 : B[Gio(i)] = {}
    BY <1>2, Nomi
  <2> QED  BY <1>2, <1>3, <1>5, <2>1 DEF Asciutti
<1>7. DaRipristinare(D) /\ passo(D).seq = n + 1 /\ \A a \in Posti : Rileggi(D, a) = O[a]
  <2>1. Sopra(O, t, O)
    BY VedutaMessa
  <2>2. Puo(D, D, A)
    BY PuoSe
  <2> QED  BY <2>1, <2>2, TagliaPosti DEF Intero
<1>8. \A a \in Importanti(P) : Rileggi(E, a) = E[a]
  BY <1>1, <1>2, <1>5, <1>7
<1>9. ASSUME NEW i \in 1 .. Maxlen - 1
      PROVE  Prima(E[Gio(i)], n + 1)
  <2>1. Blocco(D[Gio(i)])
    BY DEF Retto, TipoDisco
  <2>2. D[Gio(i)].tipo # "copia" => D[Gio(i)].seq <= n /\ D[Gio(i)].seq \in Nat
    BY <2>1 DEF DopoPosti, Blocco
  <2>3. D[Gio(i)].tipo # "copia" => D[Gio(i)].seq <= n + 1 /\ D[Gio(i)].seq < n + 1
    BY <2>2
  <2>4. "commit" # "copia"
    OBVIOUS
  <2> QED  BY <1>2, <2>3, <2>4 DEF Prima
<1> QED  BY <1>2, <1>3, <1>4, <1>6, <1>7, <1>8, <1>9 DEF Riposo

\* A commit goes on.
LEMMA AncoraCommit ==
    ASSUME Ind, stadio # "no", stadio' \in {"prima", "sigillo", "seconda", "posti", "terza", "vuota"},
           op' = op, UNCHANGED <<fase, memoria>>, StessoFsync,
           Retto(duro', attesa', ora'), Stadi(duro', attesa', ora', slot, seq, op, stadio'),
           Veduta(slot, ora') = Veduta(slot, ora),
           Vive(Veduta(slot, ora), Presenti(slot), ora', pre, op, liberati)
    PROVE  Ind'
<1>1. /\ fase' = fase /\ slot' = slot /\ seq' = seq /\ liberati' = liberati /\ guasto' = guasto
      /\ pre' = pre /\ promesso' = promesso
  BY DEF memoria, StessoFsync
<1>2. op.pc \in {"inizio", "fine", "commit"}
  BY DEF Ind, Controllo
<1>3. fase = "montato" /\ ~guasto /\ ~promesso
  BY <1>2, InCorso
<1>4. Controllo'
  BY <1>1, <1>2, <1>3, TipoPoi DEF Ind, Controllo, Fila, Transazione
<1>5. Spazio'
  BY <1>1 DEF Ind, Spazio, Avviata
<1>6. Coerenti(Veduta(slot, ora), op)
  BY <1>3, VivaOra
<1>7. /\ Stadi(duro', attesa', ora', slot', seq', op', stadio')
      /\ Coerenti(Veduta(slot', ora'), op')
      /\ Vive(Veduta(slot', ora'), Presenti(slot'), ora', pre', op', liberati')
  BY <1>1, <1>6
<1> QED  BY <1>1, <1>3, <1>4, <1>5, <1>7, Assieme

LEMMA PostiScritti ==
    ASSUME Transazione(slot)
    PROVE  ScritturaPosti(InPosti, slot)
<1>1. DOMAIN InPosti = Presenti(slot)
  BY DEF InPosti, Presenti
<1>2. ASSUME NEW i \in 1 .. Len(slot)
      PROVE  InPosti[slot[i].blk] = slot[i].v
  <2>1. slot[i].blk \in {slot[j].blk : j \in 1 .. Len(slot)}
    OBVIOUS
  <2>2. InPosti[slot[i].blk] = Copia(slot[i].blk)
    BY <2>1 DEF InPosti
  <2> DEFINE k == CHOOSE j \in 1 .. Len(slot) : slot[j].blk = slot[i].blk
  <2>3. k \in 1 .. Len(slot) /\ slot[k].blk = slot[i].blk
    OBVIOUS
  <2>4. k = i
    BY <2>3 DEF Transazione
  <2> QED  BY <2>2, <2>4 DEF Copia
<1> QED  BY <1>1, <1>2 DEF ScritturaPosti

\* What a commit that writes leaves.
Mandato(st) ==
    /\ Retto(duro', attesa', ora') /\ Stadi(duro', attesa', ora', slot, seq, op, st)
    /\ Veduta(slot, ora') = Veduta(slot, ora)
    /\ Vive(Veduta(slot, ora), Presenti(slot), ora', pre, op, liberati)

LEMMA ScriveCopie ==
    ASSUME "pigro" \notin Eventi, Ind, stadio = "copie", AlPasso, Metti(InCopie)
    PROVE  Mandato("prima")
<1>1. op.pc \in {"inizio", "fine", "commit"}
  BY DEF Ind, Controllo
<1>2. fase = "montato" /\ ~guasto
  BY <1>1, InCorso
<1>3. /\ Vive(Veduta(slot, ora), Presenti(slot), ora, pre, op, liberati)
      /\ Transazione(slot) /\ seq \in Nat /\ Retto(duro, attesa, ora)
  BY <1>2, VivaOra
<1>4. Intero(ora)
  BY <1>2, VivaOra DEF Intero
<1>5. Riposo(duro, attesa, ora, seq) /\ attesa[Sb] = {} /\ duro[Sb]
  BY <1>1, <1>2 DEF Ind, DiscoMontato
<1>6. attesa[Jsb] = {}
  BY DEF AlPasso, Comando
<1> DEFINE v == InCopie
<1>7. ScritturaCopie(v, slot, seq) /\ Metti(v)
  BY <1>3, CopieScritte
<1> HIDE DEF v
<1>8. Retto(duro', attesa', ora') /\ Messo(duro, attesa, ora, duro', attesa', ora', v)
  <2>1. /\ DOMAIN v \subseteq Indirizzi /\ Sb \notin DOMAIN v
        /\ Jsb \in DOMAIN v /\ v[Jsb] \in [seq : Nat, start : 0 .. Maxlen - 1]
        /\ \A i \in 1 .. Maxlen - 1 : Gio(i) \in DOMAIN v => Blocco(v[Gio(i)])
    BY <1>3, <1>7, CopieTipo
  <2> QED  BY <2>1, <1>3, <1>7, RettoMetti
<1>9. /\ DopoCopie(duro', attesa', ora', seq) /\ Scritta(ora', slot, seq) /\ attesa'[Sb] = {} /\ duro'[Sb]
      /\ \A a \in Posti : ora'[a] = ora[a]
  BY <1>3, <1>4, <1>5, <1>6, <1>7, <1>8, StadioCopie
<1>10. Stadi(duro', attesa', ora', slot, seq, op, "prima")
  BY <1>9 DEF Stadi
<1>11. Vive(Veduta(slot, ora), Presenti(slot), ora', pre, op, liberati)
  BY <1>3, <1>9, VivaStessa
<1>12. Veduta(slot, ora') = Veduta(slot, ora)
  BY <1>9, VedutaStessa
<1> QED  BY <1>8, <1>10, <1>11, <1>12 DEF Mandato

LEMMA ScriveSigillo ==
    ASSUME Ind, stadio = "sigillo", Metti(InSigillo)
    PROVE  Mandato("seconda")
<1>1. op.pc \in {"inizio", "fine", "commit"}
  BY DEF Ind, Controllo
<1>2. fase = "montato" /\ ~guasto
  BY <1>1, InCorso
<1>3. /\ Vive(Veduta(slot, ora), Presenti(slot), ora, pre, op, liberati)
      /\ Transazione(slot) /\ seq \in Nat /\ Retto(duro, attesa, ora)
  BY <1>2, VivaOra
<1>4. DopoCopie(duro, attesa, ora, seq) /\ Scritta(ora, slot, seq) /\ attesa = Pulita /\ duro[Sb]
  BY <1>2 DEF Ind, DiscoMontato
<1> DEFINE v == InSigillo
           c == Gio(Len(slot) + 2)
           w == [tipo |-> "commit", seq |-> seq]
<1>5. DOMAIN v = {c} /\ v[c] = w /\ Metti(v)
  BY DEF InSigillo
<1>6. Blocco(w)
  BY <1>3 DEF Blocco
<1>7. c \in Indirizzi /\ c # Sb /\ c # Jsb
  <2>1. Len(slot) \in Nat /\ \A i \in 1 .. Len(slot) + 2 : i \in 1 .. Maxlen - 1
    BY <1>3, DelleEtichette DEF Transazione
  <2>2. Len(slot) + 2 \in 1 .. Maxlen - 1
    BY <2>1
  <2> QED  BY <2>2, Nomi
<1> HIDE DEF v
<1>8. Retto(duro', attesa', ora') /\ Messo(duro, attesa, ora, duro', attesa', ora', v)
  <2>1. /\ DOMAIN v \subseteq Indirizzi /\ Sb \notin DOMAIN v /\ Jsb \notin DOMAIN v
        /\ \A i \in 1 .. Maxlen - 1 : Gio(i) \in DOMAIN v => Blocco(v[Gio(i)])
    BY <1>5, <1>6, <1>7
  <2> QED  BY <2>1, <1>3, <1>5, RettoMetti
<1>9. DopoSigillo(duro', attesa', ora', slot, seq) /\ \A a \in Posti : ora'[a] = ora[a]
  <2>1. Solo(v, c)
    BY <1>5 DEF Solo
  <2> QED  BY <2>1, <1>3, <1>4, <1>5, <1>8, StadioSigillo
<1>10. Stadi(duro', attesa', ora', slot, seq, op, "seconda")
  BY <1>9 DEF Stadi
<1>11. Vive(Veduta(slot, ora), Presenti(slot), ora', pre, op, liberati)
  BY <1>3, <1>9, VivaStessa
<1>12. Veduta(slot, ora') = Veduta(slot, ora)
  BY <1>9, VedutaStessa
<1> QED  BY <1>8, <1>10, <1>11, <1>12 DEF Mandato

LEMMA ScrivePosti ==
    ASSUME Ind, stadio = "posti", Metti(InPosti)
    PROVE  Mandato("terza")
<1>1. op.pc \in {"inizio", "fine", "commit"}
  BY DEF Ind, Controllo
<1>2. fase = "montato" /\ ~guasto
  BY <1>1, InCorso
<1>3. /\ Vive(Veduta(slot, ora), Presenti(slot), ora, pre, op, liberati)
      /\ Coerenti(Veduta(slot, ora), op)
      /\ Transazione(slot) /\ seq \in Nat /\ Retto(duro, attesa, ora)
  BY <1>2, VivaOra
<1>4. DopoPosti(duro, attesa, ora, slot, seq) /\ attesa = Pulita
  BY <1>2 DEF Ind, DiscoMontato
<1> DEFINE v == InPosti
<1>5. ScritturaPosti(v, slot) /\ Metti(v)
  BY <1>3, PostiScritti
<1> HIDE DEF v
<1>8. Retto(duro', attesa', ora') /\ Messo(duro, attesa, ora, duro', attesa', ora', v)
  <2>0. DOMAIN v \subseteq Posti
    BY <1>3, <1>5 DEF ScritturaPosti, Presenti, Transazione
  <2>1. /\ DOMAIN v \subseteq Indirizzi /\ Sb \notin DOMAIN v /\ Jsb \notin DOMAIN v
        /\ \A i \in 1 .. Maxlen - 1 : Gio(i) \notin DOMAIN v
    BY <2>0, Nomi
  <2> QED  BY <2>1, <1>3, <1>5, RettoMetti
<1>9. /\ DopoPosti(duro', attesa', ora', slot, seq) /\ Messe(ora', slot)
      /\ \A a \in Posti : ora'[a] = Veduta(slot, ora)[a]
      /\ Veduta(slot, ora') = Veduta(slot, ora)
  BY <1>3, <1>4, <1>5, <1>8, StadioPosti
<1>10. Stadi(duro', attesa', ora', slot, seq, op, "terza")
  BY <1>9 DEF Stadi
<1>11. Vive(Veduta(slot, ora), Presenti(slot), ora', pre, op, liberati)
  BY <1>1, <1>3, <1>9, VivaPosto
<1> QED  BY <1>8, <1>9, <1>10, <1>11 DEF Mandato

\* commit() writes.
LEMMA MandaCommit ==
    ASSUME "pigro" \notin Eventi, Ind, stadio # "no", Comando \in Scritture, AlPasso, Manda
    PROVE  /\ stadio \in {"copie", "sigillo", "posti"}
           /\ Mandato(Segue[stadio])
<1>1. Comando = stadio
  BY DEF Comando
<1>2. stadio \in {"copie", "sigillo", "posti"}
  BY <1>1 DEF Scritture, Ind, Controllo
<1>3. CASE stadio = "copie"
  BY <1>1, <1>3, ScriveCopie, TavolaSegue DEF Manda
<1>4. CASE stadio = "sigillo"
  BY <1>1, <1>4, ScriveSigillo, TavolaSegue DEF Manda
<1>5. CASE stadio = "posti"
  BY <1>1, <1>5, ScrivePosti, TavolaSegue DEF Manda
<1> QED  BY <1>2, <1>3, <1>4, <1>5

LEMMA PassoScriveCommit ==
    ASSUME "pigro" \notin Eventi, Ind, stadio # "no", BlkWrite
    PROVE  Ind'
<1>1. /\ Comando \in Scritture /\ AlPasso /\ Manda /\ UNCHANGED <<fase, memoria>> /\ StessoFsync
      /\ stadio' = Segue[stadio] /\ op' = op
  BY DEF BlkWrite, Procede
<1>2. stadio \in {"copie", "sigillo", "posti"} /\ Mandato(stadio')
  BY <1>1, MandaCommit
<1>3. stadio' \in {"prima", "seconda", "terza"}
  BY <1>1, <1>2, TavolaSegue
<1> QED  BY <1>1, <1>2, <1>3, AncoraCommit DEF Mandato

\* commit() waits for the disk.
LEMMA PassoSvuotaCommit ==
    ASSUME Ind, stadio # "no", BlkFlush
    PROVE  Ind'
<1>1. /\ Comando \in Svuotate /\ Svuota /\ UNCHANGED <<fase, memoria>> /\ StessoFsync
      /\ stadio' = Segue[stadio] /\ op' = op
  BY DEF BlkFlush, Procede
<1>2. stadio \in {"prima", "seconda", "terza"}
  BY <1>1 DEF Svuotate, Ind, Controllo, Comando
<1>3. duro' = ora /\ attesa' = Pulita /\ ora' = ora
  BY <1>1 DEF Svuota
<1>4. op.pc \in {"inizio", "fine", "commit"}
  BY DEF Ind, Controllo
<1>5. fase = "montato" /\ ~guasto
  BY <1>4, InCorso
<1>6. /\ Vive(Veduta(slot, ora), Presenti(slot), ora, pre, op, liberati)
      /\ Transazione(slot) /\ seq \in Nat /\ Retto(duro, attesa, ora)
  BY <1>5, VivaOra
<1>7. Intero(ora)
  BY <1>5, VivaOra DEF Intero
<1>8. Retto(duro', attesa', ora')
  BY <1>3, <1>6, Svuotato
<1>9. Stadi(duro, attesa, ora, slot, seq, op, stadio)
  BY <1>5, StadiOra
<1>10. Stadi(ora, Pulita, ora, slot, seq, op, stadio')
  <2>1. CASE stadio = "prima"
    <3>1. DopoCopie(duro, attesa, ora, seq) /\ Scritta(ora, slot, seq) /\ attesa[Sb] = {} /\ duro[Sb]
      BY <1>9, <2>1 DEF Stadi
    <3>2. DopoCopie(ora, Pulita, ora, seq) /\ Pulita[Sb] = {} /\ ora[Sb]
      BY <3>1, <1>6, <1>7, StadioPrima
    <3>3. stadio' = "sigillo"
      BY <2>1, <1>1, TavolaSegue
    <3> QED  BY <3>1, <3>2, <3>3 DEF Stadi
  <2>2. CASE stadio = "seconda"
    <3>1. DopoSigillo(duro, attesa, ora, slot, seq)
      BY <1>9, <2>2 DEF Stadi
    <3>2. DopoPosti(ora, Pulita, ora, slot, seq)
      BY <3>1, <1>6, StadioSeconda
    <3>3. stadio' = "posti"
      BY <2>2, <1>1, TavolaSegue
    <3> QED  BY <3>2, <3>3 DEF Stadi
  <2>3. CASE stadio = "terza"
    <3>1. DopoPosti(duro, attesa, ora, slot, seq) /\ Messe(ora, slot)
      BY <1>9, <2>3 DEF Stadi
    <3>2. DopoPosti(ora, Pulita, ora, slot, seq)
      BY <3>1, <1>6, StadioTerza
    <3>3. stadio' = "vuota"
      BY <2>3, <1>1, TavolaSegue
    <3> QED  BY <3>1, <3>2, <3>3 DEF Stadi
  <2> QED  BY <1>2, <2>1, <2>2, <2>3
<1>11. stadio' \in {"sigillo", "posti", "vuota"}
  BY <1>1, <1>2, TavolaSegue
<1>12. /\ Stadi(duro', attesa', ora', slot, seq, op, stadio')
       /\ Veduta(slot, ora') = Veduta(slot, ora)
       /\ Vive(Veduta(slot, ora), Presenti(slot), ora', pre, op, liberati)
  BY <1>3, <1>6, <1>10
<1> QED  BY <1>1, <1>8, <1>11, <1>12, AncoraCommit

\* The journal is empty again, for the disk: what is there is what is seen.
Svuotata ==
    /\ Retto(duro', attesa', ora') /\ Riposo(duro', attesa', ora', seq + 1)
    /\ attesa'[Sb] = {} /\ duro'[Sb] /\ Intero(ora')
    /\ Veduta(slot, ora') = Veduta(slot, ora)
    /\ \A a \in Posti : ora'[a] = Veduta(slot, ora)[a]
    /\ Veduta(<<>>, ora') = Veduta(slot, ora)

LEMMA ScriveVuota ==
    ASSUME Ind, stadio = "vuota", Metti(InVuota)
    PROVE  Svuotata
<1>1. op.pc \in {"inizio", "fine", "commit"}
  BY DEF Ind, Controllo
<1>2. fase = "montato" /\ ~guasto
  BY <1>1, InCorso
<1>3. /\ Vive(Veduta(slot, ora), Presenti(slot), ora, pre, op, liberati)
      /\ Transazione(slot) /\ seq \in Nat /\ Retto(duro, attesa, ora)
  BY <1>2, VivaOra
<1>4. Intero(ora)
  BY <1>2, VivaOra DEF Intero
<1>5. DopoPosti(duro, attesa, ora, slot, seq) /\ attesa = Pulita /\ Messe(ora, slot)
  BY <1>2 DEF Ind, DiscoMontato, Messe
<1> DEFINE v == InVuota
           w == [seq |-> seq + 1, start |-> 0]
<1>6. DOMAIN v = {Jsb} /\ v[Jsb] = w /\ Metti(v)
  BY DEF InVuota
<1>7. w \in [seq : Nat, start : 0 .. Maxlen - 1]
  BY <1>3, MisureGiornale
<1> HIDE DEF v
<1>8. Retto(duro', attesa', ora') /\ Messo(duro, attesa, ora, duro', attesa', ora', v)
  <2>1. /\ DOMAIN v \subseteq Indirizzi /\ Sb \notin DOMAIN v
        /\ v[Jsb] \in [seq : Nat, start : 0 .. Maxlen - 1]
        /\ \A i \in 1 .. Maxlen - 1 : Gio(i) \notin DOMAIN v
    BY <1>6, <1>7, Nomi
  <2> QED  BY <2>1, <1>3, <1>6, RettoMetti
<1>9. /\ Riposo(duro', attesa', ora', seq + 1) /\ attesa'[Sb] = {} /\ duro'[Sb]
      /\ \A a \in Posti : ora'[a] = ora[a]
  <2>1. Solo(v, Jsb)
    BY <1>6 DEF Solo
  <2> HIDE DEF w
  <2>2. w = [seq |-> seq + 1, start |-> 0]
    BY DEF w
  <2> QED  BY <2>1, <2>2, <1>3, <1>4, <1>5, <1>6, <1>8, StadioVuota
<1>10. Intero(ora')
  BY <1>3, <1>4, <1>9, VivaStessa
<1>11. Veduta(slot, ora') = Veduta(slot, ora)
  BY <1>9, VedutaStessa
<1>12. \A a \in Posti : ora'[a] = Veduta(slot, ora)[a]
  <2>1. \A a \in Posti : Veduta(slot, ora)[a] = ora[a]
    BY <1>3, <1>5, VedutaMessa
  <2> QED  BY <1>9, <2>1
<1>13. Veduta(<<>>, ora') = Veduta(slot, ora)
  <2>1. Veduta(<<>>, ora') = [a \in Posti |-> ora'[a]]
    BY VedutaVuota
  <2>2. Veduta(slot, ora) = [a \in Posti |-> Veduta(slot, ora)[a]]
    BY VedutaForma
  <2>3. [a \in Posti |-> ora'[a]] = [a \in Posti |-> Veduta(slot, ora)[a]]
    BY <1>12
  <2> QED  BY <2>1, <2>2, <2>3
<1> QED  BY <1>8, <1>9, <1>10, <1>11, <1>12, <1>13 DEF Svuotata

LEMMA PassoVuota ==
    ASSUME Ind, Vuota
    PROVE  Ind'
<1>1. /\ stadio = "vuota" /\ Metti(InVuota) /\ seq' = seq + 1 /\ liberati' = FALSE /\ slot' = <<>>
      /\ stadio' = "no" /\ fase' = fase /\ guasto' = guasto /\ pre' = pre /\ op' = op
      /\ promesso' = promesso
  BY DEF Vuota
<1>2. op.pc \in {"inizio", "fine", "commit"}
  BY <1>1 DEF Ind, Controllo
<1>3. fase = "montato" /\ ~guasto /\ ~promesso
  BY <1>2, InCorso
<1>4. Svuotata
  BY <1>1, ScriveVuota
<1>5. /\ Vive(Veduta(slot, ora), Presenti(slot), ora, pre, op, liberati)
      /\ Coerenti(Veduta(slot, ora), op) /\ seq \in Nat
  BY <1>3, VivaOra
<1>6. Fila(<<>>) /\ Transazione(<<>>) /\ Presenti(<<>>) = {}
  BY VedutaVuota
<1>7. Controllo'
  <2>1. Fila(slot) /\ Transazione(slot) /\ Fila(slot)' /\ Transazione(slot)'
    BY <1>1, <1>6 DEF Ind, Controllo, Fila, Transazione
  <2>2. seq' \in Nat
    BY <1>1, <1>5
  <2> QED  BY <1>1, <1>2, <1>3, <2>1, <2>2, TipoPoi DEF Ind, Controllo
<1>8. Spazio'
  <2>1. ~Avviata(op')
    BY <1>1, <1>2 DEF Avviata
  <2>2. ~Avviata(op)'
    BY <2>1 DEF Avviata
  <2>3. 2 * Len(slot') < MaxSlot
    <3>1. Len(slot') = 0
      BY <1>1
    <3> QED  BY <3>1, MisureGiornale
  <2> QED  BY <2>2, <2>3 DEF Spazio
<1>9. Stadi(duro', attesa', ora', slot', seq', op', stadio')
  <2>1. op'.pc \notin {"sb", "flushsb", "smontato", "torna"}
    BY <1>1, <1>2
  <2>2. Fermo(duro', attesa', ora', seq', op')
    BY <1>1, <1>4, <2>1 DEF Svuotata, Fermo
  <2> QED  BY <1>1, <2>2 DEF Stadi
<1>10. Coerenti(Veduta(slot', ora'), op')
  BY <1>1, <1>4, <1>5 DEF Svuotata
<1>11. Vive(Veduta(slot, ora), {}, ora', pre, op, FALSE)
  BY <1>2, <1>4, <1>5, VivaPosto DEF Svuotata
<1>12. Vive(Veduta(slot', ora'), Presenti(slot'), ora', pre', op', liberati')
  BY <1>1, <1>4, <1>6, <1>11 DEF Svuotata
<1>13. Retto(duro', attesa', ora')
  BY <1>4 DEF Svuotata
<1> QED  BY <1>1, <1>3, <1>7, <1>8, <1>9, <1>10, <1>12, <1>13, Assieme

-----------------------------------------------------------------------------
(* What goes wrong.                                                        *)

\* A cut gives what was there or what is seen, m.
Salvo(D, A, O, m) ==
    Tagliabile(D, A, O) /\ Recuperato(O) \in {Recuperato(D), [a \in Meta |-> m[a]]}

LEMMA StadiSalvi ==
    ASSUME NEW D, NEW A, NEW O, Retto(D, A, O), NEW t, Transazione(t), NEW n \in Nat,
           NEW o, NEW st \in {"no", "copie", "prima", "sigillo", "seconda", "posti", "terza", "vuota"},
           Stadi(D, A, O, t, n, o, st), Intero(O),
           NEW m, m = Veduta(t, O), Coerente(m)
    PROVE  Salvo(D, A, O, m)
<1>1. Coerente([a \in Posti |-> O[a]])
  BY DEF Intero
<1>2. Coerente([a \in Posti |-> m[a]])
  <2>1. m = [a \in Posti |-> m[a]]
    BY VedutaForma
  <2> QED  BY <2>1
<1>3. Puo(D, D, A) /\ Puo(O, D, A)
  BY PuoSe
<1>4. Sopra(O, t, m)
  BY VedutaSopra
<1>5. CASE st \in {"no", "copie"}
  <2>1. Riposo(D, A, O, n)
    BY <1>5 DEF Stadi, Fermo
  <2>2. /\ \A d : Puo(d, D, A) => Sano(d) /\ Recuperato(d) = [a \in Meta |-> O[a]]
        /\ Tagliabile(D, A, O)
    BY <2>1, <1>1, TagliaRiposo
  <2>3. Recuperato(O) = Recuperato(D)
    BY <1>3, <2>2
  <2> QED  BY <2>2, <2>3 DEF Salvo
<1>6. CASE st \in {"prima", "sigillo"}
  <2>1. DopoCopie(D, A, O, n)
    BY <1>6 DEF Stadi
  <2>2. /\ \A d : Puo(d, D, A) => Sano(d) /\ Recuperato(d) = [a \in Meta |-> O[a]]
        /\ Tagliabile(D, A, O)
    BY <2>1, <1>1, TagliaCopie
  <2>3. Recuperato(O) = Recuperato(D)
    BY <1>3, <2>2
  <2> QED  BY <2>2, <2>3 DEF Salvo
<1>7. CASE st = "seconda"
  <2>1. DopoSigillo(D, A, O, t, n)
    BY <1>7 DEF Stadi
  <2>2. Recuperato(O) = [a \in Meta |-> m[a]] /\ Tagliabile(D, A, O)
    BY <2>1, <1>1, <1>2, <1>4, TagliaSigillo
  <2> QED  BY <2>2 DEF Salvo
<1>8. CASE st \in {"posti", "terza", "vuota"}
  <2>1. DopoPosti(D, A, O, t, n)
    BY <1>8 DEF Stadi
  <2>2. Recuperato(O) = [a \in Meta |-> m[a]] /\ Tagliabile(D, A, O)
    BY <2>1, <1>2, <1>3, <1>4, TagliaPosti
  <2> QED  BY <2>2 DEF Salvo
<1> QED  BY <1>5, <1>6, <1>7, <1>8

LEMMA TagliabilePoi ==
    ASSUME Tagliabile(duro', attesa', ora') PROVE Tagliabile(duro, attesa, ora)'
BY Zenon DEF Tagliabile, Puo, Recuperato, Rileggi, DaRipristinare, passo, Partenza, Esamina,
             Buone, Sano, Disco, Nuova

\* The volume is not mounted any more, or could not be.
LEMMA NonMontato ==
    ASSUME fase' \in {"spento", "sola"}, op' = Niente, stadio' = "no", slot' = <<>>, seq' \in Nat,
           liberati' = FALSE, guasto' = FALSE, pre' = {}, promesso' = FALSE,
           Retto(duro', attesa', ora'), Tagliabile(duro', attesa', ora')
    PROVE  Ind'
<1>2. Fila(<<>>) /\ Transazione(<<>>)
  BY VedutaVuota
<1>3. Fila(slot)' /\ Transazione(slot)'
  BY <1>2 DEF Fila, Transazione
<1>4. TipoOp(op)'
  BY NienteTipo, TipoPoi
<1>5. Controllo'
  BY <1>3, <1>4, NienteTipo DEF Controllo
<1>6. Spazio'
  <2>1. ~Avviata(op)'
    BY NienteTipo DEF Avviata
  <2> QED  BY <2>1 DEF Spazio
<1>7. Retto(duro, attesa, ora)'
  BY RettoPoi
<1>8. Tagliabile(duro, attesa, ora)'
  BY TagliabilePoi
<1>9. Letto'
  <2>1. Visto' = Recuperato(ora)'
    BY DEF Visto
  <2> QED  BY <2>1 DEF Letto
<1>10. DiscoMontato' /\ DiscoInMonta' /\ VivaC' /\ VivaV'
  BY DEF DiscoMontato, DiscoInMonta, VivaC, VivaV
<1> QED  BY <1>5, <1>6, <1>7, <1>8, <1>9, <1>10 DEF Ind

LEMMA Spento ==
    ASSUME fase' \in {"spento", "sola"}, op' = Niente, stadio' = "no", VuotaMemoria, promesso' = FALSE,
           Retto(duro', attesa', ora'), Tagliabile(duro', attesa', ora')
    PROVE  Ind'
<1>1. slot' = <<>> /\ seq' = 0 /\ liberati' = FALSE /\ guasto' = FALSE /\ pre' = {}
  BY DEF VuotaMemoria
<1> QED  BY <1>1, NonMontato

-----------------------------------------------------------------------------
(* The mount, step by step.                                                *)

Montando(D, A, O, n, w) ==
    /\ w \in {"replay", "jsb", "sb", "montato"} => A = Pulita
    /\ w \in {"replay", "flush"} => DaRipristinare(D)
    /\ w \in {"replay", "flush", "jsb", "flushjsb"} => n = Nuova(D)
    /\ w = "flush" =>
         /\ \A a \in Indirizzi : A[a] # {} => a \in Posti /\ Buone(passo(D), a) # {}
         /\ \A a \in Posti : O[a] = Rileggi(D, a)
    /\ w \in {"jsb", "flushjsb"} => \A a \in Posti : Rileggi(D, a) = D[a]
    /\ w = "flushjsb" => /\ \A a \in Indirizzi : a # Jsb => A[a] = {}
                         /\ A[Jsb] \subseteq {[seq |-> n, start |-> 0]}
    /\ w \in {"flushjsb", "sb", "flushsb", "montato"} => O[Jsb] = [seq |-> n, start |-> 0]
    /\ w = "flushsb" => \A a \in Indirizzi : a # Sb => A[a] = {}
    /\ w \in {"flushsb", "montato"} => O[Sb]

LEMMA MontandoOra ==
    ASSUME Ind, fase = "monta"
    PROVE  Montando(duro, attesa, ora, seq, op.pc)
BY DEF Ind, DiscoInMonta, Montando

LEMMA MontandoPoi ==
    ASSUME Montando(duro', attesa', ora', seq', op'.pc)
    PROVE  DiscoInMonta'
<1>1. /\ DaRipristinare(duro)' = DaRipristinare(duro') /\ Nuova(duro)' = Nuova(duro')
      /\ passo(duro)' = passo(duro')
  BY Zenon DEF DaRipristinare, Nuova, passo
<1>2. \A a : Rileggi(duro, a)' = Rileggi(duro', a)
  BY Zenon DEF Rileggi, DaRipristinare, passo, Buone
<1>3. \A a : Buone(passo(duro), a)' = Buone(passo(duro'), a)
  BY Zenon DEF Buone, passo
<1> QED  BY <1>1, <1>2, <1>3 DEF Montando, DiscoInMonta

LEMMA InMonta ==
    ASSUME fase' = "monta", TipoOp(op'), op'.che = "monta", stadio' = "no", slot' = <<>>,
           liberati' = FALSE, guasto' = FALSE, pre' = {}, seq' \in Nat, promesso' = FALSE,
           Retto(duro', attesa', ora'), Tagliabile(duro', attesa', ora'),
           Montando(duro', attesa', ora', seq', op'.pc)
    PROVE  Ind'
<1>1. Fila(slot)' /\ Transazione(slot)'
  BY VedutaVuota DEF Fila, Transazione
<1>2. TipoOp(op)' /\ op' # Niente
  BY NienteTipo, TipoPoi
<1>3. Controllo'
  BY <1>1, <1>2 DEF Controllo
<1>4. Spazio'
  <2>1. ~Avviata(op)'
    BY DEF Avviata
  <2> QED  BY <2>1 DEF Spazio
<1>5. Retto(duro, attesa, ora)' /\ Tagliabile(duro, attesa, ora)'
  BY RettoPoi, TagliabilePoi
<1>6. Letto'
  <2>1. Visto' = Recuperato(ora)'
    BY DEF Visto
  <2> QED  BY <2>1 DEF Letto
<1>7. DiscoInMonta'
  BY MontandoPoi
<1>8. DiscoMontato' /\ VivaC' /\ VivaV'
  BY DEF DiscoMontato, VivaC, VivaV
<1> QED  BY <1>3, <1>4, <1>5, <1>6, <1>7, <1>8 DEF Ind

LEMMA ProntoMonta ==
    ASSUME Ind, fase = "monta"
    PROVE  /\ TipoOp(op) /\ op.che = "monta" /\ op # Niente /\ stadio = "no" /\ slot = <<>>
           /\ liberati = FALSE /\ guasto = FALSE /\ pre = {} /\ seq \in Nat /\ promesso = FALSE
           /\ Retto(duro, attesa, ora) /\ Tagliabile(duro, attesa, ora)
           /\ Sano(duro) /\ Sano(ora)
<1>1. Retto(duro, attesa, ora) /\ Tagliabile(duro, attesa, ora) /\ Controllo
  BY DEF Ind
<1>2. Puo(duro, duro, attesa) /\ Puo(ora, duro, attesa)
  BY <1>1, PuoSe
<1>3. Sano(duro) /\ Sano(ora)
  BY <1>1, <1>2 DEF Tagliabile
<1>4. op # Niente
  BY <1>1, NienteTipo DEF Controllo
<1> QED  BY <1>1, <1>3, <1>4 DEF Controllo

\* REPLAY writes the blocks.
LEMMA ScriveReplay ==
    ASSUME Retto(duro, attesa, ora), Sano(duro), attesa = Pulita, DaRipristinare(duro),
           Scrive([a \in Posti |-> Rileggi(ora, a)], [a \in Posti |-> ripristina(ora, a)])
    PROVE  /\ Retto(duro', attesa', ora') /\ Tagliabile(duro', attesa', ora') /\ duro' = duro
           /\ \A a \in Indirizzi : attesa'[a] # {} => a \in Posti /\ Buone(passo(duro), a) # {}
           /\ \A a \in Posti : ora'[a] = Rileggi(duro, a)
<1>1. ora = duro /\ \A a \in Indirizzi : attesa[a] = {}
  BY Fermato
<1> DEFINE v == [a \in Posti |-> Rileggi(ora, a)]
           t == [a \in Posti |-> ripristina(ora, a)]
<1>2. DOMAIN v = Posti /\ Scrive(v, t)
  OBVIOUS
<1>3. \A a \in Posti : v[a] = Rileggi(duro, a) /\ t[a] = ripristina(duro, a)
  BY <1>1
<1> HIDE DEF v, t
<1>4. Disco(duro)
  BY PuoSe
<1>5. ASSUME NEW a \in Posti
      PROVE  /\ v[a] \in t[a] \/ v[a] = ora[a]
             /\ t[a] # {} => Buone(passo(duro), a) # {}
  <2>1. t[a] # {} => Buone(passo(duro), a) # {}
    BY <1>3 DEF ripristina
  <2>2. CASE Buone(passo(duro), a) = {}
    BY <2>1, <2>2, <1>1, <1>3, <1>4, Intatto
  <2>3. CASE Buone(passo(duro), a) # {}
    <3>1. PICK i \in Buone(passo(duro), a) : Rileggi(duro, a) = duro[Gio(passo(duro).fatte[i].pos)].v
      BY <2>3, <1>4, UltimaCopia
    <3>2. Rileggi(duro, a) \in ripristina(duro, a)
      BY <3>1 DEF ripristina
    <3> QED  BY <2>1, <3>2, <1>3
  <2> QED  BY <2>2, <2>3
<1>6. /\ DOMAIN v \subseteq Indirizzi /\ Sb \notin DOMAIN v /\ Jsb \notin DOMAIN v
      /\ \A i \in 1 .. Maxlen - 1 : Gio(i) \notin DOMAIN v
  BY <1>2, Nomi
<1>7. \A a \in DOMAIN v : v[a] \in t[a] \/ v[a] = ora[a]
  BY <1>2, <1>5
<1>8. /\ Retto(duro', attesa', ora') /\ duro' = duro
      /\ \A a \in Indirizzi : /\ ora'[a] = IF a \in DOMAIN v THEN v[a] ELSE ora[a]
                              /\ attesa'[a] = attesa[a] \cup (IF a \in DOMAIN v THEN t[a] ELSE {})
  BY <1>2, <1>6, <1>7, RettoScrive
<1>9. \A a \in Indirizzi : attesa'[a] # {} => a \in Posti /\ Buone(passo(duro), a) # {}
  BY <1>1, <1>2, <1>5, <1>8
<1>10. \A a \in Posti : ora'[a] = Rileggi(duro, a)
  BY <1>2, <1>3, <1>8, Nomi
<1>11. Tagliabile(duro', attesa', ora')
  <2>1. /\ Retto(duro, attesa', ora')
        /\ \A a \in Indirizzi : attesa'[a] # {} =>
             a \in Posti /\ DaRipristinare(duro) /\ Buone(passo(duro), a) # {}
    BY <1>8, <1>9
  <2>2. Tagliabile(duro, attesa', ora')
    BY <2>1, TagliaReplay
  <2> QED  BY <2>2, <1>8
<1> QED  BY <1>8, <1>9, <1>10, <1>11

\* One block outside the volume is written, with nothing else in the cache.
LEMMA ScriveUno ==
    ASSUME Retto(duro, attesa, ora), attesa = Pulita, NEW a \in {Jsb, Sb}, NEW w,
           a = Sb => w \in BOOLEAN, a = Jsb => w \in [seq : Nat, start : 0 .. Maxlen - 1],
           Metti([c \in {a} |-> w])
    PROVE  /\ Retto(duro', attesa', ora') /\ duro' = duro
           /\ ora'[a] = w /\ attesa'[a] = {w}
           /\ \A c \in Indirizzi : c # a => ora'[c] = duro[c] /\ attesa'[c] = {}
<1>1. \A c \in Indirizzi : attesa[c] = {} /\ ora[c] = duro[c]
  BY Fermato
<1> DEFINE v == [c \in {a} |-> w]
<1>2. DOMAIN v = {a} /\ v[a] = w /\ Metti(v)
  OBVIOUS
<1> HIDE DEF v
<1>3. /\ DOMAIN v \subseteq Indirizzi /\ Sb \in DOMAIN v => v[Sb] \in BOOLEAN
  BY <1>2, Nomi
<1>4. Jsb \in DOMAIN v => v[Jsb] \in [seq : Nat, start : 0 .. Maxlen - 1]
  BY <1>2, Nomi
<1>5. \A i \in 1 .. Maxlen - 1 : Gio(i) \notin DOMAIN v
  BY <1>2, Nomi
<1>6. Retto(duro', attesa', ora') /\ Messo(duro, attesa, ora, duro', attesa', ora', v)
  BY <1>2, <1>3, <1>4, <1>5, Nomi, RettoMetti
<1> QED  BY <1>1, <1>2, <1>6, Nomi DEF Messo

\* giornale_monta writes.
LEMMA MandaMonta ==
    ASSUME Ind, fase = "monta", Comando \in Scritture, Manda
    PROVE  /\ Retto(duro', attesa', ora') /\ Tagliabile(duro', attesa', ora')
           /\ op.pc \in {"replay", "jsb", "sb"}
           /\ Montando(duro', attesa', ora', seq, Poi["monta"][op.pc])
<1>1. /\ TipoOp(op) /\ op.che = "monta" /\ stadio = "no" /\ seq \in Nat
      /\ Retto(duro, attesa, ora) /\ Sano(duro) /\ Montando(duro, attesa, ora, seq, op.pc)
  BY ProntoMonta, MontandoOra
<1>2. Comando = op.pc
  BY <1>1 DEF Comando
<1>3. op.pc \in {"replay", "jsb", "sb"}
  BY <1>1, <1>2, NienteTipo DEF Scritture, TipoOp
<1>4. attesa = Pulita
  BY <1>1, <1>3 DEF Montando
<1>5. ora = duro
  BY <1>1, <1>4, Fermato
<1>6. CASE op.pc = "replay"
  <2>1. DaRipristinare(duro) /\ seq = Nuova(duro)
    BY <1>1, <1>6 DEF Montando
  <2>2. Scrive([a \in Posti |-> Rileggi(ora, a)], [a \in Posti |-> ripristina(ora, a)])
    BY <1>2, <1>6 DEF Manda
  <2>3. /\ Retto(duro', attesa', ora') /\ Tagliabile(duro', attesa', ora') /\ duro' = duro
        /\ \A a \in Indirizzi : attesa'[a] # {} => a \in Posti /\ Buone(passo(duro), a) # {}
        /\ \A a \in Posti : ora'[a] = Rileggi(duro, a)
    BY <1>1, <1>4, <2>1, <2>2, ScriveReplay
  <2>4. Poi["monta"][op.pc] = "flush"
    BY <1>6, Tavola
  <2>5. Montando(duro', attesa', ora', seq, "flush")
    BY <2>1, <2>3 DEF Montando
  <2> QED  BY <1>3, <2>3, <2>4, <2>5
<1>7. CASE op.pc = "jsb"
  <2>1. seq = Nuova(duro) /\ \A a \in Posti : Rileggi(duro, a) = duro[a]
    BY <1>1, <1>7 DEF Montando
  <2> DEFINE w == [seq |-> seq, start |-> 0]
  <2>2. Metti([a \in {Jsb} |-> w])
    BY <1>2, <1>7 DEF Manda
  <2>3. w \in [seq : Nat, start : 0 .. Maxlen - 1] /\ Jsb # Sb
    BY <1>1, MisureGiornale, Nomi
  <2>4. w = [seq |-> Nuova(duro), start |-> 0]
    BY <2>1
  <2>4a. w = [seq |-> seq, start |-> 0]
    OBVIOUS
  <2> HIDE DEF w
  <2>5. /\ Retto(duro', attesa', ora') /\ duro' = duro
        /\ ora'[Jsb] = w /\ attesa'[Jsb] = {w}
        /\ \A c \in Indirizzi : c # Jsb => ora'[c] = duro[c] /\ attesa'[c] = {}
    BY <1>1, <1>4, <2>2, <2>3, ScriveUno
  <2>6. Tagliabile(duro, attesa', ora')
    <3>1. Retto(duro, attesa', ora') /\ attesa'[Jsb] \subseteq {[seq |-> Nuova(duro), start |-> 0]}
          /\ \A c \in Indirizzi : c # Jsb => attesa'[c] = {}
      BY <2>4, <2>5
    <3> QED  BY <3>1, <1>1, <2>1, TagliaJsb
  <2>7. Poi["monta"][op.pc] = "flushjsb"
    BY <1>7, Tavola
  <2>8. Montando(duro', attesa', ora', seq, "flushjsb")
    BY <2>1, <2>4a, <2>5 DEF Montando
  <2> QED  BY <1>3, <2>5, <2>6, <2>7, <2>8
<1>8. CASE op.pc = "sb"
  <2>1. ora[Jsb] = [seq |-> seq, start |-> 0]
    BY <1>1, <1>8 DEF Montando
  <2>2. Metti([a \in {Sb} |-> TRUE])
    BY <1>1, <1>2, <1>8 DEF Manda
  <2>5. /\ Retto(duro', attesa', ora') /\ duro' = duro
        /\ ora'[Sb] = TRUE
        /\ \A c \in Indirizzi : c # Sb => ora'[c] = duro[c] /\ attesa'[c] = {}
    BY <1>1, <1>4, <2>2, Nomi, ScriveUno
  <2>6. Tagliabile(duro, attesa', ora')
    <3>1. Retto(duro, attesa', ora') /\ duro[Jsb].start = 0
          /\ \A c \in Indirizzi : c # Sb => attesa'[c] = {}
      BY <1>5, <2>1, <2>5
    <3> QED  BY <3>1, <1>1, TagliaSb
  <2>7. Poi["monta"][op.pc] = "flushsb"
    BY <1>8, Tavola
  <2>8. ora'[Jsb] = [seq |-> seq, start |-> 0]
    BY <1>5, <2>1, <2>5, Nomi
  <2>9. Montando(duro', attesa', ora', seq, "flushsb")
    BY <2>5, <2>8 DEF Montando
  <2> QED  BY <1>3, <2>5, <2>6, <2>7, <2>9
<1> QED  BY <1>3, <1>6, <1>7, <1>8

\* The mount goes on.
LEMMA AncoraMonta ==
    ASSUME Ind, fase = "monta", Avanza, stadio' = stadio, UNCHANGED <<fase, memoria>>, StessoFsync,
           op.pc # "montato", Retto(duro', attesa', ora'), Tagliabile(duro', attesa', ora'),
           Montando(duro', attesa', ora', seq, Poi["monta"][op.pc])
    PROVE  Ind'
<1>1. /\ TipoOp(op) /\ op.che = "monta" /\ op # Niente /\ stadio = "no" /\ slot = <<>>
      /\ liberati = FALSE /\ guasto = FALSE /\ pre = {} /\ seq \in Nat /\ promesso = FALSE
  BY ProntoMonta
<1>2. /\ fase' = fase /\ slot' = slot /\ seq' = seq /\ liberati' = liberati /\ guasto' = guasto
      /\ pre' = pre /\ promesso' = promesso
  BY DEF memoria, StessoFsync
<1>3. Poi["monta"][op.pc] # "no"
  BY <1>1, NienteTipo, Tavola DEF TipoOp
<1>4. TipoOp(op') /\ op'.che = "monta" /\ op'.pc = Poi["monta"][op.pc]
  BY <1>1, <1>3, VaOltre, OltreOp DEF Avanza, Poco
<1>5. Montando(duro', attesa', ora', seq', op'.pc)
  BY <1>2, <1>4
<1> QED  BY <1>1, <1>2, <1>4, <1>5, InMonta

LEMMA PassoScriveMonta ==
    ASSUME Ind, fase = "monta", BlkWrite
    PROVE  Ind'
<1>1. stadio = "no"
  BY ProntoMonta
<1>2. Comando \in Scritture /\ Manda /\ Avanza /\ stadio' = stadio /\ UNCHANGED <<fase, memoria>> /\ StessoFsync
  BY <1>1 DEF BlkWrite, Procede
<1>3. /\ Retto(duro', attesa', ora') /\ Tagliabile(duro', attesa', ora')
      /\ op.pc \in {"replay", "jsb", "sb"}
      /\ Montando(duro', attesa', ora', seq, Poi["monta"][op.pc])
  BY <1>2, MandaMonta
<1> QED  BY <1>2, <1>3, AncoraMonta

\* giornale_monta waits for the disk.
LEMMA PassoSvuotaMonta ==
    ASSUME Ind, fase = "monta", BlkFlush
    PROVE  Ind'
<1>1. /\ TipoOp(op) /\ op.che = "monta" /\ stadio = "no" /\ seq \in Nat
      /\ Retto(duro, attesa, ora) /\ Sano(duro) /\ Sano(ora) /\ Montando(duro, attesa, ora, seq, op.pc)
  BY ProntoMonta, MontandoOra
<1>2. Comando \in Svuotate /\ Svuota /\ Avanza /\ stadio' = stadio /\ UNCHANGED <<fase, memoria>> /\ StessoFsync
  BY <1>1 DEF BlkFlush, Procede
<1>3. op.pc \in {"flush", "flushjsb", "flushsb"}
  BY <1>1, <1>2, NienteTipo DEF Svuotate, TipoOp, Comando
<1>4. duro' = ora /\ attesa' = Pulita /\ ora' = ora
  BY <1>2 DEF Svuota
<1>5. Retto(duro', attesa', ora') /\ Tagliabile(duro', attesa', ora')
  BY <1>1, <1>4, TagliaFermo
<1>6. Montando(ora, Pulita, ora, seq, Poi["monta"][op.pc])
  <2>1. CASE op.pc = "flush"
    <3>1. /\ DaRipristinare(duro) /\ seq = Nuova(duro)
          /\ \A a \in Indirizzi : attesa[a] # {} => a \in Posti /\ Buone(passo(duro), a) # {}
          /\ \A a \in Posti : ora[a] = Rileggi(duro, a)
      BY <1>1, <2>1 DEF Montando
    <3>2. Puo(ora, duro, attesa)
      BY <1>1, PuoSe
    <3>3. /\ Nuova(ora) = Nuova(duro)
          /\ \A a \in Posti : Rileggi(ora, a) = Rileggi(duro, a)
      BY <1>1, <3>1, <3>2, TagliaReplay
    <3>4. Poi["monta"][op.pc] = "jsb"
      BY <2>1, Tavola
    <3>5. Montando(ora, Pulita, ora, seq, "jsb")
      BY <3>1, <3>3 DEF Montando
    <3> QED  BY <3>4, <3>5
  <2>2. CASE op.pc = "flushjsb"
    <3>1. Poi["monta"][op.pc] = "sb"
      BY <2>2, Tavola
    <3>2. Montando(ora, Pulita, ora, seq, "sb")
      BY <1>1, <2>2 DEF Montando
    <3> QED  BY <3>1, <3>2
  <2>3. CASE op.pc = "flushsb"
    <3>1. Poi["monta"][op.pc] = "montato"
      BY <2>3, Tavola
    <3>2. Montando(ora, Pulita, ora, seq, "montato")
      BY <1>1, <2>3 DEF Montando
    <3> QED  BY <3>1, <3>2
  <2> QED  BY <1>3, <2>1, <2>2, <2>3
<1>7. Montando(duro', attesa', ora', seq, Poi["monta"][op.pc])
  BY <1>4, <1>6
<1> QED  BY <1>2, <1>3, <1>5, <1>7, AncoraMonta

\* The mount begins.
LEMMA PassoMonta ==
    ASSUME "rimonta" \notin Eventi, Ind, Monta
    PROVE  Ind'
<1>1. /\ fase \in {"spento", "sola"} /\ op = Niente /\ attesa = Pulita
      /\ op' = Chiamata("monta", IF DaRipristinare(ora) /\ passo(ora).seq # ora[Jsb].seq
                                 THEN "replay" ELSE "jsb")
      /\ seq' = Nuova(ora) /\ fase' = "monta" /\ duro' = duro /\ ora' = ora /\ attesa' = attesa
      /\ slot' = slot /\ liberati' = liberati /\ guasto' = guasto /\ pre' = pre /\ stadio' = stadio
      /\ promesso' = promesso
  BY DEF Monta, disco
<1>2. /\ Retto(duro, attesa, ora) /\ Tagliabile(duro, attesa, ora)
      /\ slot = <<>> /\ liberati = FALSE /\ guasto = FALSE /\ stadio = "no" /\ pre = {} /\ promesso = FALSE
  BY <1>1 DEF Ind, Controllo
<1>3. ora = duro /\ Disco(duro)
  BY <1>1, <1>2, Fermato, PuoSe
<1>4. Nuova(duro) \in Nat
  <2>1. duro[Jsb].seq \in Nat
    BY <1>3 DEF Disco
  <2>2. CASE DaRipristinare(duro)
    <3>1. passo(duro) \in Visite(duro)
      BY <1>3, <2>2, Arriva DEF DaRipristinare
    <3>2. passo(duro).seq \in Nat
      BY <3>1 DEF Visite
    <3> QED  BY <2>2, <3>2 DEF Nuova
  <2> QED  BY <2>1, <2>2 DEF Nuova
<1>5. CASE DaRipristinare(ora) /\ passo(ora).seq # ora[Jsb].seq
  <2>1. op' = Chiamata("monta", "replay")
    BY <1>1, <1>5
  <2>2. op' \in Opere /\ op'.che = "monta" /\ op'.pc = "replay"
    BY <2>1, Semplici DEF Nomate, Punti
  <2>3. TipoOp(op')
    BY <2>2 DEF TipoOp
  <2>4. Montando(duro, attesa, ora, Nuova(duro), "replay")
    BY <1>1, <1>3, <1>5 DEF Montando
  <2>5. Montando(duro', attesa', ora', seq', op'.pc)
    BY <1>1, <1>3, <2>2, <2>4
  <2> QED  BY <1>1, <1>2, <1>3, <1>4, <2>2, <2>3, <2>5, InMonta
<1>6. CASE ~(DaRipristinare(ora) /\ passo(ora).seq # ora[Jsb].seq)
  <2>1. op' = Chiamata("monta", "jsb")
    BY <1>1, <1>6
  <2>2. op' \in Opere /\ op'.che = "monta" /\ op'.pc = "jsb"
    BY <2>1, Semplici DEF Nomate, Punti
  <2>3. TipoOp(op')
    BY <2>2 DEF TipoOp
  <2>4. \A a : Rileggi(duro, a) = duro[a]
    BY <1>3, <1>6, NullaDaFare
  <2>5. Montando(duro, attesa, ora, Nuova(duro), "jsb")
    BY <1>1, <2>4 DEF Montando
  <2>6. Montando(duro', attesa', ora', seq', op'.pc)
    BY <1>1, <1>3, <2>2, <2>5
  <2> QED  BY <1>1, <1>2, <1>3, <1>4, <2>2, <2>3, <2>6, InMonta
<1> QED  BY <1>5, <1>6

\* The volume is open for writing.
LEMMA PassoMontato ==
    ASSUME Ind, stadio = "no", op.pc = "montato", op' = Oltre, stadio' = stadio, fase' = "montato",
           UNCHANGED <<disco, memoria, promesso>>
    PROVE  Ind'
<1>1. fase = "monta"
  <2>1. TipoOp(op) /\ (fase = "monta" <=> op.che = "monta")
    BY DEF Ind, Controllo
  <2> QED  BY <2>1, Luoghi
<1>2. /\ TipoOp(op) /\ op.che = "monta" /\ op # Niente /\ slot = <<>>
      /\ liberati = FALSE /\ guasto = FALSE /\ pre = {} /\ seq \in Nat /\ promesso = FALSE
      /\ Retto(duro, attesa, ora) /\ Sano(duro) /\ Sano(ora)
      /\ Montando(duro, attesa, ora, seq, "montato")
  BY <1>1, ProntoMonta, MontandoOra
<1>3. /\ duro' = duro /\ ora' = ora /\ attesa' = attesa /\ slot' = slot /\ seq' = seq
      /\ liberati' = liberati /\ guasto' = guasto /\ pre' = pre /\ promesso' = promesso
  BY DEF disco, memoria
<1>4. op' = Niente
  BY <1>2, VaOltre, OltreOp, Tavola
<1>5. attesa = Pulita /\ ora[Jsb] = [seq |-> seq, start |-> 0] /\ ora[Sb]
  BY <1>2 DEF Montando
<1>6. ora = duro /\ \A a \in Indirizzi : attesa[a] = {}
  BY <1>2, <1>5, Fermato
<1>7. ~DaRipristinare(ora) /\ Nuova(ora) = seq
  BY <1>5 DEF DaRipristinare, Nuova
<1>8. Intero(ora)
  <2>1. \A a \in Posti : Rileggi(ora, a) = ora[a]
    BY <1>7 DEF Rileggi
  <2>2. [a \in Posti |-> Rileggi(ora, a)] = [a \in Posti |-> ora[a]]
    BY <2>1
  <2>3. Coerente([a \in Posti |-> Rileggi(ora, a)])
    BY <1>2 DEF Sano
  <2> QED  BY <2>2, <2>3 DEF Intero
<1>9. Riposo(duro, attesa, ora, seq)
  <2>1. Importanti(ora) \subseteq Indirizzi
    <3>1. \A p \in ora[Ino] : Dato(p[2]) \in Posti
      BY <1>8, Nomi DEF Intero, Coerente
    <3> QED  BY <3>1, Nomi DEF Importanti
  <2>2. Asciutti(attesa, Importanti(ora))
    BY <1>6, <2>1 DEF Asciutti
  <2>3. Asciutti(attesa, {Gio(i) : i \in 1 .. Maxlen - 1})
    BY <1>6, Nomi DEF Asciutti
  <2>4. \A i \in 1 .. Maxlen - 1 : Prima(duro[Gio(i)], seq)
    BY <1>2, <1>6, <1>7 DEF Sano
  <2>5. attesa[Jsb] = {}
    BY <1>6, Nomi
  <2> QED  BY <1>5, <2>2, <2>3, <2>4, <2>5 DEF Riposo
<1>10. Fermo(duro, attesa, ora, seq, Niente)
  BY <1>5, <1>6, <1>9, Nomi, NienteTipo DEF Fermo
<1>11. Stadi(duro', attesa', ora', slot', seq', op', stadio')
  BY <1>3, <1>4, <1>10 DEF Stadi
<1>12. /\ Vive([a \in Posti |-> ora[a]], {}, ora, {}, Niente, FALSE)
       /\ Coerenti([a \in Posti |-> ora[a]], Niente)
  BY <1>8, VivaMonta DEF Intero
<1>13. Veduta(<<>>, ora) = [a \in Posti |-> ora[a]] /\ Presenti(<<>>) = {}
       /\ Transazione(<<>>) /\ Fila(<<>>)
  BY VedutaVuota
<1>14. /\ Vive(Veduta(slot', ora'), Presenti(slot'), ora', pre', op', liberati')
       /\ Coerenti(Veduta(slot', ora'), op')
  BY <1>2, <1>3, <1>4, <1>12, <1>13
<1>15. Controllo'
  <2>1. Fila(slot)' /\ Transazione(slot)'
    BY <1>2, <1>3, <1>13 DEF Fila, Transazione
  <2>2. TipoOp(op)'
    BY <1>4, NienteTipo, TipoPoi
  <2> QED  BY <1>2, <1>3, <1>4, <2>1, <2>2, NienteTipo DEF Controllo
<1>16. Spazio'
  <2>1. ~Avviata(op)'
    BY <1>4, NienteTipo DEF Avviata
  <2> QED  BY <1>2, <1>3, <2>1 DEF Spazio
<1>17. ~guasto' /\ Retto(duro', attesa', ora')
  BY <1>2, <1>3
<1> QED  BY <1>11, <1>14, <1>15, <1>16, <1>17, Assieme

-----------------------------------------------------------------------------
(* A mounted volume whose journal gave up.                                 *)

LEMMA Guastato ==
    ASSUME fase' = "montato", guasto' = TRUE, stadio' = "no", promesso' = FALSE,
           op' \in {Niente, Chiamata("smonta", "smontato"), Chiamata("fsync", "lascia")},
           Fila(slot'), Transazione(slot'), seq' \in Nat, liberati' \in BOOLEAN,
           Retto(duro', attesa', ora'), Salvo(duro', attesa', ora', Veduta(slot', ora')),
           Coerenti(Veduta(slot', ora'), op')
    PROVE  Ind'
<1>1. /\ TipoOp(op') /\ op'.pc \in {"no", "smontato", "lascia"} /\ op'.che \in {"niente", "smonta", "fsync"}
      /\ ~Avviata(op')
  <2>1. CASE op' = Niente
    BY <2>1, NienteTipo DEF Avviata
  <2>2. CASE op' = Chiamata("smonta", "smontato")
    <3>1. op' \in Opere /\ op'.che = "smonta" /\ op'.pc = "smontato"
      BY <2>2, Semplici DEF Nomate, Punti
    <3> QED  BY <3>1 DEF TipoOp, Avviata
  <2>3. CASE op' = Chiamata("fsync", "lascia")
    <3>1. op' \in Opere /\ op'.che = "fsync" /\ op'.pc = "lascia"
      BY <2>3, Semplici DEF Nomate, Punti
    <3> QED  BY <3>1 DEF TipoOp, Avviata
  <2> QED  BY <2>1, <2>2, <2>3
<1>2. TipoOp(op)' /\ Fila(slot)' /\ Transazione(slot)'
  BY <1>1, TipoPoi DEF Fila, Transazione
<1>3. /\ Chiamata("smonta", "smontato")' = Chiamata("smonta", "smontato")
      /\ Chiamata("fsync", "lascia")' = Chiamata("fsync", "lascia") /\ Niente' = Niente
  BY DEF Chiamata, Niente
<1>4. Controllo'
  BY <1>1, <1>2, <1>3 DEF Controllo
<1>5. Spazio' /\ DiscoMontato' /\ DiscoInMonta' /\ VivaV'
  BY DEF Spazio, DiscoMontato, DiscoInMonta, VivaV
<1>6. VivaC'
  BY VivaPoi
<1>7. Retto(duro, attesa, ora)' /\ Tagliabile(duro, attesa, ora)'
  BY RettoPoi, TagliabilePoi DEF Salvo
<1>8. Letto'
  <2>1. Visto' = [a \in Meta |-> Veduta(slot', ora')[a]]
    BY <1>1, VistoPoi
  <2>2. Recuperato(ora') \in {Recuperato(duro'), [a \in Meta |-> Veduta(slot', ora')[a]]}
    BY DEF Salvo
  <2>3. Recuperato(ora)' = Recuperato(ora') /\ Recuperato(duro)' = Recuperato(duro')
    BY Zenon DEF Recuperato, Rileggi, passo, DaRipristinare, Buone
  <2> QED  BY <2>1, <2>2, <2>3 DEF Letto
<1> QED  BY <1>4, <1>5, <1>6, <1>7, <1>8 DEF Ind

LEMMA GuastoOra ==
    ASSUME Ind, fase = "montato", guasto
    PROVE  /\ stadio = "no" /\ promesso = FALSE
           /\ op \in {Niente, Chiamata("smonta", "smontato"), Chiamata("fsync", "lascia")}
           /\ Fila(slot) /\ Transazione(slot) /\ seq \in Nat /\ liberati \in BOOLEAN /\ TipoOp(op)
           /\ Retto(duro, attesa, ora) /\ Salvo(duro, attesa, ora, Veduta(slot, ora))
           /\ Coerenti(Veduta(slot, ora), op)
<1>1. /\ stadio = "no" /\ promesso = FALSE
      /\ op \in {Niente, Chiamata("smonta", "smontato"), Chiamata("fsync", "lascia")}
      /\ Fila(slot) /\ Transazione(slot) /\ seq \in Nat /\ liberati \in BOOLEAN /\ TipoOp(op)
  BY DEF Ind, Controllo
<1>2. op.pc \in {"no", "smontato", "lascia"}
  <2>1. Niente.pc = "no"
    BY NienteTipo
  <2>2. Chiamata("smonta", "smontato").pc = "smontato" /\ Chiamata("fsync", "lascia").pc = "lascia"
    BY DEF Chiamata, Niente
  <2> QED  BY <1>1, <2>1, <2>2
<1>3. Visto = [a \in Meta |-> Veduta(slot, ora)[a]]
  BY <1>1, <1>2, VistoVeduta
<1>4. Retto(duro, attesa, ora) /\ Salvo(duro, attesa, ora, Veduta(slot, ora))
  BY <1>3 DEF Ind, Letto, Salvo
<1>5. Coerenti(Veduta(slot, ora), op)
  BY VistaVede DEF Ind, VivaC
<1> QED  BY <1>1, <1>4, <1>5

-----------------------------------------------------------------------------
(* The disk alone.                                                         *)

\* Nothing of the state but the disk changes.
LEMMA SoloDisco ==
    ASSUME Ind, UNCHANGED <<fase, memoria, op, stadio, promesso>>,
           promesso => attesa' = Pulita,
           ora' = ora, Retto(duro', attesa', ora'), Tagliabile(duro', attesa', ora'),
           Recuperato(duro') \in {Recuperato(duro), Recuperato(ora)},
           fase = "montato" /\ ~guasto => Stadi(duro', attesa', ora', slot, seq, op, stadio),
           fase = "monta" => Montando(duro', attesa', ora', seq, op.pc)
    PROVE  Ind'
<1>1. /\ fase' = fase /\ slot' = slot /\ seq' = seq /\ liberati' = liberati /\ guasto' = guasto
      /\ pre' = pre /\ promesso' = promesso /\ op' = op /\ stadio' = stadio
  BY DEF memoria
<1>2. Controllo /\ guasto \in BOOLEAN
  BY DEF Ind, Controllo
<1>3. CASE fase \in {"spento", "sola"}
  BY <1>1, <1>2, <1>3, NonMontato DEF Controllo
<1>4. CASE fase = "monta"
  <2>1. /\ TipoOp(op) /\ op.che = "monta" /\ op # Niente /\ stadio = "no" /\ slot = <<>>
        /\ liberati = FALSE /\ guasto = FALSE /\ pre = {} /\ seq \in Nat /\ promesso = FALSE
    BY <1>4, ProntoMonta
  <2>2. Montando(duro', attesa', ora', seq', op'.pc)
    BY <1>1, <1>4
  <2> QED  BY <1>1, <1>4, <2>1, <2>2, InMonta
<1>5. CASE fase = "montato" /\ guasto
  <2>1. /\ stadio = "no" /\ promesso = FALSE
        /\ op \in {Niente, Chiamata("smonta", "smontato"), Chiamata("fsync", "lascia")}
        /\ Fila(slot) /\ Transazione(slot) /\ seq \in Nat /\ liberati \in BOOLEAN
        /\ Salvo(duro, attesa, ora, Veduta(slot, ora))
        /\ Coerenti(Veduta(slot, ora), op)
    BY <1>5, GuastoOra
  <2>2. Salvo(duro', attesa', ora', Veduta(slot, ora))
    BY <2>1 DEF Salvo
  <2>3. Salvo(duro', attesa', ora', Veduta(slot', ora')) /\ Coerenti(Veduta(slot', ora'), op')
    BY <1>1, <2>1, <2>2
  <2>4. guasto' = TRUE
    BY <1>1, <1>2, <1>5
  <2> QED  BY <1>1, <1>5, <2>1, <2>3, <2>4, Guastato
<1>6. CASE fase = "montato" /\ ~guasto
  <2>1. Controllo'
    BY <1>1, <1>2, TipoPoi DEF Controllo, Fila, Transazione
  <2>2. Spazio'
    BY <1>1 DEF Ind, Spazio, Avviata, Altri, DiOp
  <2>3. /\ Vive(Veduta(slot, ora), Presenti(slot), ora, pre, op, liberati)
        /\ Coerenti(Veduta(slot, ora), op)
    BY <1>6, VivaOra
  <2>4. /\ Vive(Veduta(slot', ora'), Presenti(slot'), ora', pre', op', liberati')
        /\ Coerenti(Veduta(slot', ora'), op')
        /\ Stadi(duro', attesa', ora', slot', seq', op', stadio')
    BY <1>1, <1>6, <2>3
  <2> QED  BY <1>1, <1>6, <2>1, <2>2, <2>4, Assieme
<1>7. fase \in {"spento", "monta", "montato", "sola"}
  BY <1>2 DEF Controllo
<1> QED  BY <1>3, <1>4, <1>5, <1>6, <1>7

\* A step that none of these variables sees.
LEMMA Fermata ==
    ASSUME Ind, UNCHANGED <<disco, fase, memoria, op, stadio, promesso>>
    PROVE  Ind'
<1>1. duro' = duro /\ ora' = ora /\ attesa' = attesa
  BY DEF disco
<1>2. Retto(duro', attesa', ora') /\ Tagliabile(duro', attesa', ora')
  BY <1>1 DEF Ind
<1>3. promesso => attesa' = Pulita
  BY <1>1 DEF Ind, Controllo
<1>4. fase = "montato" /\ ~guasto => Stadi(duro', attesa', ora', slot, seq, op, stadio)
  BY <1>1, StadiOra
<1>5. fase = "monta" => Montando(duro', attesa', ora', seq, op.pc)
  BY <1>1, MontandoOra
<1> QED  BY <1>1, <1>2, <1>3, <1>4, <1>5, SoloDisco

\* The disk writes the journal superblock by itself.
LEMMA PassoScarica ==
    ASSUME Ind, Scarica
    PROVE  Ind' /\ Recuperato(duro') = Recuperato(duro)
<1>1. /\ attesa[Jsb] # {} /\ duro' = [duro EXCEPT ![Jsb] = ora[Jsb]]
      /\ attesa' = [attesa EXCEPT ![Jsb] = {}]
      /\ ora' = ora /\ UNCHANGED <<fase, memoria, op, stadio, promesso>>
  BY DEF Scarica, StessoFsync
<1>2. Retto(duro, attesa, ora) /\ Tagliabile(duro, attesa, ora) /\ Controllo
  BY DEF Ind
<1>3. Retto(duro', attesa', ora) /\ Tagliabile(duro', attesa', ora) /\ Recuperato(duro') = Recuperato(duro)
  BY <1>1, <1>2, TagliaScarica
<1>4. /\ duro'[Jsb] = ora[Jsb] /\ attesa'[Jsb] = {}
      /\ \A a \in Indirizzi : a # Jsb => duro'[a] = duro[a] /\ attesa'[a] = attesa[a]
  <2>1. duro = [a \in Indirizzi |-> duro[a]] /\ attesa = [a \in Indirizzi |-> attesa[a]]
    BY <1>2 DEF Retto, TipoDisco
  <2> QED  BY <1>1, <2>1, Nomi
<1>5. attesa # Pulita /\ Jsb \in Indirizzi /\ Jsb \notin Posti /\ Jsb # Sb
  BY <1>1, Nomi DEF Pulita
<1>6. ~promesso
  BY <1>2, <1>5 DEF Controllo
<1>7. ASSUME fase = "montato" /\ ~guasto
      PROVE  Stadi(duro', attesa', ora, slot, seq, op, stadio)
  <2>1. Stadi(duro, attesa, ora, slot, seq, op, stadio)
    BY <1>7, StadiOra
  <2>2. Transazione(slot) /\ Intero(ora)
    BY <1>7, VivaOra DEF Intero
  <2>2a. \A p \in ora[Ino] : Dato(p[2]) \in Posti
    BY <2>2, Nomi DEF Intero, Coerente
  <2>3. \A i \in 1 .. Maxlen - 1 : duro'[Gio(i)] = duro[Gio(i)] /\ attesa'[Gio(i)] = attesa[Gio(i)]
    BY <1>4, Nomi
  <2>4. duro'[Sb] = duro[Sb] /\ attesa'[Sb] = attesa[Sb]
    BY <1>4, Nomi
  <2>5. \A a \in Posti : duro'[a] = duro[a] /\ attesa'[a] = attesa[a]
    BY <1>4, Nomi
  <2>6. stadio \notin {"sigillo", "posti", "vuota"}
    BY <1>5, <2>1 DEF Stadi
  <2>7. stadio # "seconda"
    <3>1. Jsb # Gio(Len(slot) + 2)
      BY Nomi
    <3> QED  BY <3>1, <1>1, <1>5, <2>1 DEF Stadi, DopoSigillo, Asciutti
  <2>8. stadio # "terza"
    BY <1>1, <1>5, <2>1, <2>2 DEF Stadi, DopoPosti, Transazione
  <2>9. CASE stadio \in {"no", "copie"}
    <3>1. Fermo(duro, attesa, ora, seq, op)
      BY <2>1, <2>9 DEF Stadi
    <3>2. ~(op.che = "smonta" /\ op.pc \in {"sb", "flushsb", "smontato"})
      BY <3>1, <1>1, <1>5 DEF Fermo, Asciutti
    <3>3. ~(op.che = "sync" /\ op.pc = "torna")
      BY <3>1, <1>5 DEF Fermo
    <3>4. Importanti(ora) \subseteq Posti
      BY <2>2a, Nomi DEF Importanti
    <3>5. Asciutti(attesa', Importanti(ora)) /\ Asciutti(attesa', {Gio(i) : i \in 1 .. Maxlen - 1})
      <4>1. Asciutti(attesa, Importanti(ora)) /\ \A i \in 1 .. Maxlen - 1 : attesa[Gio(i)] = {}
        BY <3>1 DEF Fermo, Riposo, Asciutti
      <4> QED  BY <4>1, <3>4, <2>3, <2>5 DEF Asciutti
    <3>6. Riposo(duro', attesa', ora, seq)
      BY <3>1, <3>5, <1>4, <2>3 DEF Fermo, Riposo
    <3>7. Fermo(duro', attesa', ora, seq, op)
      BY <3>1, <3>2, <3>3, <3>6, <2>4 DEF Fermo
    <3> QED  BY <3>7, <2>9 DEF Stadi
  <2>10. CASE stadio = "prima"
    <3>1. DopoCopie(duro, attesa, ora, seq) /\ Scritta(ora, slot, seq) /\ attesa[Sb] = {} /\ duro[Sb]
      BY <2>1, <2>10 DEF Stadi
    <3>2. Asciutti(attesa', Meta)
      BY <3>1, <2>5, Nomi DEF DopoCopie, Asciutti
    <3>3. \A p \in ora[Ino] : attesa'[Dato(p[2])] = {}
      BY <3>1, <2>2a, <2>5 DEF DopoCopie
    <3>4. ora[Jsb] \in {duro[Jsb]} \cup attesa[Jsb]
      BY <1>2, <1>5 DEF Retto, Puo
    <3>5. {duro'[Jsb]} \cup attesa'[Jsb] \subseteq {[seq |-> seq, start |-> 0], [seq |-> seq, start |-> 1]}
      BY <3>1, <3>4, <1>4 DEF DopoCopie
    <3>6. \A i \in 1 .. Maxlen - 1 : Prima(duro'[Gio(i)], seq) /\ \A x \in attesa'[Gio(i)] : Prima(x, seq)
      BY <3>1, <2>3 DEF DopoCopie
    <3>7. DopoCopie(duro', attesa', ora, seq)
      BY <3>2, <3>3, <3>5, <3>6 DEF DopoCopie
    <3> QED  BY <3>1, <3>7, <2>4, <2>10 DEF Stadi
  <2> QED  BY <1>2, <2>6, <2>7, <2>8, <2>9, <2>10 DEF Controllo
<1>8. ASSUME fase = "monta"
      PROVE  Montando(duro', attesa', ora, seq, op.pc)
  <2>1. Montando(duro, attesa, ora, seq, op.pc) /\ TipoOp(op) /\ op.che = "monta"
    BY <1>8, MontandoOra, ProntoMonta
  <2>2. op.pc = "flushjsb"
    <3>1. op.pc \in {"replay", "flush", "jsb", "flushjsb", "sb", "flushsb", "montato"}
      BY <2>1, NienteTipo DEF TipoOp
    <3>2. op.pc \notin {"replay", "jsb", "sb", "montato"}
      BY <1>5, <2>1 DEF Montando
    <3>3. op.pc # "flush" /\ op.pc # "flushsb"
      BY <1>1, <1>5, <2>1 DEF Montando
    <3> QED  BY <3>1, <3>2, <3>3
  <2>3. duro'[Jsb] = [seq |-> seq, start |-> 0]
    BY <1>4, <2>1, <2>2 DEF Montando
  <2>4. ~DaRipristinare(duro') /\ Nuova(duro') = seq
    BY <2>3 DEF DaRipristinare, Nuova
  <2>5. \A a \in Posti : Rileggi(duro', a) = duro'[a]
    BY <2>4 DEF Rileggi
  <2>6. Montando(duro', attesa', ora, seq, "flushjsb")
    BY <1>4, <2>1, <2>2, <2>4, <2>5 DEF Montando
  <2> QED  BY <2>2, <2>6
<1>9. Ind'
  BY <1>1, <1>3, <1>6, <1>7, <1>8, SoloDisco
<1> QED  BY <1>3, <1>9

\* A flush between two commits.
LEMMA RiposoSvuota ==
    ASSUME NEW D, NEW A, NEW O, Retto(D, A, O), NEW n, Riposo(D, A, O, n), Intero(O)
    PROVE  Riposo(O, Pulita, O, n) /\ Pulita[Sb] = {} /\ (A[Sb] = {} => O[Sb] = D[Sb])
<1>1. \A a \in Indirizzi : Pulita[a] = {}
  BY DEF Pulita
<1>2. \A a \in Indirizzi : A[a] = {} => O[a] = D[a]
  BY DEF Retto, Puo
<1>3. Importanti(O) \subseteq Indirizzi
  <2>1. \A p \in O[Ino] : Dato(p[2]) \in Posti
    BY Nomi DEF Intero, Coerente
  <2> QED  BY <2>1, Nomi DEF Importanti
<1>4. Asciutti(Pulita, Importanti(O)) /\ Asciutti(Pulita, {Gio(i) : i \in 1 .. Maxlen - 1})
  BY <1>1, <1>3, Nomi DEF Asciutti
<1>5. ASSUME NEW i \in 1 .. Maxlen - 1
      PROVE  Prima(O[Gio(i)], n)
  <2>1. A[Gio(i)] = {} /\ Gio(i) \in Indirizzi /\ Prima(D[Gio(i)], n)
    BY Nomi DEF Riposo, Asciutti
  <2> QED  BY <2>1, <1>2
<1>6. O[Jsb] = [seq |-> n, start |-> 0] /\ Pulita[Jsb] = {} /\ Pulita[Sb] = {}
  BY <1>1, Nomi DEF Riposo
<1> QED  BY <1>2, <1>4, <1>5, <1>6, Nomi DEF Riposo

LEMMA SvuotaFermo ==
    ASSUME Ind, Svuota
    PROVE  /\ duro' = ora /\ attesa' = Pulita /\ ora' = ora
           /\ Retto(duro', attesa', ora') /\ Tagliabile(duro', attesa', ora')
<1>1. duro' = ora /\ attesa' = Pulita /\ ora' = ora
  BY DEF Svuota
<1>2. Retto(duro, attesa, ora) /\ Tagliabile(duro, attesa, ora)
  BY DEF Ind
<1>3. Sano(ora)
  BY <1>2, PuoSe DEF Tagliabile
<1> QED  BY <1>1, <1>3, TagliaFermo

\* The flush of fsync, outside the lock.
LEMMA PassoFsyncFlush ==
    ASSUME Ind, FsyncFlush
    PROVE  Ind'
<1>1. op = Niente /\ Svuota /\ UNCHANGED <<fase, memoria, op, stadio, promesso>>
  BY DEF FsyncFlush
<1>2. /\ duro' = ora /\ attesa' = Pulita /\ ora' = ora
      /\ Retto(duro', attesa', ora') /\ Tagliabile(duro', attesa', ora')
  BY <1>1, SvuotaFermo
<1>3. stadio = "no" /\ fase # "monta"
  BY <1>1, NienteTipo DEF Ind, Controllo
<1>4. ASSUME fase = "montato" /\ ~guasto
      PROVE  Stadi(duro', attesa', ora', slot, seq, op, stadio)
  <2>1. Riposo(duro, attesa, ora, seq) /\ attesa[Sb] = {} /\ duro[Sb]
    BY <1>1, <1>3, <1>4, NienteTipo DEF Ind, DiscoMontato
  <2>2. Intero(ora) /\ Retto(duro, attesa, ora)
    BY <1>4, VivaOra DEF Intero
  <2>3. Riposo(ora, Pulita, ora, seq) /\ Pulita[Sb] = {} /\ ora[Sb]
    BY <2>1, <2>2, RiposoSvuota
  <2>4. Fermo(ora, Pulita, ora, seq, op)
    BY <2>3, <1>1, NienteTipo DEF Fermo
  <2> QED  BY <1>2, <1>3, <2>4 DEF Stadi
<1> QED  BY <1>1, <1>2, <1>3, <1>4, SoloDisco

\* The flush of sync and of unmount.
LEMMA PassoSvuotaCall ==
    ASSUME Ind, fase = "montato", stadio = "no", BlkFlush
    PROVE  Ind' /\ op.pc \in {"flush", "flushsb"} /\ op.che \in {"sync", "smonta"} /\ ~guasto
<1>1. Comando \in Svuotate /\ Svuota /\ Avanza /\ stadio' = stadio /\ UNCHANGED <<fase, memoria>> /\ StessoFsync
  BY DEF BlkFlush, Procede
<1>2. Controllo /\ TipoOp(op) /\ op.che # "monta"
  BY DEF Ind, Controllo
<1>3. op.pc \in {"flush", "flushsb"} /\ op.che \in {"sync", "smonta"} /\ op # Niente
      /\ (op.pc = "flushsb" => op.che = "smonta")
  <2>1. op.pc \in {"flush", "flushsb"}
    BY <1>1, <1>2, Luoghi DEF Svuotate, Comando, TipoOp
  <2> QED  BY <2>1, <1>2, Luoghi, NienteTipo
<1>4. ~guasto /\ promesso = FALSE /\ liberati = FALSE
  <2>1. Niente.pc = "no"
    BY NienteTipo
  <2>2. Chiamata("smonta", "smontato").pc = "smontato" /\ Chiamata("fsync", "lascia").pc = "lascia"
    BY DEF Chiamata, Niente
  <2>3. ~guasto
    BY <1>2, <1>3, <2>1, <2>2 DEF Controllo
  <2> QED  BY <1>2, <1>3, <2>3 DEF Controllo
<1>5. /\ duro' = ora /\ attesa' = Pulita /\ ora' = ora
      /\ Retto(duro', attesa', ora')
  BY <1>1, SvuotaFermo
<1>6. /\ fase' = fase /\ slot' = slot /\ seq' = seq /\ liberati' = liberati /\ guasto' = guasto
      /\ pre' = pre /\ promesso' = promesso
  BY <1>1 DEF memoria, StessoFsync
<1>7. /\ TipoOp(op') /\ op'.che = op.che
      /\ op.che = "sync" => op'.pc = "torna"
      /\ op.che = "smonta" => op'.pc \in {"sb", "smontato"}
  BY <1>1, <1>2, <1>3, VaOltre, OltreOp, Tavola DEF Avanza, Poco
<1>8. /\ Vive(Veduta(slot, ora), Presenti(slot), ora, pre, op, liberati)
      /\ Coerenti(Veduta(slot, ora), op) /\ Fila(slot) /\ Transazione(slot) /\ seq \in Nat
      /\ Retto(duro, attesa, ora)
  BY <1>4, VivaOra
<1>9. Intero(ora)
  BY <1>4, VivaOra DEF Intero
<1>10. Riposo(duro, attesa, ora, seq) /\ (op.che = "sync" => attesa[Sb] = {} /\ duro[Sb])
  BY <1>3, <1>4 DEF Ind, DiscoMontato
<1>11. Riposo(ora, Pulita, ora, seq) /\ Pulita[Sb] = {} /\ (op.che = "sync" => ora[Sb])
  BY <1>8, <1>9, <1>10, RiposoSvuota
<1>12. Fermo(ora, Pulita, ora, seq, op')
  <2>1. Asciutti(Pulita, Indirizzi \ {Sb})
    BY DEF Asciutti, Pulita
  <2> QED  BY <2>1, <1>3, <1>7, <1>11 DEF Fermo
<1>13. Stadi(duro', attesa', ora', slot', seq', op', stadio')
  BY <1>1, <1>5, <1>6, <1>12 DEF Stadi
<1>14. /\ Vive(Veduta(slot, ora), Presenti(slot), ora, pre, op', liberati)
       /\ Coerenti(Veduta(slot, ora), op')
  <2>1. op'.che \notin Nuovi /\ op'.che # "tronca" /\ op.pc \notin {"libera", "toglie", "inode"}
    BY <1>3, <1>7 DEF Nuovi
  <2> QED  BY <2>1, <1>8, VivaFine
<1>15. /\ Vive(Veduta(slot', ora'), Presenti(slot'), ora', pre', op', liberati')
       /\ Coerenti(Veduta(slot', ora'), op')
  BY <1>5, <1>6, <1>14
<1>16. Controllo'
  <2>1. op'.che = "sync" => slot = <<>>
    BY <1>2, <1>3, <1>7 DEF Controllo
  <2> QED  BY <1>1, <1>2, <1>3, <1>4, <1>6, <1>7, <1>8, <2>1, ControlloVa
<1>17. Spazio'
  <2>1. ~Avviata(op) /\ ~Avviata(op')
    BY <1>3, <1>7 DEF Avviata
  <2>2. ~Avviata(op)'
    BY <2>1 DEF Avviata
  <2>3. pre # {} => 2 * Len(slot) < MaxSlot
    BY <1>3, <1>4, <2>1 DEF Ind, Spazio
  <2> QED  BY <1>6, <2>2, <2>3 DEF Spazio
<1>18. Ind'
  BY <1>4, <1>5, <1>6, <1>13, <1>15, <1>16, <1>17, Assieme
<1> QED  BY <1>3, <1>4, <1>18

\* Unmount writes the superblock of the volume: needs_recovery off.
LEMMA ScriveSmonta ==
    ASSUME Ind, fase = "montato", stadio = "no", Comando \in Scritture, Manda
    PROVE  /\ op.che = "smonta" /\ op.pc = "sb" /\ ~guasto /\ promesso = FALSE
           /\ Retto(duro', attesa', ora') /\ Riposo(duro', attesa', ora', seq)
           /\ Asciutti(attesa', Indirizzi \ {Sb})
           /\ \A a \in Posti : ora'[a] = ora[a]
           /\ Tagliabile(duro', attesa', ora')
<1>2. Controllo /\ TipoOp(op) /\ op.che # "monta"
  BY DEF Ind, Controllo
<1>3. op.pc = "sb" /\ op.che = "smonta"
  <2>1. op.pc \in {"sb", "replay", "jsb"}
    BY <1>2 DEF Scritture, Comando, TipoOp, Niente
  <2> QED  BY <2>1, <1>2, Luoghi
<1>4. ~guasto /\ promesso = FALSE
  <2>1. Niente.pc = "no"
    BY NienteTipo
  <2>2. Chiamata("smonta", "smontato").pc = "smontato" /\ Chiamata("fsync", "lascia").pc = "lascia"
    BY DEF Chiamata, Niente
  <2> QED  BY <1>2, <1>3, <2>1, <2>2 DEF Controllo
<1>5. Riposo(duro, attesa, ora, seq) /\ attesa = Pulita
  BY <1>3, <1>4 DEF Ind, DiscoMontato
<1>6. Retto(duro, attesa, ora) /\ seq \in Nat
  BY <1>4, VivaOra
<1>7. Intero(ora)
  BY <1>4, VivaOra DEF Intero
<1>8. ora = duro /\ \A a \in Indirizzi : attesa[a] = {}
  BY <1>5, <1>6, Fermato
<1>9. Metti([a \in {Sb} |-> FALSE])
  BY <1>3 DEF Manda, Comando
<1>10. /\ Retto(duro', attesa', ora') /\ duro' = duro
       /\ \A c \in Indirizzi : c # Sb => ora'[c] = duro[c] /\ attesa'[c] = {}
  BY <1>5, <1>6, <1>9, Nomi, ScriveUno
<1>11. \A a \in Posti : ora'[a] = ora[a]
  BY <1>8, <1>10, Nomi
<1>12. Intero(ora')
  <2>1. [a \in Posti |-> ora'[a]] = [a \in Posti |-> ora[a]]
    BY <1>11
  <2> QED  BY <2>1, <1>7 DEF Intero
<1>13. Riposo(duro', attesa', ora', seq)
  <2>1. Importanti(ora') \subseteq Posti
    <3>1. \A p \in ora'[Ino] : Dato(p[2]) \in Posti
      BY <1>12, Nomi DEF Intero, Coerente
    <3> QED  BY <3>1, Nomi DEF Importanti
  <2>2. Asciutti(attesa', Importanti(ora')) /\ Asciutti(attesa', {Gio(i) : i \in 1 .. Maxlen - 1})
    BY <1>10, <2>1, Nomi DEF Asciutti
  <2>3. ora'[Jsb] = [seq |-> seq, start |-> 0] /\ attesa'[Jsb] = {}
    BY <1>5, <1>8, <1>10, Nomi DEF Riposo
  <2> QED  BY <2>2, <2>3, <1>5, <1>10 DEF Riposo
<1>14. Asciutti(attesa', Indirizzi \ {Sb})
  BY <1>10 DEF Asciutti
<1>15. Tagliabile(duro', attesa', ora')
  BY <1>6, <1>10, <1>12, <1>13, TagliaRiposo DEF Intero
<1> QED  BY <1>3, <1>4, <1>10, <1>11, <1>13, <1>14, <1>15

LEMMA PassoScriveCall ==
    ASSUME Ind, fase = "montato", stadio = "no", BlkWrite
    PROVE  Ind'
<1>1. Comando \in Scritture /\ Manda /\ Avanza /\ stadio' = stadio /\ UNCHANGED <<fase, memoria>> /\ StessoFsync
  BY DEF BlkWrite, Procede
<1>2. /\ op.che = "smonta" /\ op.pc = "sb" /\ ~guasto /\ promesso = FALSE
      /\ Retto(duro', attesa', ora') /\ Riposo(duro', attesa', ora', seq)
      /\ Asciutti(attesa', Indirizzi \ {Sb})
      /\ \A a \in Posti : ora'[a] = ora[a]
  BY <1>1, ScriveSmonta
<1>3. /\ fase' = fase /\ slot' = slot /\ seq' = seq /\ liberati' = liberati /\ guasto' = guasto
      /\ pre' = pre /\ promesso' = promesso
  BY <1>1 DEF memoria, StessoFsync
<1>4. /\ Vive(Veduta(slot, ora), Presenti(slot), ora, pre, op, liberati)
      /\ Coerenti(Veduta(slot, ora), op) /\ Fila(slot) /\ Transazione(slot) /\ seq \in Nat
      /\ TipoOp(op) /\ Controllo
  BY <1>2, VivaOra
<1>5. op # Niente /\ liberati = FALSE
  BY <1>2, <1>4, NienteTipo DEF Controllo
<1>6. TipoOp(op') /\ op'.che = "smonta" /\ op'.pc = "flushsb"
  BY <1>1, <1>2, <1>4, <1>5, VaOltre, OltreOp, Tavola DEF Avanza, Poco
<1>7. Fermo(duro', attesa', ora', seq, op')
  BY <1>2, <1>6 DEF Fermo
<1>8. Stadi(duro', attesa', ora', slot', seq', op', stadio')
  BY <1>1, <1>3, <1>7 DEF Stadi
<1>9. Vive(Veduta(slot, ora), Presenti(slot), ora', pre, op, liberati)
  BY <1>2, <1>4, VivaStessa
<1>10. Veduta(slot, ora') = Veduta(slot, ora)
  BY <1>2, VedutaStessa
<1>11. /\ Vive(Veduta(slot, ora), Presenti(slot), ora', pre, op', liberati)
       /\ Coerenti(Veduta(slot, ora), op')
  <2>1. op'.che \notin Nuovi /\ op'.che # "tronca" /\ op.pc \notin {"libera", "toglie", "inode"}
    BY <1>2, <1>6 DEF Nuovi
  <2> QED  BY <2>1, <1>4, <1>9, VivaFine
<1>12. /\ Vive(Veduta(slot', ora'), Presenti(slot'), ora', pre', op', liberati')
       /\ Coerenti(Veduta(slot', ora'), op')
  BY <1>3, <1>10, <1>11
<1>13. Controllo'
  BY <1>1, <1>2, <1>3, <1>4, <1>5, <1>6, ControlloVa
<1>14. Spazio'
  <2>1. ~Avviata(op) /\ ~Avviata(op')
    BY <1>2, <1>6 DEF Avviata
  <2>2. ~Avviata(op)'
    BY <2>1 DEF Avviata
  <2>3. pre # {} => 2 * Len(slot) < MaxSlot
    BY <1>2, <2>1 DEF Ind, Spazio
  <2> QED  BY <1>3, <2>2, <2>3 DEF Spazio
<1> QED  BY <1>2, <1>3, <1>8, <1>12, <1>13, <1>14, Assieme

\* blk_write and blk_flush, whoever calls them.
LEMMA PassoBlk ==
    ASSUME "pigro" \notin Eventi, Ind, BlkWrite \/ BlkFlush
    PROVE  Ind'
<1>1. fase \in {"spento", "monta", "montato", "sola"} /\ (fase \in {"spento", "sola"} => op = Niente)
      /\ (fase # "montato" => stadio = "no")
  BY DEF Ind, Controllo
<1>2. fase \notin {"spento", "sola"}
  <2>1. Comando \in Scritture \cup Svuotate
    BY DEF BlkWrite, BlkFlush
  <2>2. ASSUME fase \in {"spento", "sola"} PROVE FALSE
    <3>1. Comando = "no"
      BY <1>1, <2>2, NienteTipo DEF Comando
    <3> QED  BY <2>1, <3>1 DEF Scritture, Svuotate
  <2> QED  BY <2>2
<1>3. CASE fase = "monta"
  BY <1>3, PassoScriveMonta, PassoSvuotaMonta
<1>4. CASE stadio # "no"
  BY <1>4, PassoScriveCommit, PassoSvuotaCommit
<1>5. CASE fase = "montato" /\ stadio = "no"
  BY <1>5, PassoScriveCall, PassoSvuotaCall
<1> QED  BY <1>1, <1>2, <1>3, <1>4, <1>5

\* The call returns.
LEMMA PassoTorna ==
    ASSUME Ind, Torna
    PROVE  Ind'
<1>1. /\ op' = Oltre /\ duro' = duro /\ ora' = ora /\ attesa' = attesa /\ stadio' = stadio
      /\ UNCHANGED disco
  BY DEF Torna, Avanza, disco
<1>2. Controllo /\ TipoOp(op) /\ Spazio
  BY DEF Ind, Controllo
<1>3. CASE Tocca("torna") /\ promesso' = TRUE /\ UNCHANGED <<fase, memoria, fs>>
  <2>1. stadio = "no" /\ op.pc = "torna"
    BY <1>3 DEF Tocca
  <2>2. fase = "montato" /\ ~guasto /\ op # Niente /\ op.che = "sync" /\ liberati = FALSE
    BY <2>1, InCorso, Luoghi
  <2>3. op' = Niente
    BY <1>1, <1>2, <2>1, <2>2, VaOltre, OltreOp, Tavola
  <2>4. slot = <<>> /\ attesa = Pulita
    BY <1>2, <2>1, <2>2 DEF Controllo, Ind, DiscoMontato
  <2>5. 2 * Len(slot) < MaxSlot
    BY <1>2, <2>4, SlotVuoto DEF Controllo
  <2>6. /\ fase' = fase /\ guasto' = guasto /\ seq' = seq /\ slot' = slot /\ pre' = pre /\ liberati' = liberati
    BY <1>3 DEF memoria
  <2>7. TipoOp(op') /\ op'.che = "niente" /\ op'.pc = "no" /\ op'.che \notin Nuovi
    BY <2>3, NienteTipo DEF Nuovi
  <2> QED  BY <1>1, <1>3, <2>1, <2>2, <2>3, <2>4, <2>5, <2>6, <2>7, Passato
<1>4. CASE Tocca("lascia") /\ UNCHANGED <<fase, memoria, promesso>>
  <2>1. stadio = "no" /\ op.pc = "lascia"
    BY <1>4 DEF Tocca
  <2>2. op.che = "fsync" /\ op # Niente /\ fase = "montato" /\ promesso = FALSE
    BY <1>2, <2>1, Luoghi, NienteTipo DEF Controllo
  <2>3. op' = Niente
    BY <1>1, <1>2, <2>1, <2>2, VaOltre, OltreOp, Tavola
  <2>6. /\ fase' = fase /\ guasto' = guasto /\ seq' = seq /\ slot' = slot /\ pre' = pre /\ liberati' = liberati
        /\ promesso' = promesso
    BY <1>4 DEF memoria
  <2>7. CASE guasto
    BY <1>1, <2>2, <2>3, <2>6, <2>7, GuastoFermo
  <2>8. CASE ~guasto
    <3>1. liberati = FALSE
      BY <1>2, <2>2, <2>8 DEF Controllo
    <3>2. pre # {} => 2 * Len(slot) < MaxSlot
      <4>1. ~Avviata(op)
        BY <2>2 DEF Avviata
      <4> QED  BY <1>2, <2>1, <2>8, <4>1 DEF Spazio
    <3>3. TipoOp(op') /\ op'.che = "niente" /\ op'.pc = "no" /\ op'.che \notin Nuovi
      BY <2>3, NienteTipo DEF Nuovi
    <3> QED  BY <1>1, <2>1, <2>2, <2>6, <2>8, <3>1, <3>2, <3>3, Passato
  <2> QED  BY <2>7, <2>8
<1>5. CASE Tocca("smontato") /\ fase' = "spento" /\ VuotaMemoria /\ UNCHANGED <<promesso, fs>>
  <2>1. stadio = "no" /\ op.pc = "smontato"
    BY <1>5 DEF Tocca
  <2>2. op.che = "smonta" /\ op # Niente /\ promesso = FALSE
    BY <1>2, <2>1, Luoghi, NienteTipo DEF Controllo
  <2>3. op' = Niente
    BY <1>1, <1>2, <2>1, <2>2, VaOltre, OltreOp, Tavola
  <2>4. Retto(duro', attesa', ora') /\ Tagliabile(duro', attesa', ora')
    BY <1>1 DEF Ind
  <2> QED  BY <1>1, <1>5, <2>1, <2>2, <2>3, <2>4, Spento
<1>6. CASE Tocca("montato") /\ fase' = "montato" /\ UNCHANGED <<memoria, promesso, fs>>
  BY <1>1, <1>6, PassoMontato DEF Tocca
<1> QED  BY <1>3, <1>4, <1>5, <1>6 DEF Torna

\* The power goes.
LEMMA PassoTaglio ==
    ASSUME Ind, Taglio
    PROVE  Ind' /\ Recuperato(duro') \in {Recuperato(duro), Recuperato(ora)}
<1>1. PICK tenuti \in SUBSET {a \in Indirizzi : attesa[a] # {}} :
         LET piu == {a \in tenuti : Cardinality(attesa[a]) > 1}
         IN  \E quale \in [piu -> UNION {attesa[a] : a \in piu}] :
               /\ \A a \in piu : quale[a] \in attesa[a]
               /\ duro' = [a \in Indirizzi |->
                             IF a \in piu THEN quale[a]
                             ELSE IF a \in tenuti THEN CHOOSE v \in attesa[a] : TRUE
                             ELSE duro[a]]
  BY DEF Taglio
<1> DEFINE piu == {a \in tenuti : Cardinality(attesa[a]) > 1}
<1>2. PICK quale :
               /\ \A a \in piu : quale[a] \in attesa[a]
               /\ duro' = [a \in Indirizzi |->
                             IF a \in piu THEN quale[a]
                             ELSE IF a \in tenuti THEN CHOOSE v \in attesa[a] : TRUE
                             ELSE duro[a]]
  BY <1>1
<1>3. \A a \in tenuti : (CHOOSE v \in attesa[a] : TRUE) \in attesa[a]
  OBVIOUS
<1>4. \A a \in Indirizzi : duro'[a] \in {duro[a]} \cup attesa[a]
  <2> HIDE DEF piu
  <2> QED  BY <1>2, <1>3
<1>5. Puo(duro', duro, attesa)
  <2>1. duro' = [a \in Indirizzi |-> duro'[a]]
    <3> HIDE DEF piu
    <3> QED  BY <1>2
  <2> QED  BY <1>4, <2>1 DEF Puo
<1>6. Retto(duro, attesa, ora) /\ Tagliabile(duro, attesa, ora)
  BY DEF Ind
<1>7. Sano(duro') /\ Recuperato(duro') \in {Recuperato(duro), Recuperato(ora)}
  BY <1>5, <1>6 DEF Tagliabile
<1>8. /\ ora' = duro' /\ attesa' = Pulita /\ fase' = "spento" /\ op' = Niente /\ stadio' = "no"
      /\ VuotaMemoria /\ promesso' = FALSE
  BY DEF Taglio
<1>9. Retto(duro', attesa', ora') /\ Tagliabile(duro', attesa', ora')
  BY <1>7, <1>8, TagliaFermo
<1>10. Ind'
  BY <1>8, <1>9, Spento
<1> QED  BY <1>7, <1>10

\* A disk command that fails: what it may have done.
Fallito ==
    \/ Comando \in Scritture /\ Manda
    \/ Comando = "vuota" /\ Metti(InVuota)
    \/ Comando \in Svuotate /\ UNCHANGED disco

\* In a commit.
LEMMA FallitoCommit ==
    ASSUME "pigro" \notin Eventi, Ind, stadio # "no", AlPasso, Fallito
    PROVE  /\ Retto(duro', attesa', ora') /\ Veduta(slot, ora') = Veduta(slot, ora)
           /\ Salvo(duro', attesa', ora', Veduta(slot, ora))
<1>1. op.pc \in {"inizio", "fine", "commit"} /\ Comando = stadio
      /\ stadio \in {"no", "copie", "prima", "sigillo", "seconda", "posti", "terza", "vuota"}
  BY DEF Ind, Controllo, Comando
<1>2. fase = "montato" /\ ~guasto
  BY <1>1, InCorso
<1>3. /\ Vive(Veduta(slot, ora), Presenti(slot), ora, pre, op, liberati)
      /\ Coerenti(Veduta(slot, ora), op)
      /\ Veduta(slot, ora) = [a \in Posti |-> Veduta(slot, ora)[a]]
      /\ Transazione(slot) /\ seq \in Nat /\ Retto(duro, attesa, ora)
  BY <1>2, VivaOra
<1>4. Coerente(Veduta(slot, ora))
  BY <1>1, <1>3, CoerenteSe
<1>5. CASE Comando \in Scritture /\ Manda
  <2>1. stadio \in {"copie", "sigillo", "posti"} /\ Mandato(Segue[stadio])
    BY <1>5, MandaCommit
  <2> DEFINE st == Segue[stadio]
  <2>2. st \in {"no", "copie", "prima", "sigillo", "seconda", "posti", "terza", "vuota"}
    BY <2>1, TavolaSegue
  <2>3. Mandato(st)
    BY <2>1
  <2> HIDE DEF st
  <2>4. /\ Retto(duro', attesa', ora') /\ Stadi(duro', attesa', ora', slot, seq, op, st)
        /\ Veduta(slot, ora') = Veduta(slot, ora) /\ Intero(ora')
    BY <2>3 DEF Mandato, Vive, Intero
  <2> QED  BY <1>3, <1>4, <2>2, <2>4, StadiSalvi
<1>6. CASE Comando = "vuota" /\ Metti(InVuota)
  <2>1. Svuotata
    BY <1>1, <1>6, ScriveVuota
  <2>2. /\ Retto(duro', attesa', ora') /\ Riposo(duro', attesa', ora', seq + 1) /\ Intero(ora')
        /\ Veduta(slot, ora') = Veduta(slot, ora)
    BY <2>1 DEF Svuotata
  <2>3. seq + 1 \in Nat
    BY <1>3
  <2>4. /\ \A d : Puo(d, duro', attesa') => Sano(d) /\ Recuperato(d) = [a \in Meta |-> ora'[a]]
        /\ Tagliabile(duro', attesa', ora')
    BY <2>2, <2>3, TagliaRiposo DEF Intero
  <2>5. Recuperato(ora') = Recuperato(duro')
    BY <2>2, <2>4, PuoSe
  <2> QED  BY <2>2, <2>4, <2>5 DEF Salvo
<1>7. CASE Comando \in Svuotate /\ UNCHANGED disco
  <2>1. duro' = duro /\ attesa' = attesa /\ ora' = ora
    BY <1>7 DEF disco
  <2>2. Stadi(duro, attesa, ora, slot, seq, op, stadio) /\ Intero(ora)
    BY <1>2, <1>3, StadiOra DEF Vive, Intero
  <2>3. Salvo(duro, attesa, ora, Veduta(slot, ora))
    BY <1>1, <1>3, <1>4, <2>2, StadiSalvi
  <2> QED  BY <1>3, <2>1, <2>3
<1> QED  BY <1>5, <1>6, <1>7 DEF Fallito

\* Anywhere.
LEMMA FallitoSempre ==
    ASSUME "pigro" \notin Eventi, Ind, AlPasso, Fallito, fase \in {"monta", "montato"}
    PROVE  /\ Retto(duro', attesa', ora') /\ Tagliabile(duro', attesa', ora')
           /\ promesso = FALSE /\ op # Niente
           /\ fase = "montato" /\ stadio = "no" /\ op.che # "smonta" =>
                op.pc = "flush" /\ op.che = "sync" /\ UNCHANGED disco
<1>1. Retto(duro, attesa, ora) /\ Tagliabile(duro, attesa, ora) /\ Controllo /\ TipoOp(op)
      /\ (fase = "monta" <=> op.che = "monta")
  BY DEF Ind, Controllo
<1>2. op # Niente
  <2>1. Comando \in Scritture \cup Svuotate \cup {"vuota"}
    BY DEF Fallito
  <2>2. stadio # "no" => op # Niente
    BY <1>1, NienteTipo DEF Controllo
  <2>3. stadio = "no" => Comando = op.pc
    BY DEF Comando
  <2>4. "no" \notin Scritture \cup Svuotate \cup {"vuota"}
    BY DEF Scritture, Svuotate
  <2> QED  BY <2>1, <2>2, <2>3, <2>4, NienteTipo
<1>3. promesso = FALSE
  BY <1>1, <1>2 DEF Controllo
<1>4. CASE stadio # "no"
  BY <1>2, <1>3, <1>4, FallitoCommit DEF Salvo
<1>5. CASE stadio = "no"
  <2>1. Comando = op.pc /\ op.pc # "vuota"
    BY <1>1, <1>2, <1>5 DEF Comando, TipoOp
  <2>2. CASE Comando \in Scritture /\ Manda
    <3>1. CASE fase = "monta"
      BY <1>2, <1>3, <2>2, <3>1, MandaMonta
    <3>2. CASE fase = "montato"
      BY <1>2, <1>3, <1>5, <2>2, <3>2, ScriveSmonta
    <3> QED  BY <3>1, <3>2
  <2>3. CASE Comando \in Svuotate /\ UNCHANGED disco
    <3>1. Retto(duro', attesa', ora') /\ Tagliabile(duro', attesa', ora')
      BY <1>1, <2>3 DEF disco
    <3>2. op.pc \in {"flush", "flushjsb", "flushsb"}
      BY <1>1, <1>2, <2>1, <2>3 DEF Svuotate, TipoOp
    <3>3. fase = "montato" /\ op.che # "smonta" => op.pc = "flush" /\ op.che = "sync"
      BY <1>1, <3>2, Luoghi
    <3> QED  BY <1>2, <1>3, <2>3, <3>1, <3>3
  <2> QED  BY <2>1, <2>2, <2>3 DEF Fallito
<1> QED  BY <1>4, <1>5

LEMMA PassoErrore ==
    ASSUME "pigro" \notin Eventi, Ind, ErroreDisco
    PROVE  Ind'
<1>1. /\ AlPasso /\ Fallito /\ op' = Niente /\ stadio' = "no" /\ promesso' = promesso
      /\ fase \in {"monta", "montato"}
  BY DEF ErroreDisco, Fallito
<1>2. /\ Retto(duro', attesa', ora') /\ Tagliabile(duro', attesa', ora')
      /\ promesso = FALSE /\ op # Niente
      /\ fase = "montato" /\ stadio = "no" /\ op.che # "smonta" =>
           op.pc = "flush" /\ op.che = "sync" /\ UNCHANGED disco
  BY <1>1, FallitoSempre
<1>3. CASE fase' \in {"spento", "sola"} /\ VuotaMemoria
  BY <1>1, <1>2, <1>3, Spento
<1>4. CASE /\ fase = "montato" /\ op.che # "smonta" /\ fase' = fase /\ guasto' = (stadio # "no")
           /\ IF stadio = "vuota" THEN seq' = seq + 1 /\ liberati' = FALSE
              ELSE UNCHANGED <<seq, liberati>>
           /\ UNCHANGED <<slot, pre>>
  <2>1. Controllo /\ Spazio /\ TipoOp(op) /\ Fila(slot) /\ Transazione(slot) /\ seq \in Nat /\ liberati \in BOOLEAN
    BY DEF Ind, Controllo
  <2>2. CASE stadio # "no"
    <3>1. /\ Veduta(slot, ora') = Veduta(slot, ora)
          /\ Salvo(duro', attesa', ora', Veduta(slot, ora))
      BY <1>1, <2>2, FallitoCommit
    <3>2. op.pc \in {"inizio", "fine", "commit"}
      BY <2>1, <2>2 DEF Controllo
    <3>3. ~guasto
      BY <3>2, InCorso
    <3>4. Coerenti(Veduta(slot, ora), Niente)
      <4>1. /\ Vive(Veduta(slot, ora), Presenti(slot), ora, pre, op, liberati)
            /\ Coerenti(Veduta(slot, ora), op)
        BY <1>4, <3>3, VivaOra
      <4>2. Niente.che \notin Nuovi /\ Niente.che # "tronca"
        BY NienteTipo DEF Nuovi
      <4> QED  BY <3>2, <4>1, <4>2, VivaFine
    <3>5. seq' \in Nat /\ liberati' \in BOOLEAN /\ guasto' = TRUE /\ slot' = slot
      <4>1. slot' = slot
        BY <1>4
      <4>2. guasto' = TRUE
        BY <1>4, <2>2, Zenon
      <4>3. CASE stadio = "vuota"
        <5>1. seq' = seq + 1 /\ liberati' = FALSE
          BY <1>4, <4>3, Zenon
        <5>2. seq' \in Nat
          BY <2>1, <5>1
        <5>3. liberati' \in BOOLEAN
          BY <5>1, Zenon
        <5> QED  BY <4>1, <4>2, <5>2, <5>3, Zenon
      <4>4. CASE stadio # "vuota"
        <5>1. seq' = seq /\ liberati' = liberati
          BY <1>4, <4>4, Zenon
        <5> QED  BY <2>1, <4>1, <4>2, <5>1, Zenon
      <4> QED  BY <4>3, <4>4, Zenon
    <3>6. Salvo(duro', attesa', ora', Veduta(slot', ora')) /\ Coerenti(Veduta(slot', ora'), op')
      BY <1>1, <3>1, <3>4, <3>5
    <3> QED  BY <1>1, <1>2, <1>4, <2>1, <3>5, <3>6, Guastato
  <2>3. CASE stadio = "no"
    <3>1. op.pc = "flush" /\ op.che = "sync" /\ UNCHANGED disco
      BY <1>2, <1>4, <2>3
    <3>2. ~guasto
      <4>1. Niente.pc = "no"
        BY NienteTipo
      <4>2. Chiamata("smonta", "smontato").pc = "smontato" /\ Chiamata("fsync", "lascia").pc = "lascia"
        BY DEF Chiamata, Niente
      <4> QED  BY <2>1, <3>1, <4>1, <4>2 DEF Controllo
    <3>3. liberati = FALSE /\ liberati' = FALSE /\ seq' = seq /\ slot' = slot /\ pre' = pre
          /\ guasto' = guasto /\ promesso' = FALSE
      BY <1>1, <1>2, <1>4, <2>1, <2>3, <3>1, <3>2 DEF Controllo
    <3>4. pre # {} => 2 * Len(slot) < MaxSlot
      <4>1. ~Avviata(op)
        BY <3>1 DEF Avviata
      <4> QED  BY <2>1, <2>3, <3>1, <3>2, <4>1 DEF Spazio
    <3>5. TipoOp(op') /\ op'.che = "niente" /\ op'.pc = "no" /\ op'.che \notin Nuovi
      BY <1>1, NienteTipo DEF Nuovi
    <3> QED  BY <1>1, <1>2, <1>4, <2>3, <3>1, <3>2, <3>3, <3>4, <3>5, Passato
  <2> QED  BY <2>2, <2>3
<1> QED  BY <1>3, <1>4 DEF ErroreDisco

-----------------------------------------------------------------------------
(* The invariant.                                                          *)

LEMMA AllInizio ==
    ASSUME Init
    PROVE  Ind
<1>1. /\ duro \in VolumiIniziali /\ ora = duro /\ attesa = Pulita
      /\ fase = "spento" /\ op = Niente /\ stadio = "no"
      /\ slot = <<>> /\ seq = 0 /\ liberati = FALSE /\ guasto = FALSE /\ pre = {}
      /\ promesso = FALSE
  BY DEF Init
<1>2. Sano(duro)
  BY <1>1, VolumiSani
<1>3. Retto(duro, attesa, ora) /\ Tagliabile(duro, attesa, ora)
  BY <1>1, <1>2, TagliaFermo
<1>4. Controllo
  BY <1>1, NienteTipo, VedutaVuota DEF Controllo
<1>5. Spazio
  BY <1>1, NienteTipo DEF Spazio, Avviata
<1>6. Letto
  BY <1>1 DEF Letto
<1>7. DiscoMontato /\ DiscoInMonta /\ VivaC /\ VivaV
  BY <1>1 DEF DiscoMontato, DiscoInMonta, VivaC, VivaV
<1> QED  BY <1>3, <1>4, <1>5, <1>6, <1>7 DEF Ind

\* Every step keeps it.
LEMMA IndPasso ==
    ASSUME "pigro" \notin Eventi, "rimonta" \notin Eventi, Cardinality(Meta) < Riserva,
           Ind, [Next]_vars
    PROVE  Ind'
<1>1. CASE Inizia
  BY <1>1, PassoInizia, PassoMonta
<1>2. CASE BlkWrite \/ BlkFlush
  BY <1>2, PassoBlk
<1>3. CASE Scarica \/ Vuota
  BY <1>3, PassoScarica, PassoVuota
<1>4. CASE giornale_inizio \/ giornale_fine \/ giornale_commit
  BY <1>4, PassoGiornaleInizio, PassoGiornaleFine, PassoGiornaleCommit
<1>5. CASE prenotazione_chiudi
  BY <1>5, PassoChiudi, PassoSenzaPre
<1>6. CASE alloca_blocco \/ dir_scrivi \/ scrivi_inode
  BY <1>6, PassoBitmap, PassoDir, PassoInode
<1>7. CASE giornale_liberato \/ libera_blocco
  BY <1>7, PassoLiberato, PassoToglie
<1>8. CASE giornale_dati \/ ErroreDati
  BY <1>8, PassoDati
<1>9. CASE Torna \/ FsyncFlush
  BY <1>9, PassoTorna, PassoFsyncFlush
<1>10. CASE ErroreDisco \/ Taglio
  BY <1>10, PassoErrore, PassoTaglio
<1>11. CASE FsyncErrore
  <2>1. UNCHANGED <<disco, fase, memoria, op, stadio, promesso>>
    BY <1>11 DEF FsyncErrore
  <2> QED  BY <2>1, Fermata
<1>12. CASE UNCHANGED vars
  <2>1. UNCHANGED <<disco, fase, memoria, op, stadio, promesso>>
    BY <1>12 DEF vars
  <2> QED  BY <2>1, Fermata
<1> QED  BY <1>1, <1>2, <1>3, <1>4, <1>5, <1>6, <1>7, <1>8, <1>9, <1>10, <1>11, <1>12
         DEF Next, Passo, Male

-----------------------------------------------------------------------------
(* What the invariant says.  The disk writes the superblock of the empty   *)
(* journal before the next transaction goes over the old one ("pigro" does *)
(* not happen); a volume is not mounted again over a cache that a failed   *)
(* flush left full ("rimonta" does not); and GIO_RISERVA slots are more    *)
(* than the metadata blocks an operation may change, here all there are.   *)

LEMMA IndSempre ==
    ASSUME "pigro" \notin Eventi, "rimonta" \notin Eventi, Cardinality(Meta) < Riserva
    PROVE  Spec => []Ind
<1>1. Init => Ind
  BY AllInizio
<1>2. Ind /\ [Next]_vars => Ind'
  BY IndPasso
<1> QED  BY <1>1, <1>2, PTL DEF Spec

LEMMA IndCoerente == Ind => VolumeCoerente
<1> SUFFICES ASSUME Ind, fase = "montato", op = Niente,
                    NEW p \in Vista(Ino)
             PROVE  /\ p[2] \in Vista(Bm(Gruppo[p[2]]))
                    /\ Vista(Dato(p[2])) = {p[1]}
                    /\ \A q \in Vista(Ino) : q[2] = p[2] => q = p
  BY Zenon DEF VolumeCoerente
<1>1. Coerenti(Visione, op)
  BY DEF Ind, VivaC
<1>2. \A a \in Posti : Visione[a] = Vista(a)
  BY DEF Visione
<1>3. Visione[Ino] = Vista(Ino)
  BY <1>2, Nomi
<1>4. ~Taglia(op, p)
  BY NienteTipo DEF Taglia
<1>5. /\ p \in File \X Dati /\ p[2] \in Visione[Bm(Gruppo[p[2]])]
      /\ Visione[Dato(p[2])] = {p[1]}
      /\ \A q \in Visione[Ino] : q[2] = p[2] => q = p
  BY <1>1, <1>3, <1>4 DEF Coerenti
<1>6. p[2] \in Dati
  BY <1>5
<1>7. Bm(Gruppo[p[2]]) \in Posti /\ Dato(p[2]) \in Posti
  BY <1>6, Nomi
<1> QED  BY <1>2, <1>3, <1>5, <1>7

\* A mounted volume between two calls is consistent, after any number of
\* power cuts and disk errors, at any point of giornale.c's commit and
\* replay: a file's block is taken in the bitmap, is that file's alone and
\* holds what that file wrote.
THEOREM VolumeSempreCoerente ==
    ASSUME "pigro" \notin Eventi, "rimonta" \notin Eventi, Cardinality(Meta) < Riserva
    PROVE  Spec => []VolumeCoerente
<1>1. Spec => []Ind
  BY IndSempre
<1>2. Ind => VolumeCoerente
  BY IndCoerente
<1> QED  BY <1>1, <1>2, PTL

LEMMA IndPromette == Ind => SyncPromette
<1> SUFFICES ASSUME Ind, promesso
             PROVE  /\ \A a \in Meta : Recuperato(duro)[a] = Vista(a)
                    /\ \A p \in Vista(Ino) : duro[Dato(p[2])] = {p[1]}
  BY Zenon DEF SyncPromette
<1>1. op = Niente /\ slot = <<>> /\ attesa = Pulita /\ fase = "montato" /\ ~guasto
  BY DEF Ind, Controllo
<1>2. /\ Coerenti(Veduta(slot, ora), op) /\ Retto(duro, attesa, ora) /\ seq \in Nat
      /\ \A a \in Posti : Vista(a) = Veduta(slot, ora)[a]
      /\ Coerente([a \in Posti |-> ora[a]])
  BY <1>1, VivaOra
<1>3. duro = ora
  BY <1>1, <1>2, Fermato
<1>4. \A a \in Posti : Vista(a) = ora[a]
  <2>1. Veduta(slot, ora) = [a \in Posti |-> ora[a]]
    BY <1>1, VedutaVuota
  <2> QED  BY <1>2, <2>1
<1>5. Recuperato(duro) = [a \in Meta |-> ora[a]]
  <2>1. stadio = "no"
    BY <1>1, NienteTipo DEF Ind, Controllo
  <2>2. Riposo(duro, attesa, ora, seq)
    BY <1>1, <2>1 DEF Ind, DiscoMontato
  <2>3. Puo(duro, duro, attesa)
    BY <1>2, PuoSe
  <2> QED  BY <1>2, <2>2, <2>3, TagliaRiposo
<1>6. \A a \in Meta : Recuperato(duro)[a] = Vista(a)
  BY <1>4, <1>5, Nomi
<1>7. ASSUME NEW p \in Vista(Ino) PROVE duro[Dato(p[2])] = {p[1]}
  <2>1. Ino \in Posti
    BY Nomi
  <2> DEFINE m == [a \in Posti |-> ora[a]]
  <2>2. p \in m[Ino]
    BY <1>4, <2>1
  <2>3. p \in File \X Dati /\ m[Dato(p[2])] = {p[1]}
    <3>1. Coerente(m)
      BY <1>2
    <3> HIDE DEF m
    <3> QED  BY <2>2, <3>1 DEF Coerente
  <2>4. Dato(p[2]) \in Posti
    BY <2>3, Nomi
  <2> QED  BY <1>3, <2>3, <2>4
<1> QED  BY <1>6, <1>7

\* After a sync that returned 0 a power cut loses nothing: the replay of
\* giornale_monta gives back the metadata the programs see, and the data of
\* every file are on the disk for good.
THEOREM SyncMantiene ==
    ASSUME "pigro" \notin Eventi, "rimonta" \notin Eventi, Cardinality(Meta) < Riserva
    PROVE  Spec => []SyncPromette
<1>1. Spec => []Ind
  BY IndSempre
<1>2. Ind => SyncPromette
  BY IndPromette
<1> QED  BY <1>1, <1>2, PTL

-----------------------------------------------------------------------------
(* The journal implements the volume that is never cut in half.            *)

LEMMA RecuperatoPoi == Recuperato(duro)' = Recuperato(duro') /\ Recuperato(ora)' = Recuperato(ora')
BY Zenon DEF Recuperato, Rileggi, DaRipristinare, passo, Partenza, Esamina, Buone

\* What is seen of a disk that is not written, by a call that stays where it is.
LEMMA VistoStesso ==
    ASSUME UNCHANGED <<ora, fase, slot, pre, op>>
    PROVE  Visto' = Visto
<1>1. ora' = ora /\ fase' = fase /\ slot' = slot /\ pre' = pre /\ op' = op
  OBVIOUS
<1>2. Recuperato(ora)' = Recuperato(ora)
  BY <1>1, RecuperatoPoi
<1>3. \A a : Vista(a)' = Vista(a)
  BY <1>1 DEF Vista, Tiene, Copia
<1>4. \A g : Presi(g)' = Presi(g)
  BY <1>1, <1>3 DEF Presi
<1>5. \A f : Suoi(f)' = Suoi(f)
  BY <1>1, <1>3 DEF Suoi
<1>6. Dentro' = Dentro /\ InodeNuovo' = InodeNuovo
  BY <1>1, <1>3 DEF Dentro, InodeNuovo
<1>7. \A g : BitmapNuova(g)' = BitmapNuova(g)
  BY <1>1, <1>3, <1>4, <1>5, <1>6 DEF BitmapNuova
<1> QED  BY <1>1, <1>2, <1>3, <1>6, <1>7 DEF Visto

\* A flush makes what a mount would find what a cut leaves.
LEMMA SvuotaSalva ==
    ASSUME Ind, Svuota, Recuperato(ora) = Recuperato(duro) \/ Visto' = Visto
    PROVE  Promessa!Next
<1>1. Recuperato(duro)' = Recuperato(ora)
  BY RecuperatoPoi DEF Svuota
<1>2. Recuperato(ora) \in {Recuperato(duro), Visto}
  BY DEF Ind, Letto
<1>3. CASE Recuperato(ora) = Recuperato(duro)
  BY <1>1, <1>3 DEF Promessa!Next, Promessa!Opera
<1>4. CASE Visto' = Visto /\ Recuperato(ora) = Visto
  BY <1>1, <1>4 DEF Promessa!Next, Promessa!Salva
<1> QED  BY <1>2, <1>3, <1>4

LEMMA SvuotaImplementa ==
    ASSUME Ind, BlkFlush
    PROVE  Promessa!Next
<1>1. Comando \in Svuotate /\ Svuota /\ Procede /\ UNCHANGED <<fase, memoria>>
  BY DEF BlkFlush
<1>2. Retto(duro, attesa, ora) /\ Controllo
  BY DEF Ind
<1>3. CASE stadio # "no"
  <2>1. ora' = ora /\ op' = op
    BY <1>1, <1>3 DEF Svuota, Procede
  <2>2. Visto' = Visto
    BY <1>1, <2>1, VistoStesso DEF memoria
  <2> QED  BY <1>1, <2>2, SvuotaSalva
<1>4. CASE stadio = "no" /\ fase = "montato"
  <2>1. op.pc \in {"flush", "flushsb"} /\ ~guasto
    BY <1>4, PassoSvuotaCall
  <2>2. Riposo(duro, attesa, ora, seq)
    BY <1>4, <2>1 DEF Ind, DiscoMontato
  <2>3. Coerente([a \in Posti |-> ora[a]]) /\ seq \in Nat
    BY <1>4, <2>1, VivaOra
  <2>4. Puo(duro, duro, attesa) /\ Puo(ora, duro, attesa)
    BY <1>2, PuoSe
  <2>5. Recuperato(ora) = Recuperato(duro)
    BY <1>2, <2>2, <2>3, <2>4, TagliaRiposo
  <2> QED  BY <1>1, <2>5, SvuotaSalva
<1>5. CASE stadio = "no" /\ fase # "montato"
  <2>1. fase' # "montato" /\ ora' = ora
    BY <1>1, <1>5 DEF Svuota
  <2>2. Recuperato(ora)' = Recuperato(ora)
    BY <2>1, RecuperatoPoi
  <2>3. Visto = Recuperato(ora) /\ Visto' = Recuperato(ora)'
    BY <1>5, <2>1, Zenon DEF Visto
  <2> QED  BY <1>1, <2>2, <2>3, SvuotaSalva
<1> QED  BY <1>3, <1>4, <1>5

LEMMA TaglioImplementa ==
    ASSUME Ind, Taglio
    PROVE  Promessa!Next
<1>1. fase' = "spento" /\ ora' = duro'
  BY DEF Taglio
<1>2. Visto' = Recuperato(duro)'
  <2>1. Visto' = Recuperato(ora)'
    BY <1>1, Zenon DEF Visto
  <2> QED  BY <1>1, <2>1, RecuperatoPoi
<1>3. Recuperato(duro)' \in {Recuperato(duro), Recuperato(ora)}
  BY PassoTaglio, RecuperatoPoi
<1>4. Recuperato(ora) \in {Recuperato(duro), Visto}
  BY DEF Ind, Letto
<1> QED  BY <1>2, <1>3, <1>4 DEF Promessa!Next, Promessa!Perde

\* Nothing else writes the disk for good.
LEMMA DuroFermo ==
    ASSUME Next \/ UNCHANGED vars, ~BlkFlush, ~Scarica, ~FsyncFlush, ~Taglio
    PROVE  duro' = duro
<1>1. ASSUME NEW v, NEW t, Scrive(v, t) PROVE duro' = duro
  BY <1>1 DEF Scrive
<1>2. ASSUME NEW v, Metti(v) PROVE duro' = duro
  BY <1>2 DEF Metti, Scrive
<1>3. ASSUME Manda PROVE duro' = duro
  BY <1>3 DEF Manda, Metti, Scrive
<1>4. ASSUME NEW a, NEW v, NEW o, NEW p, giornale_scrivi(a, v, o, p) PROVE duro' = duro
  BY <1>4 DEF giornale_scrivi, disco
<1>5. CASE Inizia
  BY <1>5 DEF Inizia, ScriviPrenotato, ScriviInCoda, CreaCartella, Tronca, Chiudi, Tempo, Sync,
              Smonta, Fsync, Monta, Chiama, disco
<1>6. CASE BlkWrite \/ Vuota \/ ErroreDisco \/ ErroreDati \/ giornale_dati
  BY <1>2, <1>3, <1>6 DEF BlkWrite, Vuota, ErroreDisco, ErroreDati, giornale_dati, disco
<1>7. CASE giornale_inizio \/ giornale_fine \/ giornale_commit \/ giornale_liberato \/ Torna \/ FsyncErrore
  BY <1>7 DEF giornale_inizio, giornale_fine, giornale_commit, giornale_liberato, Torna, FsyncErrore, disco
<1>8. CASE prenotazione_chiudi
  BY <1>4, <1>8 DEF prenotazione_chiudi, disco
<1>9. CASE alloca_blocco \/ dir_scrivi \/ scrivi_inode \/ libera_blocco
  BY <1>4, <1>9 DEF alloca_blocco, dir_scrivi, scrivi_inode, libera_blocco
<1>10. CASE UNCHANGED vars
  BY <1>10 DEF vars, disco
<1> QED  BY <1>5, <1>6, <1>7, <1>8, <1>9, <1>10 DEF Next, Passo, Male

LEMMA PassoImplementa ==
    ASSUME Ind, [Next]_vars
    PROVE  Promessa!Next
<1>1. CASE BlkFlush
  BY <1>1, SvuotaImplementa
<1>2. CASE Scarica
  BY <1>2, PassoScarica, RecuperatoPoi DEF Promessa!Next, Promessa!Opera
<1>3. CASE FsyncFlush
  <2>1. Svuota /\ UNCHANGED <<ora, fase, slot, pre, op>>
    BY <1>3 DEF FsyncFlush, Svuota, memoria
  <2> QED  BY <2>1, VistoStesso, SvuotaSalva
<1>4. CASE Taglio
  BY <1>4, TaglioImplementa
<1>5. CASE ~BlkFlush /\ ~Scarica /\ ~FsyncFlush /\ ~Taglio
  <2>1. duro' = duro
    BY <1>5, DuroFermo
  <2> QED  BY <2>1, RecuperatoPoi DEF Promessa!Next, Promessa!Opera
<1> QED  BY <1>1, <1>2, <1>3, <1>4, <1>5

\* The journal implements the volume of module Volume: whatever the moment of
\* the cut, the metadata that giornale_monta's replay leaves are those of a
\* whole view - the last one a commit saved or the one the programs saw -
\* and never half of an operation.
THEOREM VolumeImplementato ==
    ASSUME "pigro" \notin Eventi, "rimonta" \notin Eventi, Cardinality(Meta) < Riserva
    PROVE  Spec => ImplementaVolume
<1>1. Spec => []Ind
  BY IndSempre
<1>2. Init => Promessa!Init
  <2>1. ASSUME Init PROVE Visto = Recuperato(duro)
    BY <2>1, Zenon DEF Init, Visto
  <2> QED  BY <2>1 DEF Promessa!Init
<1>3. Ind /\ [Next]_vars => [Promessa!Next]_(Promessa!vars)
  BY PassoImplementa
<1> QED  BY <1>1, <1>2, <1>3, PTL DEF Spec, ImplementaVolume, Promessa!Spec
=============================================================================
