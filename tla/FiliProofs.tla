----------------------------- MODULE FiliProofs -----------------------------
(***************************************************************************)
(* What the threads of a program wait with, for every number of threads:   *)
(* a writer inside the lock of readers and writers is alone, a thread      *)
(* asked to stop does not sleep in its condition, and no wake-up is lost,  *)
(* of the lock of three states, of conditions and of semaphores.           *)
(***************************************************************************)
EXTENDS Fili, Integers, FiniteSetTheorems, TLAPS

-----------------------------------------------------------------------------
(* The shape of a thread: where it is, and what its registers hold there.  *)

Rw == {"rd", "wr", "tryrd", "trywr", "unl"}

Monitor == {"consuma", "produci"}

Pazienti == {"rd", "wr", "consuma"}

Passi ==
    {"fuori", "dormi", "dorme", "sveglio", "sveglia", "prendi", "riprendi", "lascia", "aspetta",
     "aspetta qui", "aspettato", "annulla", "segnala", "rd prova", "rd entra", "wr conta",
     "wr prova", "wr entra", "unl", "co prova", "co entra", "produce", "sem prova",
     "sem scambia", "sem lascia", "finito"}

Registri ==
    [op : Chiamate \cup {"no", "unl"}, pc : Passi, poi : Passi, dopo : Passi, m : {"m", "rm"},
     c : {"c", "rc"}, dove : Parole, atteso : Nat, ms : {"mai", "corre", "scaduto"}, visto : Nat]

\* The words the threads share: the two locks, what the lock of readers and
\* writers counts, the conditions, the things and the semaphore.
Memoria ==
    /\ mem \in [Parole -> Int]
    /\ mem.m \in {0, 1, 2} /\ mem.rm \in {0, 1, 2} /\ mem.scrittore \in {0, 1}
    /\ mem.lettori \in Nat /\ mem.c \in Nat /\ mem.rc \in Nat /\ mem.roba \in Nat /\ mem.s \in Nat

TypeOK ==
    /\ Memoria
    /\ th \in [Fili -> Registri]
    /\ ferma \in SUBSET Fili /\ scuoti \in SUBSET Fili
    /\ tiene \in [Fili -> {"no", "R", "W"}]
    /\ fa \in Programmi

\* In the kernel's sleep.
Sonno == {"dormi", "dorme", "sveglio"}

\* On its way to a lock.
VersoLucchetto(r) == r.pc \in {"prendi", "riprendi"} \/ (r.pc \in Sonno /\ r.dopo = "riprendi")

\* Which call is where.
Posto(r) ==
    /\ r.op \in Rw => r.m = "rm" /\ r.c = "rc"
    /\ r.op \notin Rw => r.m = "m" /\ r.c = "c"
    /\ r.pc \in {"rd prova", "rd entra"} => r.op \in {"rd", "tryrd"}
    /\ r.pc = "wr conta" => r.op = "wr"
    /\ r.pc \in {"wr prova", "wr entra"} => r.op \in {"wr", "trywr"}
    /\ r.pc = "unl" => r.op = "unl"
    /\ r.pc \in {"co prova", "co entra"} => r.op = "consuma"
    /\ r.pc = "produce" => r.op = "produci"
    /\ r.pc = "segnala" => r.op \in {"unl", "produci"}
    /\ r.pc \in {"aspetta", "aspetta qui", "aspettato", "annulla"} => r.op \in Pazienti
    /\ r.pc = "lascia" => r.op \in Rw \cup Monitor
    /\ r.pc = "finito" => r.op \in {"rd", "wr"}
    /\ r.pc \in {"sem prova", "sem scambia"} => r.op \in {"attende", "attende_ms"}
    /\ r.pc = "sem lascia" => r.op = "lascia"
    /\ r.pc = "sem scambia" => r.visto > 0

\* Where a thread goes with the lock it asks for, and where it goes without it.
Ritorno(r) ==
    /\ VersoLucchetto(r) =>
         /\ r.op \in Rw \cup Monitor
         /\ r.poi = Dentro(r.op) \/ (r.poi = "annulla" /\ r.op \in Pazienti)
    /\ r.pc = "lascia" => r.poi = "fuori" \/ (r.poi = "aspetta qui" /\ r.op \in Pazienti)

\* What it sleeps for, and whom it wakes.
NelNucleo(r) ==
    /\ r.pc \in Sonno =>
         \/ r.dopo = "riprendi" /\ r.dove = r.m /\ r.atteso = 2
         \/ r.dopo = "aspettato" /\ r.dove = r.c /\ r.op \in Pazienti
         \/ r.dopo = "sem prova" /\ r.dove = "s" /\ r.atteso = 0 /\ r.op \in {"attende", "attende_ms"}
    /\ r.pc = "sveglia" =>
         \/ /\ r.dopo = "lascia" /\ r.poi = "fuori" /\ r.dove = r.c /\ r.op \in {"unl", "produci"}
            /\ r.atteso = IF r.op = "produci" THEN 1 ELSE 0
         \/ /\ r.dopo = "fuori" \/ (r.dopo = "aspetta qui" /\ r.op \in Pazienti)
            /\ r.dove = r.m /\ r.atteso = 1 /\ r.op \in Rw \cup Monitor
         \/ r.dopo = "fuori" /\ r.dove = "s" /\ r.atteso = 1 /\ r.op = "lascia"

\* A thread that holds the lock of readers and writers is out of it, on its way
\* in to leave it, or on its way out having taken it.
Tenuta(r, h) ==
    /\ h # "no" =>
         \/ r.pc = "fuori"
         \/ r.op = "unl" /\ (VersoLucchetto(r) \/ r.pc = "unl")
         \/ /\ r.op \in {"rd", "tryrd", "wr", "trywr"}
            /\ (r.pc = "lascia" /\ r.poi = "fuori") \/ (r.pc = "sveglia" /\ r.dopo = "fuori")
    /\ r.op = "unl" /\ (VersoLucchetto(r) \/ r.pc = "unl") => h # "no"

Forma == \A t \in Fili : /\ Posto(th[t]) /\ Ritorno(th[t])
                         /\ NelNucleo(th[t]) /\ Tenuta(th[t], tiene[t])

Inv1 == TypeOK /\ Forma

-----------------------------------------------------------------------------
(* Who is inside a lock: the threads between mutex_prendi and mutex_lascia, *)
(* also the one that ends there (annulla_se_chiesto).                      *)

Dentro_lucchetto ==
    {"lascia", "aspetta", "annulla", "segnala", "rd prova", "rd entra", "wr conta", "wr prova",
     "wr entra", "unl", "co prova", "co entra", "produce", "finito"}

Ha(r) == r.pc \in Dentro_lucchetto \/ (r.pc = "sveglia" /\ r.dopo = "lascia")

\* A lock is one thread's, and is not free while it is.
Lucchetto ==
    /\ \A t \in Fili : Ha(th[t]) => mem[th[t].m] # 0
    /\ \A t, u \in Fili : Ha(th[t]) /\ Ha(th[u]) /\ th[t].m = th[u].m => t = u

Lettori == {t \in Fili : tiene[t] = "R"}

\* The words of the lock of readers and writers count who holds it, and who is
\* past the test found it as it still is.
Conti ==
    /\ mem.lettori = Cardinality(Lettori)
    /\ \A t \in Fili : tiene[t] = "W" => mem.scrittore = 1 /\ mem.lettori = 0
    /\ mem.scrittore = 1 => \E t \in Fili : tiene[t] = "W"
    /\ \A t, u \in Fili : tiene[t] = "W" /\ tiene[u] = "W" => t = u
    /\ \A t \in Fili : th[t].pc = "rd entra" => mem.scrittore = 0
    /\ \A t \in Fili : th[t].pc = "wr entra" => mem.scrittore = 0 /\ mem.lettori = 0

Inv2 == Lucchetto /\ Conti

\* On its way to sleep in the monitor.
Diretto(r) ==
    /\ r.op = "consuma"
    /\ \/ r.pc \in {"aspetta", "aspetta qui"} \/ (r.pc = "lascia" /\ r.poi = "aspetta qui")
       \/ r.pc = "sveglia" /\ r.dopo = "aspetta qui"
       \/ r.pc = "dormi" /\ r.dove = "c"

\* A thread asked to stop while it was on its way is shaken at its next sleep.
Scosso ==
    \A t \in ferma : /\ Diretto(th[t]) => t \in scuoti
                     /\ ~(th[t].op = "consuma" /\ th[t].pc = "dorme" /\ th[t].dove = "c")

-----------------------------------------------------------------------------
(* No wake-up is lost.                                                     *)

SonnoLucchetto ==
    \A w \in {"m", "rm"} : Dormienti(w) # {} => mem[w] = 2 \/ Svegliera(w) \cup Torna(w) # {}

SonnoRw == \A t \in Dormienti("rc") : th[t].atteso = mem.rc \/ Svegliera("rc") # {}

GuardanoS == Svegliera("s") \cup Torna("s") \cup {u \in Fili : th[u].pc \in {"sem prova", "sem scambia"}}

SonnoS == Dormienti("s") # {} => mem.s <= Cardinality(GuardanoS)

\* What a consumer has read of the condition, when it is about to sleep on it.
Letto(r) == IF r.pc = "dormi" THEN r.atteso ELSE r.visto

DopoLascia(r) ==
    /\ r.op = "consuma"
    /\ \/ r.pc = "aspetta qui" \/ (r.pc = "sveglia" /\ r.dopo = "aspetta qui")
       \/ r.pc = "dormi" /\ r.dove = "c"

\* It will sleep: nobody has signalled since it read the condition.
Dormira(u) == DopoLascia(th[u]) /\ Letto(th[u]) = mem.c /\ u \notin scuoti

InSonnoC(u) == th[u].op = "consuma" /\ th[u].pc = "dorme" /\ th[u].dove = "c"

\* It will look for things again, or wake somebody who will.
Guarda(u) ==
    \/ /\ th[u].op = "consuma" /\ th[u].pc \notin {"fuori", "lascia"}
       /\ ~(th[u].pc = "sveglia" /\ th[u].dopo = "fuori")
       /\ ~InSonnoC(u) /\ ~Dormira(u)
    \/ th[u].op = "produci" /\ (th[u].pc = "segnala" \/ (th[u].pc = "sveglia" /\ th[u].dove = "c"))

Guardano == {u \in Fili : Guarda(u)}

\* A consumer that goes to sleep found nothing, under the lock.
Rinuncia(r) ==
    r.op = "consuma" /\ (r.pc = "aspetta" \/ (r.pc = "lascia" /\ r.poi = "aspetta qui"))

NienteRoba == \A u \in Fili : Rinuncia(th[u]) => mem.roba = 0

\* What was read of a condition is not of the future, and nobody is about to
\* sleep on it while a producer wakes.
Lette ==
    /\ \A u \in Fili : Rinuncia(th[u]) /\ th[u].pc = "lascia" => th[u].visto <= mem.c
    /\ \A u \in Fili : DopoLascia(th[u]) => Letto(th[u]) <= mem.c
    /\ \A t, u \in Fili : th[t].op = "produci" /\ th[t].pc = "sveglia" /\ th[t].dove = "c" => ~Dormira(u)

Aspettante(u) == InSonnoC(u) \/ Dormira(u)

SonnoC == (\E u \in Fili : Aspettante(u)) => mem.roba <= Cardinality(Guardano)

Inv4 == SonnoLucchetto /\ SonnoRw /\ SonnoS

Inv5 == NienteRoba /\ Lette /\ SonnoC

-----------------------------------------------------------------------------
(* The steps, register by register.  Every step but sys_attesa_sveglia     *)
(* moves one thread only.                                                  *)

SoloFilo(t) == \A u \in Fili : u # t => th'[u] = th[u]

\* t goes on in the same call.
Muta(t, pc, poi, dopo, dove, atteso, visto) ==
    /\ SoloFilo(t)
    /\ th'[t].op = th[t].op /\ th'[t].m = th[t].m /\ th'[t].c = th[t].c
    /\ th'[t].pc = pc /\ th'[t].poi = poi /\ th'[t].dopo = dopo
    /\ th'[t].dove = dove /\ th'[t].atteso = atteso /\ th'[t].visto = visto

Resta(t, pc) == Muta(t, pc, th[t].poi, th[t].dopo, th[t].dove, th[t].atteso, th[t].visto)

Esce(t) == Muta(t, "lascia", "fuori", th[t].dopo, th[t].dove, th[t].atteso, th[t].visto)

\* One word is written.
Parola(w, v) == mem'[w] = v /\ \A x \in Parole : x # w => mem'[x] = mem[x]

\* sys_attesa_dormi; Sveglio; Scade and Segnale.
PassoSonno(t) ==
    /\ mem' = mem /\ tiene' = tiene /\ ferma' = ferma
    /\ \/ /\ th[t].pc = "dormi"
          /\ \/ mem[th[t].dove] # th[t].atteso /\ scuoti' = scuoti /\ Resta(t, th[t].dopo)
             \/ t \in scuoti /\ scuoti' = scuoti \ {t} /\ Resta(t, th[t].dopo)
             \/ /\ mem[th[t].dove] = th[t].atteso /\ t \notin scuoti
                /\ scuoti' = scuoti /\ Resta(t, "dorme")
       \/ th[t].pc = "sveglio" /\ scuoti' = scuoti /\ Resta(t, th[t].dopo)
       \/ th[t].pc = "dorme" /\ scuoti' = scuoti /\ Resta(t, "sveglio")

\* Tempo, proc_filo_ferma.
PassoFuori(t) ==
    /\ mem' = mem /\ tiene' = tiene
    /\ \/ ferma' = ferma /\ scuoti' = scuoti /\ Resta(t, th[t].pc)
       \/ /\ th[t].pc = "dorme" /\ Resta(t, "sveglio")
          /\ ferma' = ferma \cup {t} /\ scuoti' = scuoti
       \/ /\ th[t].pc # "dorme" /\ Resta(t, th[t].pc)
          /\ ferma' = ferma \cup {t} /\ scuoti' = scuoti \cup {t}

\* A thread changes at most its step.
StessiRegistri(u) ==
    /\ th'[u].op = th[u].op /\ th'[u].m = th[u].m /\ th'[u].c = th[u].c
    /\ th'[u].poi = th[u].poi /\ th'[u].dopo = th[u].dopo
    /\ th'[u].dove = th[u].dove /\ th'[u].atteso = th[u].atteso /\ th'[u].visto = th[u].visto

\* sys_attesa_sveglia.
PassoSveglia(t) ==
    /\ mem' = mem /\ tiene' = tiene /\ ferma' = ferma /\ scuoti' = scuoti
    /\ th[t].pc = "sveglia" /\ th'[t].pc = th[t].dopo
    /\ \A u \in Fili : /\ StessiRegistri(u)
                       /\ u # t => \/ th'[u].pc = th[u].pc
                                   \/ u \in Dormienti(th[t].dove) /\ th'[u].pc = "sveglio"
    /\ th[t].atteso = 0 => \A u \in Dormienti(th[t].dove) : th'[u].pc = "sveglio"
    /\ Dormienti(th[t].dove) # {} => \E u \in Dormienti(th[t].dove) : th'[u].pc = "sveglio"

\* mutex_prendi, Riprendi, mutex_lascia.
PassoMutex(t) ==
    LET r == th[t]
        v == mem[th[t].m] IN
    /\ tiene' = tiene /\ ferma' = ferma /\ scuoti' = scuoti
    /\ \/ r.pc = "prendi" /\ v = 0 /\ Parola(r.m, 1) /\ Resta(t, r.poi)
       \/ r.pc = "prendi" /\ v = 2 /\ mem' = mem /\ Muta(t, "dormi", r.poi, "riprendi", r.m, 2, r.visto)
       \/ r.pc = "prendi" /\ v = 1 /\ mem' = mem /\ Resta(t, "riprendi")
       \/ r.pc = "riprendi" /\ v = 0 /\ Parola(r.m, 2) /\ Resta(t, r.poi)
       \/ r.pc = "riprendi" /\ v # 0 /\ Parola(r.m, 2) /\ Muta(t, "dormi", r.poi, "riprendi", r.m, 2, r.visto)
       \/ r.pc = "lascia" /\ v = 2 /\ Parola(r.m, 0) /\ Muta(t, "sveglia", r.poi, r.poi, r.m, 1, r.visto)
       \/ r.pc = "lascia" /\ v # 2 /\ Parola(r.m, 0) /\ Resta(t, r.poi)

\* condizione_aspetta, AspettaQui, Aspettato, annulla_se_chiesto,
\* condizione_segnala.
PassoCond(t) ==
    LET r == th[t] IN
    /\ tiene' = tiene /\ ferma' = ferma /\ scuoti' = scuoti
    /\ \/ /\ r.pc = "aspetta" /\ mem' = mem
          /\ Muta(t, "lascia", "aspetta qui", r.dopo, r.dove, r.atteso, mem[r.c])
       \/ r.pc = "aspetta qui" /\ mem' = mem /\ Muta(t, "dormi", r.poi, "aspettato", r.c, r.visto, r.visto)
       \/ r.pc = "aspettato" /\ mem' = mem /\ Muta(t, "prendi", "annulla", r.dopo, r.dove, r.atteso, 0)
       \/ r.pc = "annulla" /\ mem' = mem /\ r.op \in {"rd", "wr"} /\ Resta(t, "finito")
       \/ r.pc = "annulla" /\ mem' = mem /\ Resta(t, Prova(r.op))
       \/ /\ r.pc = "segnala" /\ Parola(r.c, mem[r.c] + 1)
          /\ Muta(t, "sveglia", "fuori", "lascia", r.c, IF r.op = "produci" THEN 1 ELSE 0, r.visto)

\* The lock of readers and writers.
PassoRw(t) ==
    LET r == th[t] IN
    /\ ferma' = ferma /\ scuoti' = scuoti
    /\ \/ /\ r.pc = "rd prova" /\ mem' = mem /\ tiene' = tiene
          /\ \/ mem.scrittore # 1 /\ Resta(t, "rd entra")
             \/ r.op \in {"tryrd", "trywr"} /\ Esce(t)
             \/ r.op \notin {"tryrd", "trywr"} /\ Resta(t, "aspetta")
       \/ /\ r.pc = "rd entra" /\ Parola("lettori", mem.lettori + 1) /\ Esce(t)
          /\ tiene' = [tiene EXCEPT ![t] = "R"]
       \/ /\ r.pc = "wr conta" /\ Parola("in_attesa", mem.in_attesa + 1) /\ Resta(t, "wr prova")
          /\ tiene' = tiene
       \/ /\ r.pc = "wr prova" /\ mem' = mem /\ tiene' = tiene
          /\ \/ mem.scrittore # 1 /\ ~(mem.lettori > 0) /\ Resta(t, "wr entra")
             \/ r.op \in {"tryrd", "trywr"} /\ Esce(t)
             \/ r.op \notin {"tryrd", "trywr"} /\ Resta(t, "aspetta")
       \/ /\ r.pc = "wr entra" /\ mem'.scrittore = 1 /\ Esce(t)
          /\ \A x \in Parole : x \notin {"scrittore", "in_attesa"} => mem'[x] = mem[x]
          /\ tiene' = [tiene EXCEPT ![t] = "W"]
       \/ /\ r.pc = "unl" /\ Resta(t, "segnala") /\ tiene' = [tiene EXCEPT ![t] = "no"]
          /\ \/ mem.scrittore = 1 /\ Parola("scrittore", 0)
             \/ mem.scrittore # 1 /\ mem.lettori > 0 /\ Parola("lettori", mem.lettori - 1)
             \/ mem.scrittore # 1 /\ ~(mem.lettori > 0) /\ mem' = mem

\* The monitor.
PassoMonitor(t) ==
    LET r == th[t] IN
    /\ tiene' = tiene /\ ferma' = ferma /\ scuoti' = scuoti
    /\ \/ r.pc = "co prova" /\ mem' = mem /\ Resta(t, "co entra")
       \/ r.pc = "co prova" /\ mem' = mem /\ mem.roba = 0 /\ t \notin ferma /\ Resta(t, "aspetta")
       \/ /\ r.pc = "co entra" /\ Esce(t)
          /\ Parola("roba", IF mem.roba > 0 THEN mem.roba - 1 ELSE 0)
       \/ r.pc = "produce" /\ Parola("roba", mem.roba + 1) /\ Resta(t, "segnala")

\* The semaphore.
PassoSem(t) ==
    LET r == th[t] IN
    /\ tiene' = tiene /\ ferma' = ferma /\ scuoti' = scuoti
    /\ \/ /\ r.pc = "sem prova" /\ mem.s > 0 /\ mem' = mem
          /\ Muta(t, "sem scambia", r.poi, r.dopo, r.dove, r.atteso, mem.s)
       \/ r.pc = "sem prova" /\ mem.s = 0 /\ mem' = mem /\ Muta(t, "dormi", r.poi, "sem prova", "s", 0, r.visto)
       \/ r.pc = "sem prova" /\ mem.s = 0 /\ mem' = mem /\ Resta(t, "fuori")
       \/ /\ r.pc = "sem scambia" /\ mem.s = r.visto /\ Parola("s", mem.s - 1)
          /\ Muta(t, "fuori", r.poi, r.dopo, r.dove, r.atteso, 0)
       \/ /\ r.pc = "sem scambia" /\ mem' = mem
          /\ Muta(t, "sem prova", r.poi, r.dopo, r.dove, r.atteso, 0)
       \/ r.pc = "sem lascia" /\ Parola("s", mem.s + 1) /\ Muta(t, "sveglia", r.poi, "fuori", "s", 1, r.visto)

\* Chiama, Rilascia.
PassoChiama(t) ==
    LET q == th'[t] IN
    /\ mem' = mem /\ tiene' = tiene /\ ferma' = ferma /\ scuoti' = scuoti
    /\ th[t].pc = "fuori" /\ SoloFilo(t)
    /\ q.op = "unl" <=> tiene[t] # "no"
    /\ \/ q.op \in Rw /\ q.m = "rm" /\ q.c = "rc" /\ q.pc = "prendi" /\ q.poi = Dentro(q.op)
       \/ q.op \in Monitor /\ q.m = "m" /\ q.c = "c" /\ q.pc = "prendi" /\ q.poi = Dentro(q.op)
       \/ q.op = "lascia" /\ q.m = "m" /\ q.c = "c" /\ q.pc = "sem lascia"
       \/ q.op \in {"attende", "attende_ms"} /\ q.m = "m" /\ q.c = "c" /\ q.pc = "sem prova"

Effetto(t) ==
    \/ PassoSonno(t) \/ PassoFuori(t) \/ PassoSveglia(t) \/ PassoMutex(t) \/ PassoCond(t)
    \/ PassoRw(t) \/ PassoMonitor(t) \/ PassoSem(t) \/ PassoChiama(t)

-----------------------------------------------------------------------------
(* Every step of the model is one of these.                                *)

\* A thread gets other registers.
LEMMA Cambia ==
    ASSUME th \in [Fili -> Registri], NEW t \in Fili, NEW r \in Registri, th' = [th EXCEPT ![t] = r]
    PROVE  th' \in [Fili -> Registri] /\ th'[t] = r /\ SoloFilo(t)
  BY DEF SoloFilo

\* It goes to another step.
LEMMA CambiaPc ==
    ASSUME th \in [Fili -> Registri], NEW t \in Fili, NEW p \in Passi, Va(t, p)
    PROVE  th' \in [Fili -> Registri] /\ Resta(t, p)
  <1>1. PICK r \in Registri : r = th[t]
    OBVIOUS
  <1>2. [r EXCEPT !.pc = p] \in Registri
    BY DEF Registri
  <1>3. th' = [th EXCEPT ![t] = [r EXCEPT !.pc = p]]
    BY <1>1 DEF Va
  <1>4. th' \in [Fili -> Registri] /\ th'[t] = [r EXCEPT !.pc = p] /\ SoloFilo(t)
    BY <1>2, <1>3, Cambia
  <1> QED  BY <1>1, <1>4 DEF Resta, Muta, Registri

\* It calls attesa_dormi.
LEMMA CambiaDormi ==
    ASSUME th \in [Fili -> Registri], NEW t \in Fili, NEW w \in Parole, NEW n \in Nat, NEW p \in Passi,
           th' = [th EXCEPT ![t] = Dormi(t, w, n, p)]
    PROVE  th' \in [Fili -> Registri] /\ Muta(t, "dormi", th[t].poi, p, w, n, th[t].visto)
  <1>1. PICK r \in Registri : r = th[t]
    OBVIOUS
  <1>0. "dormi" \in Passi
    BY DEF Passi
  <1>2. [r EXCEPT !.pc = "dormi", !.dove = w, !.atteso = n, !.dopo = p] \in Registri
    BY <1>0 DEF Registri
  <1>3. th' = [th EXCEPT ![t] = [r EXCEPT !.pc = "dormi", !.dove = w, !.atteso = n, !.dopo = p]]
    BY <1>1 DEF Dormi
  <1>4. /\ th' \in [Fili -> Registri] /\ SoloFilo(t)
        /\ th'[t] = [r EXCEPT !.pc = "dormi", !.dove = w, !.atteso = n, !.dopo = p]
    BY <1>2, <1>3, Cambia
  <1> QED  BY <1>1, <1>4 DEF Muta, Registri

\* It calls attesa_sveglia.
LEMMA CambiaSveglia ==
    ASSUME th \in [Fili -> Registri], NEW t \in Fili, NEW w \in Parole, NEW n \in Nat, NEW p \in Passi,
           th' = [th EXCEPT ![t] = Sveglia(t, w, n, p)]
    PROVE  th' \in [Fili -> Registri] /\ Muta(t, "sveglia", th[t].poi, p, w, n, th[t].visto)
  <1>1. PICK r \in Registri : r = th[t]
    OBVIOUS
  <1>0. "sveglia" \in Passi
    BY DEF Passi
  <1>2. [r EXCEPT !.pc = "sveglia", !.dove = w, !.atteso = n, !.dopo = p] \in Registri
    BY <1>0 DEF Registri
  <1>3. th' = [th EXCEPT ![t] = [r EXCEPT !.pc = "sveglia", !.dove = w, !.atteso = n, !.dopo = p]]
    BY <1>1 DEF Sveglia
  <1>4. /\ th' \in [Fili -> Registri] /\ SoloFilo(t)
        /\ th'[t] = [r EXCEPT !.pc = "sveglia", !.dove = w, !.atteso = n, !.dopo = p]
    BY <1>2, <1>3, Cambia
  <1> QED  BY <1>1, <1>4 DEF Muta, Registri

\* It leaves the lock and its call.
LEMMA CambiaLascia ==
    ASSUME th \in [Fili -> Registri], NEW t \in Fili, th' = [th EXCEPT ![t] = Lascia(t)]
    PROVE  th' \in [Fili -> Registri] /\ Esce(t)
  <1>1. PICK r \in Registri : r = th[t]
    OBVIOUS
  <1>0. "lascia" \in Passi /\ "fuori" \in Passi
    BY DEF Passi
  <1>2. [r EXCEPT !.pc = "lascia", !.poi = "fuori"] \in Registri
    BY <1>0 DEF Registri
  <1>3. th' = [th EXCEPT ![t] = [r EXCEPT !.pc = "lascia", !.poi = "fuori"]]
    BY <1>1 DEF Lascia
  <1>4. /\ th' \in [Fili -> Registri] /\ SoloFilo(t)
        /\ th'[t] = [r EXCEPT !.pc = "lascia", !.poi = "fuori"]
    BY <1>2, <1>3, Cambia
  <1> QED  BY <1>1, <1>4 DEF Esce, Muta, Registri

\* The test of a while, and what it decides.
LEMMA CambiaDecide ==
    ASSUME th \in [Fili -> Registri], NEW t \in Fili, NEW chiuso \in BOOLEAN, NEW p \in Passi,
           Decide(t, chiuso, p)
    PROVE  /\ th' \in [Fili -> Registri]
           /\ \/ ~chiuso /\ Resta(t, p)
              \/ chiuso /\ th[t].op \in {"tryrd", "trywr"} /\ Esce(t)
              \/ chiuso /\ th[t].op \notin {"tryrd", "trywr"} /\ Resta(t, "aspetta")
  <1>1. CASE ~chiuso
    <2>1. Va(t, p)
      BY <1>1 DEF Decide, Va
    <2> QED  BY <1>1, <2>1, CambiaPc
  <1>2. CASE chiuso /\ th[t].op \in {"tryrd", "trywr"}
    <2>1. th' = [th EXCEPT ![t] = Lascia(t)]
      BY <1>2 DEF Decide
    <2> QED  BY <1>2, <2>1, CambiaLascia
  <1>3. CASE chiuso /\ th[t].op \notin {"tryrd", "trywr"}
    <2>1. Va(t, "aspetta") /\ "aspetta" \in Passi
      BY <1>3 DEF Decide, Va, Passi
    <2> QED  BY <1>3, <2>1, CambiaPc
  <1> QED  BY <1>1, <1>2, <1>3

\* A word is written.
LEMMA CambiaParola ==
    ASSUME mem \in [Parole -> Int], NEW w \in Parole, NEW v \in Int, Scrivi(w, v)
    PROVE  mem' \in [Parole -> Int] /\ Parola(w, v)
  BY DEF Scrivi, Parola

\* Who is woken is a thread, and nothing else of it changes.
LEMMA SvegliaEffetto ==
    ASSUME th \in [Fili -> Registri], NEW t \in Fili, sys_attesa_sveglia(t)
    PROVE  th' \in [Fili -> Registri] /\ PassoSveglia(t)
  <1> DEFINE d == Dormienti(th[t].dove)
  <1>1. PICK W \in SUBSET d :
          /\ IF th[t].atteso = 0 THEN W = d ELSE Cardinality(W) = (IF d = {} THEN 0 ELSE 1)
          /\ th' = [Desti(W, th) EXCEPT ![t].pc = th[t].dopo]
    BY DEF sys_attesa_sveglia
  <1>2. th[t].pc = "sveglia" /\ mem' = mem /\ tiene' = tiene /\ ferma' = ferma /\ scuoti' = scuoti
    BY DEF sys_attesa_sveglia
  <1>3. t \notin W /\ W \subseteq Fili
    BY <1>2 DEF Dormienti
  <1>4. \A u \in Fili : /\ [th[u] EXCEPT !.pc = "sveglio"] \in Registri
                        /\ [th[t] EXCEPT !.pc = th[t].dopo] \in Registri
    <2>1. "sveglio" \in Passi
      BY DEF Passi
    <2> QED  BY <2>1 DEF Registri
  <1>5. \A u \in Fili : th'[u] = IF u = t THEN [th[t] EXCEPT !.pc = th[t].dopo]
                                 ELSE IF u \in W THEN [th[u] EXCEPT !.pc = "sveglio"] ELSE th[u]
    BY <1>1, <1>3 DEF Desti
  <1>6. th' \in [Fili -> Registri]
    <2>1. th' = [u \in Fili |-> th'[u]]
      BY <1>1 DEF Desti
    <2> QED  BY <1>4, <1>5, <2>1
  <1>7. ASSUME NEW u \in Fili
        PROVE  /\ StessiRegistri(u)
               /\ u = t => th'[u].pc = th[u].dopo
               /\ u # t /\ u \in W => th'[u].pc = "sveglio"
               /\ u # t /\ u \notin W => th'[u].pc = th[u].pc
    <2>1. PICK r \in Registri : r = th[u]
      OBVIOUS
    <2>2. th'[u] = IF u = t THEN [r EXCEPT !.pc = r.dopo]
                   ELSE IF u \in W THEN [r EXCEPT !.pc = "sveglio"] ELSE r
      BY <1>5, <2>1
    <2> QED  BY <2>1, <2>2 DEF Registri, StessiRegistri
  <1>8. th[t].atteso = 0 => W = d
    BY <1>1
  <1>9. d # {} => W # {}
    <2>1. W = {} => Cardinality(W) = 0
      BY FS_EmptySet
    <2> QED  BY <1>1, <2>1
  <1>10. th'[t].pc = th[t].dopo
    BY <1>7
  <1>11. \A u \in W : u \in Fili /\ u # t /\ th'[u].pc = "sveglio"
    BY <1>3, <1>7
  <1>12. \A u \in Fili : /\ StessiRegistri(u)
                         /\ u # t => \/ th'[u].pc = th[u].pc
                                     \/ u \in d /\ th'[u].pc = "sveglio"
    BY <1>1, <1>7
  <1>13. th[t].atteso = 0 => \A u \in d : th'[u].pc = "sveglio"
    BY <1>8, <1>11
  <1>14. d # {} => \E u \in d : th'[u].pc = "sveglio"
    BY <1>1, <1>9, <1>11
  <1> QED  BY <1>2, <1>6, <1>10, <1>12, <1>13, <1>14 DEF PassoSveglia

\* The steps of the kernel.
LEMMA EffettoNucleo ==
    ASSUME TypeOK, NEW t \in Fili,
           \/ sys_attesa_dormi(t) \/ Sveglio(t) \/ Tempo(t) \/ Scade(t) \/ Segnale(t)
           \/ proc_filo_ferma(t)
    PROVE  TypeOK' /\ (PassoSonno(t) \/ PassoFuori(t))
  <1>t. th \in [Fili -> Registri]
    BY DEF TypeOK
  <1>d. th[t].dopo \in Passi /\ {"dorme", "sveglio"} \subseteq Passi
    BY <1>t DEF Registri, Passi
  <1>1. CASE sys_attesa_dormi(t)
    <2>1. CASE mem[th[t].dove] # th[t].atteso
      <3>1. Va(t, th[t].dopo) /\ UNCHANGED <<mem, ferma, scuoti, tiene, fa>> /\ th[t].pc = "dormi"
        BY <1>1, <2>1 DEF sys_attesa_dormi
      <3>2. th' \in [Fili -> Registri] /\ Resta(t, th[t].dopo)
        BY <1>t, <1>d, <3>1, CambiaPc
      <3> QED  BY <2>1, <3>1, <3>2 DEF TypeOK, Memoria, PassoSonno
    <2>2. CASE mem[th[t].dove] = th[t].atteso /\ t \in scuoti
      <3>1. /\ Va(t, th[t].dopo) /\ UNCHANGED <<mem, ferma, tiene, fa>> /\ scuoti' = scuoti \ {t}
            /\ th[t].pc = "dormi"
        BY <1>1, <2>2 DEF sys_attesa_dormi
      <3>2. th' \in [Fili -> Registri] /\ Resta(t, th[t].dopo)
        BY <1>t, <1>d, <3>1, CambiaPc
      <3> QED  BY <2>2, <3>1, <3>2 DEF TypeOK, Memoria, PassoSonno
    <2>3. CASE mem[th[t].dove] = th[t].atteso /\ t \notin scuoti
      <3>1. Va(t, "dorme") /\ UNCHANGED <<mem, ferma, scuoti, tiene, fa>> /\ th[t].pc = "dormi"
        BY <1>1, <2>3 DEF sys_attesa_dormi
      <3>2. th' \in [Fili -> Registri] /\ Resta(t, "dorme")
        BY <1>t, <1>d, <3>1, CambiaPc
      <3> QED  BY <2>3, <3>1, <3>2 DEF TypeOK, Memoria, PassoSonno
    <2> QED  BY <2>1, <2>2, <2>3
  <1>2. CASE Sveglio(t)
    <2>1. Va(t, th[t].dopo) /\ UNCHANGED <<mem, ferma, scuoti, tiene, fa>> /\ th[t].pc = "sveglio"
      BY <1>2 DEF Sveglio
    <2>2. th' \in [Fili -> Registri] /\ Resta(t, th[t].dopo)
      BY <1>t, <1>d, <2>1, CambiaPc
    <2> QED  BY <2>1, <2>2 DEF TypeOK, Memoria, PassoSonno
  <1>3. CASE Scade(t) \/ Segnale(t)
    <2>1. Va(t, "sveglio") /\ UNCHANGED <<mem, ferma, scuoti, tiene, fa>> /\ th[t].pc = "dorme"
      BY <1>3 DEF Scade, Segnale
    <2>2. th' \in [Fili -> Registri] /\ Resta(t, "sveglio")
      BY <1>t, <1>d, <2>1, CambiaPc
    <2> QED  BY <2>1, <2>2 DEF TypeOK, Memoria, PassoSonno
  <1>4. CASE Tempo(t)
    <2>1. PICK r \in Registri : r = th[t]
      BY <1>t
    <2>2. th' = [th EXCEPT ![t] = [r EXCEPT !.ms = "scaduto"]]
      BY <1>4, <2>1 DEF Tempo
    <2>3. [r EXCEPT !.ms = "scaduto"] \in Registri
      BY DEF Registri
    <2>4. th' \in [Fili -> Registri] /\ th'[t] = [r EXCEPT !.ms = "scaduto"] /\ SoloFilo(t)
      BY <1>t, <2>2, <2>3, Cambia
    <2>5. Resta(t, th[t].pc)
      BY <2>1, <2>4 DEF Resta, Muta, Registri
    <2>6. UNCHANGED <<mem, ferma, scuoti, tiene, fa>>
      BY <1>4 DEF Tempo
    <2> QED  BY <2>4, <2>5, <2>6 DEF TypeOK, Memoria, PassoFuori
  <1>5. CASE proc_filo_ferma(t)
    <2>1. ferma' = ferma \cup {t} /\ UNCHANGED <<mem, tiene, fa>>
      BY <1>5 DEF proc_filo_ferma
    <2>2. CASE th[t].pc = "dorme"
      <3>1. Va(t, "sveglio") /\ scuoti' = scuoti
        BY <1>5, <2>2 DEF proc_filo_ferma
      <3>2. th' \in [Fili -> Registri] /\ Resta(t, "sveglio")
        BY <1>t, <1>d, <3>1, CambiaPc
      <3> QED  BY <2>1, <2>2, <3>1, <3>2 DEF TypeOK, Memoria, PassoFuori
    <2>3. CASE th[t].pc # "dorme"
      <3>1. th' = th /\ scuoti' = scuoti \cup {t}
        BY <1>5, <2>3 DEF proc_filo_ferma
      <3>2. Resta(t, th[t].pc)
        BY <3>1 DEF Resta, Muta, SoloFilo
      <3> QED  BY <1>t, <2>1, <2>3, <3>1, <3>2 DEF TypeOK, Memoria, PassoFuori
    <2> QED  BY <2>2, <2>3
  <1> QED  BY <1>1, <1>2, <1>3, <1>4, <1>5

\* Which words there are.
LEMMA ParoleNote ==
    /\ {"m", "c", "roba", "rm", "rc", "lettori", "scrittore", "in_attesa", "s"} \subseteq Parole
    /\ \A t \in Fili : TypeOK => th[t].m \in Parole /\ th[t].c \in Parole
  BY DEF Parole, TypeOK, Registri

\* The steps of the lock of three states.
LEMMA EffettoMutex ==
    ASSUME Inv1, NEW t \in Fili, mutex_prendi(t) \/ Riprendi(t) \/ mutex_lascia(t)
    PROVE  TypeOK' /\ PassoMutex(t)
  <1> DEFINE w == th[t].m
  <1>t. TypeOK /\ Memoria /\ th \in [Fili -> Registri] /\ mem \in [Parole -> Int]
    BY DEF Inv1, TypeOK, Memoria
  <1>d. th[t].poi \in Passi /\ {"riprendi"} \subseteq Passi /\ w \in {"m", "rm"} /\ w \in Parole
    BY <1>t, ParoleNote DEF Registri, Passi
  <1>v. mem[w] \in {0, 1, 2}
    BY <1>t, <1>d DEF Memoria
  <1>u. UNCHANGED <<ferma, scuoti, tiene, fa>>
    BY DEF mutex_prendi, Riprendi, mutex_lascia
  <1>m. ASSUME NEW v \in {0, 1, 2}, Scrivi(w, v)  PROVE Memoria' /\ Parola(w, v)
    <2>1. mem' \in [Parole -> Int] /\ Parola(w, v)
      BY <1>t, <1>d, <1>m, CambiaParola
    <2> QED  BY <1>t, <1>d, <2>1, ParoleNote DEF Memoria, Parola
  <1>n. mem' = mem => Memoria'
    BY <1>t DEF Memoria
  <1>1. CASE mutex_prendi(t) /\ mem[w] = 0
    <2>1. Scrivi(w, 1) /\ Va(t, th[t].poi) /\ th[t].pc = "prendi"
      BY <1>1 DEF mutex_prendi
    <2>2. th' \in [Fili -> Registri] /\ Resta(t, th[t].poi)
      BY <1>t, <1>d, <2>1, CambiaPc
    <2> QED  BY <1>t, <1>u, <1>m, <1>1, <2>1, <2>2 DEF TypeOK, PassoMutex
  <1>2. CASE mutex_prendi(t) /\ mem[w] = 2
    <2>1. th' = [th EXCEPT ![t] = Dormi(t, w, 2, "riprendi")] /\ mem' = mem /\ th[t].pc = "prendi"
      BY <1>2 DEF mutex_prendi
    <2>2. th' \in [Fili -> Registri] /\ Muta(t, "dormi", th[t].poi, "riprendi", w, 2, th[t].visto)
      BY <1>t, <1>d, <2>1, CambiaDormi
    <2> QED  BY <1>t, <1>u, <1>n, <1>2, <2>1, <2>2 DEF TypeOK, PassoMutex
  <1>3. CASE mutex_prendi(t) /\ mem[w] = 1
    <2>1. Va(t, "riprendi") /\ mem' = mem /\ th[t].pc = "prendi"
      BY <1>3 DEF mutex_prendi
    <2>2. th' \in [Fili -> Registri] /\ Resta(t, "riprendi")
      BY <1>t, <1>d, <2>1, CambiaPc
    <2> QED  BY <1>t, <1>u, <1>n, <1>3, <2>1, <2>2 DEF TypeOK, PassoMutex
  <1>4. CASE Riprendi(t) /\ mem[w] = 0
    <2>1. Scrivi(w, 2) /\ Va(t, th[t].poi) /\ th[t].pc = "riprendi"
      BY <1>4 DEF Riprendi, Va
    <2>2. th' \in [Fili -> Registri] /\ Resta(t, th[t].poi)
      BY <1>t, <1>d, <2>1, CambiaPc
    <2> QED  BY <1>t, <1>u, <1>m, <1>4, <2>1, <2>2 DEF TypeOK, PassoMutex
  <1>5. CASE Riprendi(t) /\ mem[w] # 0
    <2>1. Scrivi(w, 2) /\ th' = [th EXCEPT ![t] = Dormi(t, w, 2, "riprendi")] /\ th[t].pc = "riprendi"
      BY <1>5 DEF Riprendi
    <2>2. th' \in [Fili -> Registri] /\ Muta(t, "dormi", th[t].poi, "riprendi", w, 2, th[t].visto)
      BY <1>t, <1>d, <2>1, CambiaDormi
    <2> QED  BY <1>t, <1>u, <1>m, <1>5, <2>1, <2>2 DEF TypeOK, PassoMutex
  <1>6. CASE mutex_lascia(t) /\ mem[w] = 2
    <2>1. Scrivi(w, 0) /\ th' = [th EXCEPT ![t] = Sveglia(t, w, 1, th[t].poi)] /\ th[t].pc = "lascia"
      BY <1>6 DEF mutex_lascia
    <2>2. th' \in [Fili -> Registri] /\ Muta(t, "sveglia", th[t].poi, th[t].poi, w, 1, th[t].visto)
      BY <1>t, <1>d, <2>1, CambiaSveglia
    <2> QED  BY <1>t, <1>u, <1>m, <1>6, <2>1, <2>2 DEF TypeOK, PassoMutex
  <1>7. CASE mutex_lascia(t) /\ mem[w] # 2
    <2>1. Scrivi(w, 0) /\ Va(t, th[t].poi) /\ th[t].pc = "lascia"
      BY <1>7 DEF mutex_lascia, Va
    <2>2. th' \in [Fili -> Registri] /\ Resta(t, th[t].poi)
      BY <1>t, <1>d, <2>1, CambiaPc
    <2> QED  BY <1>t, <1>u, <1>m, <1>7, <2>1, <2>2 DEF TypeOK, PassoMutex
  <1> QED  BY <1>v, <1>1, <1>2, <1>3, <1>4, <1>5, <1>6, <1>7

\* The steps of a condition.
LEMMA EffettoCond ==
    ASSUME Inv1, NEW t \in Fili,
           \/ condizione_aspetta(t) \/ AspettaQui(t) \/ Aspettato(t) \/ annulla_se_chiesto(t)
           \/ condizione_segnala(t)
    PROVE  TypeOK' /\ PassoCond(t)
  <1> DEFINE w == th[t].c
  <1>t. TypeOK /\ Memoria /\ th \in [Fili -> Registri] /\ mem \in [Parole -> Int]
    BY DEF Inv1, TypeOK, Memoria
  <1>p. PICK r \in Registri : r = th[t]
    BY <1>t
  <1>d. w \in {"c", "rc"} /\ w \in Parole /\ mem[w] \in Nat /\ r.visto \in Nat
    BY <1>t, <1>p, ParoleNote DEF Registri, Memoria
  <1>q. {"lascia", "aspetta qui", "aspettato", "prendi", "annulla", "finito", "rd prova", "wr prova",
         "co prova", "fuori", "sveglia"} \subseteq Passi
    BY DEF Passi
  <1>u. UNCHANGED <<ferma, scuoti, tiene, fa>>
    BY DEF condizione_aspetta, AspettaQui, Aspettato, annulla_se_chiesto, condizione_segnala
  <1>n. mem' = mem => Memoria'
    BY <1>t DEF Memoria
  <1>1. CASE condizione_aspetta(t)
    <2>1. /\ th' = [th EXCEPT ![t] = [r EXCEPT !.visto = mem[w], !.pc = "lascia", !.poi = "aspetta qui"]]
          /\ mem' = mem /\ th[t].pc = "aspetta"
      BY <1>1, <1>p, <1>t DEF condizione_aspetta
    <2>2. [r EXCEPT !.visto = mem[w], !.pc = "lascia", !.poi = "aspetta qui"] \in Registri
      BY <1>d, <1>q DEF Registri
    <2>3. /\ th' \in [Fili -> Registri] /\ SoloFilo(t)
          /\ th'[t] = [r EXCEPT !.visto = mem[w], !.pc = "lascia", !.poi = "aspetta qui"]
      BY <1>t, <2>1, <2>2, Cambia
    <2>4. Muta(t, "lascia", "aspetta qui", r.dopo, r.dove, r.atteso, mem[w])
      BY <1>p, <2>3 DEF Muta, Registri
    <2> QED  BY <1>t, <1>p, <1>u, <1>n, <2>1, <2>3, <2>4 DEF TypeOK, PassoCond
  <1>2. CASE AspettaQui(t)
    <2>1. /\ th' = [th EXCEPT ![t] = Dormi(t, w, th[t].visto, "aspettato")]
          /\ mem' = mem /\ th[t].pc = "aspetta qui"
      BY <1>2 DEF AspettaQui
    <2>2. th' \in [Fili -> Registri] /\ Muta(t, "dormi", th[t].poi, "aspettato", w, th[t].visto, th[t].visto)
      BY <1>t, <1>p, <1>d, <1>q, <2>1, CambiaDormi
    <2> QED  BY <1>t, <1>u, <1>n, <2>1, <2>2 DEF TypeOK, PassoCond
  <1>3. CASE Aspettato(t)
    <2>1. /\ th' = [th EXCEPT ![t] = [r EXCEPT !.pc = "prendi", !.poi = "annulla", !.visto = 0]]
          /\ mem' = mem /\ th[t].pc = "aspettato"
      BY <1>3, <1>p DEF Aspettato, Prendi
    <2>2. [r EXCEPT !.pc = "prendi", !.poi = "annulla", !.visto = 0] \in Registri
      BY <1>q DEF Registri
    <2>3. /\ th' \in [Fili -> Registri] /\ SoloFilo(t)
          /\ th'[t] = [r EXCEPT !.pc = "prendi", !.poi = "annulla", !.visto = 0]
      BY <1>t, <2>1, <2>2, Cambia
    <2>4. Muta(t, "prendi", "annulla", r.dopo, r.dove, r.atteso, 0)
      BY <1>p, <2>3 DEF Muta, Registri
    <2> QED  BY <1>t, <1>p, <1>u, <1>n, <2>1, <2>3, <2>4 DEF TypeOK, PassoCond
  <1>4. CASE annulla_se_chiesto(t)
    <2>1. mem' = mem /\ th[t].pc = "annulla"
      BY <1>4 DEF annulla_se_chiesto
    <2>2. CASE t \in ferma /\ t \in Annullabili /\ th[t].op \in {"rd", "wr"}
      <3>1. Va(t, "finito")
        BY <1>4, <2>2 DEF annulla_se_chiesto
      <3>2. th' \in [Fili -> Registri] /\ Resta(t, "finito")
        BY <1>t, <1>q, <3>1, CambiaPc
      <3> QED  BY <1>t, <1>u, <1>n, <2>1, <2>2, <3>2 DEF TypeOK, PassoCond
    <2>3. CASE ~(t \in ferma /\ t \in Annullabili /\ th[t].op \in {"rd", "wr"})
      <3>1. Va(t, Prova(th[t].op))
        BY <1>4, <2>3 DEF annulla_se_chiesto
      <3>2. Prova(th[t].op) \in Passi
        BY <1>q DEF Prova
      <3>3. th' \in [Fili -> Registri] /\ Resta(t, Prova(th[t].op))
        BY <1>t, <3>1, <3>2, CambiaPc
      <3> QED  BY <1>t, <1>u, <1>n, <2>1, <3>3 DEF TypeOK, PassoCond
    <2> QED  BY <2>2, <2>3
  <1>5. CASE condizione_segnala(t)
    <2> DEFINE k == IF r.op = "produci" THEN 1 ELSE 0
    <2>1. /\ th' = [th EXCEPT ![t] = [r EXCEPT !.pc = "sveglia", !.dove = w, !.atteso = k,
                                               !.dopo = "lascia", !.poi = "fuori"]]
          /\ Scrivi(w, mem[w] + 1) /\ th[t].pc = "segnala"
      BY <1>5, <1>p DEF condizione_segnala, Sveglia
    <2>k. k \in Nat
      OBVIOUS
    <2> HIDE DEF k
    <2>2. [r EXCEPT !.pc = "sveglia", !.dove = w, !.atteso = k, !.dopo = "lascia", !.poi = "fuori"] \in Registri
      BY <1>q, <1>d, <2>k DEF Registri
    <2>3. /\ th' \in [Fili -> Registri] /\ SoloFilo(t)
          /\ th'[t] = [r EXCEPT !.pc = "sveglia", !.dove = w, !.atteso = k, !.dopo = "lascia", !.poi = "fuori"]
      BY <1>t, <2>1, <2>2, Cambia
    <2>4. Muta(t, "sveglia", "fuori", "lascia", w, k, r.visto)
      BY <1>p, <2>3 DEF Muta, Registri
    <2>5. mem' \in [Parole -> Int] /\ Parola(w, mem[w] + 1) /\ mem[w] + 1 \in Nat
      BY <1>t, <1>d, <2>1, CambiaParola
    <2>6. Memoria'
      BY <1>t, <1>d, <2>5, ParoleNote DEF Memoria, Parola
    <2> QED  BY <1>t, <1>p, <1>u, <2>1, <2>3, <2>4, <2>5, <2>6 DEF TypeOK, PassoCond, k
  <1> QED  BY <1>1, <1>2, <1>3, <1>4, <1>5

\* The steps of the lock of readers and writers.
LEMMA EffettoRw ==
    ASSUME Inv1, NEW t \in Fili,
           \/ RdProva(t) \/ RdEntra(t) \/ WrConta(t) \/ WrProva(t) \/ WrEntra(t)
           \/ pthread_rwlock_unlock(t)
    PROVE  TypeOK' /\ PassoRw(t)
  <1>t. TypeOK /\ Memoria /\ th \in [Fili -> Registri] /\ mem \in [Parole -> Int]
    BY DEF Inv1, TypeOK, Memoria
  <1>q. {"rd entra", "wr entra", "wr prova", "segnala"} \subseteq Passi
    BY DEF Passi
  <1>u. UNCHANGED <<ferma, scuoti, fa>>
    BY DEF RdProva, RdEntra, WrConta, WrProva, WrEntra, pthread_rwlock_unlock
  <1>n. mem' = mem => Memoria'
    BY <1>t DEF Memoria
  <1>i. mem.in_attesa \in Int /\ mem.lettori \in Nat /\ mem.scrittore \in {0, 1}
    BY <1>t, ParoleNote DEF Memoria
  <1>h. \A h \in {"no", "R", "W"} : [tiene EXCEPT ![t] = h] \in [Fili -> {"no", "R", "W"}]
    BY <1>t DEF TypeOK
  <1>1. CASE RdProva(t)
    <2>1. /\ Decide(t, mem.scrittore = 1 \/ mem.in_attesa > 0, "rd entra") /\ th[t].pc = "rd prova"
          /\ mem' = mem /\ tiene' = tiene
      BY <1>1 DEF RdProva
    <2>2. PICK b \in BOOLEAN : b = (mem.scrittore = 1 \/ mem.in_attesa > 0)
      OBVIOUS
    <2>3. Decide(t, b, "rd entra")
      BY <2>1, <2>2
    <2>4. /\ th' \in [Fili -> Registri]
          /\ \/ ~b /\ Resta(t, "rd entra")
             \/ b /\ th[t].op \in {"tryrd", "trywr"} /\ Esce(t)
             \/ b /\ th[t].op \notin {"tryrd", "trywr"} /\ Resta(t, "aspetta")
      BY <1>t, <1>q, <2>3, CambiaDecide
    <2>5. ~b => mem.scrittore # 1
      BY <2>2
    <2>6. TypeOK'
      BY <1>t, <1>u, <1>n, <2>1, <2>4 DEF TypeOK
    <2>7. PassoRw(t)
      BY <1>u, <2>1, <2>4, <2>5 DEF PassoRw
    <2> QED  BY <2>6, <2>7
  <1>2. CASE RdEntra(t)
    <2>1. /\ Scrivi("lettori", mem.lettori + 1) /\ tiene' = [tiene EXCEPT ![t] = "R"]
          /\ th' = [th EXCEPT ![t] = Lascia(t)] /\ th[t].pc = "rd entra"
      BY <1>2 DEF RdEntra
    <2>0. mem.lettori + 1 \in Int /\ "lettori" \in Parole
      BY <1>i, ParoleNote
    <2>2. mem' \in [Parole -> Int] /\ Parola("lettori", mem.lettori + 1)
      BY <1>t, <2>0, <2>1, CambiaParola, Zenon
    <2>3. Memoria'
      BY <1>t, <1>i, <2>2, ParoleNote DEF Memoria, Parola
    <2>4. th' \in [Fili -> Registri] /\ Esce(t)
      BY <1>t, <2>1, CambiaLascia
    <2> QED  BY <1>t, <1>u, <1>h, <2>1, <2>2, <2>3, <2>4 DEF TypeOK, PassoRw
  <1>3. CASE WrConta(t)
    <2>1. /\ Scrivi("in_attesa", mem.in_attesa + 1) /\ tiene' = tiene
          /\ Va(t, "wr prova") /\ th[t].pc = "wr conta"
      BY <1>3 DEF WrConta
    <2>0. mem.in_attesa + 1 \in Int /\ "in_attesa" \in Parole
      BY <1>i, ParoleNote
    <2>2. mem' \in [Parole -> Int] /\ Parola("in_attesa", mem.in_attesa + 1)
      BY <1>t, <2>0, <2>1, CambiaParola, Zenon
    <2>3. Memoria'
      BY <1>t, <2>2, ParoleNote DEF Memoria, Parola
    <2>4. th' \in [Fili -> Registri] /\ Resta(t, "wr prova")
      BY <1>t, <1>q, <2>1, CambiaPc
    <2> QED  BY <1>t, <1>u, <2>1, <2>2, <2>3, <2>4 DEF TypeOK, PassoRw
  <1>4. CASE WrProva(t)
    <2>1. /\ Decide(t, mem.scrittore = 1 \/ mem.lettori > 0, "wr entra") /\ th[t].pc = "wr prova"
          /\ mem' = mem /\ tiene' = tiene
      BY <1>4 DEF WrProva
    <2>2. PICK b \in BOOLEAN : b = (mem.scrittore = 1 \/ mem.lettori > 0)
      OBVIOUS
    <2>3. Decide(t, b, "wr entra")
      BY <2>1, <2>2
    <2>4. /\ th' \in [Fili -> Registri]
          /\ \/ ~b /\ Resta(t, "wr entra")
             \/ b /\ th[t].op \in {"tryrd", "trywr"} /\ Esce(t)
             \/ b /\ th[t].op \notin {"tryrd", "trywr"} /\ Resta(t, "aspetta")
      BY <1>t, <1>q, <2>3, CambiaDecide
    <2>5. ~b => mem.scrittore # 1 /\ ~(mem.lettori > 0)
      BY <2>2
    <2>6. TypeOK'
      BY <1>t, <1>u, <1>n, <2>1, <2>4 DEF TypeOK
    <2>7. PassoRw(t)
      BY <1>u, <2>1, <2>4, <2>5 DEF PassoRw
    <2> QED  BY <2>6, <2>7
  <1>5. CASE WrEntra(t)
    <2> DEFINE k == IF th[t].op = "wr" THEN mem.in_attesa - 1 ELSE mem.in_attesa
    <2>1. /\ mem' = [mem EXCEPT !.scrittore = 1, !.in_attesa = k]
          /\ tiene' = [tiene EXCEPT ![t] = "W"]
          /\ th' = [th EXCEPT ![t] = Lascia(t)] /\ th[t].pc = "wr entra"
      BY <1>5, <1>t, ParoleNote DEF WrEntra
    <2>k. k \in Int
      BY <1>i
    <2> HIDE DEF k
    <2>2. /\ mem' \in [Parole -> Int] /\ mem'.scrittore = 1
          /\ \A x \in Parole : x \notin {"scrittore", "in_attesa"} => mem'[x] = mem[x]
      <3>1. "scrittore" \in Parole /\ "in_attesa" \in Parole
        BY ParoleNote
      <3>2. PICK f \in [Parole -> Int] : f = mem
        BY <1>t
      <3>3. PICK g : g = [f EXCEPT !["scrittore"] = 1]
        OBVIOUS
      <3>4. g \in [Parole -> Int]
        BY <3>1, <3>3
      <3>5. mem' = [g EXCEPT !["in_attesa"] = k]
        BY <2>1, <3>2, <3>3
      <3> QED  BY <2>k, <3>1, <3>2, <3>3, <3>4, <3>5
    <2>3. Memoria'
      BY <1>t, <2>2, ParoleNote DEF Memoria
    <2>4. th' \in [Fili -> Registri] /\ Esce(t)
      BY <1>t, <2>1, CambiaLascia
    <2> QED  BY <1>t, <1>u, <1>h, <2>1, <2>2, <2>3, <2>4 DEF TypeOK, PassoRw
  <1>6. CASE pthread_rwlock_unlock(t)
    <2>1. /\ tiene' = [tiene EXCEPT ![t] = "no"] /\ Va(t, "segnala") /\ th[t].pc = "unl"
      BY <1>6 DEF pthread_rwlock_unlock
    <2>2. th' \in [Fili -> Registri] /\ Resta(t, "segnala")
      BY <1>t, <1>q, <2>1, CambiaPc
    <2>3. CASE mem.scrittore = 1
      <3>1. Scrivi("scrittore", 0)
        BY <1>6, <2>3 DEF pthread_rwlock_unlock, Scrivi
      <3>2. mem' \in [Parole -> Int] /\ Parola("scrittore", 0)
        BY <1>t, <3>1, CambiaParola, ParoleNote
      <3>3. Memoria'
        BY <1>t, <3>2, ParoleNote DEF Memoria, Parola
      <3> QED  BY <1>t, <1>u, <1>h, <2>1, <2>2, <2>3, <3>2, <3>3 DEF TypeOK, PassoRw
    <2>4. CASE mem.scrittore # 1 /\ mem.lettori > 0
      <3>1. Scrivi("lettori", mem.lettori - 1)
        BY <1>6, <1>t, <2>4, ParoleNote DEF pthread_rwlock_unlock, Scrivi
      <3>2. mem' \in [Parole -> Int] /\ Parola("lettori", mem.lettori - 1)
        BY <1>t, <1>i, <3>1, CambiaParola, ParoleNote
      <3>3. Memoria'
        BY <1>t, <1>i, <2>4, <3>2, ParoleNote DEF Memoria, Parola
      <3> QED  BY <1>t, <1>u, <1>h, <2>1, <2>2, <2>4, <3>2, <3>3 DEF TypeOK, PassoRw
    <2>5. CASE mem.scrittore # 1 /\ ~(mem.lettori > 0)
      <3>1. mem' = mem
        BY <1>6, <2>5 DEF pthread_rwlock_unlock
      <3> QED  BY <1>t, <1>u, <1>h, <1>n, <2>1, <2>2, <2>5, <3>1 DEF TypeOK, PassoRw
    <2> QED  BY <2>3, <2>4, <2>5
  <1> QED  BY <1>1, <1>2, <1>3, <1>4, <1>5, <1>6

\* The steps of the monitor.
LEMMA EffettoMonitor ==
    ASSUME Inv1, NEW t \in Fili, CoProva(t) \/ CoEntra(t) \/ Produce(t)
    PROVE  TypeOK' /\ PassoMonitor(t)
  <1>t. TypeOK /\ Memoria /\ th \in [Fili -> Registri] /\ mem \in [Parole -> Int]
    BY DEF Inv1, TypeOK, Memoria
  <1>q. {"co entra", "segnala"} \subseteq Passi
    BY DEF Passi
  <1>u. UNCHANGED <<ferma, scuoti, tiene, fa>>
    BY DEF CoProva, CoEntra, Produce
  <1>i. mem.roba \in Nat
    BY <1>t DEF Memoria
  <1>m. ASSUME NEW v \in Nat, Scrivi("roba", v)  PROVE Memoria' /\ Parola("roba", v)
    <2>1. mem' \in [Parole -> Int] /\ Parola("roba", v)
      BY <1>t, <1>m, CambiaParola, ParoleNote
    <2> QED  BY <1>t, <2>1, ParoleNote DEF Memoria, Parola
  <1>1. CASE CoProva(t)
    <2>1. /\ Decide(t, mem.roba = 0 /\ t \notin ferma, "co entra") /\ th[t].pc = "co prova"
          /\ mem' = mem
      BY <1>1 DEF CoProva
    <2>2. PICK b \in BOOLEAN : b = (mem.roba = 0 /\ t \notin ferma)
      OBVIOUS
    <2>3. Decide(t, b, "co entra")
      BY <2>1, <2>2
    <2>4. th[t].op = "consuma"
      BY <2>1 DEF Inv1, Forma, Posto
    <2>5. /\ th' \in [Fili -> Registri]
          /\ Resta(t, "co entra") \/ (b /\ Resta(t, "aspetta"))
      BY <1>t, <1>q, <2>3, <2>4, CambiaDecide
    <2>6. TypeOK'
      BY <1>t, <1>u, <2>1, <2>5 DEF TypeOK, Memoria
    <2>7. PassoMonitor(t)
      BY <1>u, <2>1, <2>2, <2>5 DEF PassoMonitor
    <2> QED  BY <2>6, <2>7
  <1>2. CASE CoEntra(t)
    <2> DEFINE k == IF mem.roba > 0 THEN mem.roba - 1 ELSE 0
    <2>1. Scrivi("roba", k) /\ th' = [th EXCEPT ![t] = Lascia(t)] /\ th[t].pc = "co entra"
      BY <1>2 DEF CoEntra
    <2>2. k \in Nat
      BY <1>i
    <2>3. Memoria' /\ Parola("roba", k)
      <3> HIDE DEF k
      <3> QED  BY <1>m, <2>1, <2>2
    <2>4. th' \in [Fili -> Registri] /\ Esce(t)
      BY <1>t, <2>1, CambiaLascia
    <2> QED  BY <1>t, <1>u, <2>1, <2>3, <2>4 DEF TypeOK, PassoMonitor
  <1>3. CASE Produce(t)
    <2>1. Scrivi("roba", mem.roba + 1) /\ Va(t, "segnala") /\ th[t].pc = "produce"
      BY <1>3 DEF Produce
    <2>2. Memoria' /\ Parola("roba", mem.roba + 1)
      BY <1>m, <1>i, <2>1
    <2>3. th' \in [Fili -> Registri] /\ Resta(t, "segnala")
      BY <1>t, <1>q, <2>1, CambiaPc
    <2> QED  BY <1>t, <1>u, <2>1, <2>2, <2>3 DEF TypeOK, PassoMonitor
  <1> QED  BY <1>1, <1>2, <1>3

\* The steps of the semaphore.
LEMMA EffettoSem ==
    ASSUME Inv1, NEW t \in Fili, semaforo_prova(t) \/ SemScambia(t) \/ semaforo_lascia(t)
    PROVE  TypeOK' /\ PassoSem(t)
  <1>t. TypeOK /\ Memoria /\ th \in [Fili -> Registri] /\ mem \in [Parole -> Int]
    BY DEF Inv1, TypeOK, Memoria
  <1>p. PICK r \in Registri : r = th[t]
    BY <1>t
  <1>q. {"sem prova", "sem scambia", "fuori"} \subseteq Passi /\ "s" \in Parole
    BY DEF Passi, Parole
  <1>u. UNCHANGED <<ferma, scuoti, tiene, fa>>
    BY DEF semaforo_prova, SemScambia, semaforo_lascia
  <1>i. mem.s \in Nat
    BY <1>t DEF Memoria
  <1>n. mem' = mem => Memoria'
    BY <1>t DEF Memoria
  <1>m. ASSUME NEW v \in Nat, Scrivi("s", v)  PROVE Memoria' /\ Parola("s", v)
    <2>1. mem' \in [Parole -> Int] /\ Parola("s", v)
      BY <1>t, <1>m, CambiaParola, ParoleNote
    <2> QED  BY <1>t, <2>1, ParoleNote DEF Memoria, Parola
  <1>v. ASSUME NEW p \in Passi, NEW n \in Nat, th' = [th EXCEPT ![t].visto = n, ![t].pc = p]
        PROVE  th' \in [Fili -> Registri] /\ Muta(t, p, r.poi, r.dopo, r.dove, r.atteso, n)
    <2>1. th' = [th EXCEPT ![t] = [r EXCEPT !.visto = n, !.pc = p]]
      BY <1>t, <1>p, <1>v
    <2>2. [r EXCEPT !.visto = n, !.pc = p] \in Registri
      BY DEF Registri
    <2>3. th' \in [Fili -> Registri] /\ th'[t] = [r EXCEPT !.visto = n, !.pc = p] /\ SoloFilo(t)
      BY <1>t, <2>1, <2>2, Cambia
    <2> QED  BY <1>p, <2>3 DEF Muta, Registri
  <1>1. CASE semaforo_prova(t)
    <2>0. mem' = mem /\ th[t].pc = "sem prova"
      BY <1>1 DEF semaforo_prova
    <2>1. CASE mem.s > 0 /\ th' = [th EXCEPT ![t].visto = mem.s, ![t].pc = "sem scambia"]
      <3>1. th' \in [Fili -> Registri] /\ Muta(t, "sem scambia", r.poi, r.dopo, r.dove, r.atteso, mem.s)
        BY <1>v, <1>q, <1>i, <2>1
      <3> QED  BY <1>t, <1>p, <1>u, <1>n, <2>0, <2>1, <3>1 DEF TypeOK, PassoSem
    <2>2. CASE mem.s = 0 /\ th' = [th EXCEPT ![t] = Dormi(t, "s", 0, "sem prova")]
      <3>1. th' \in [Fili -> Registri] /\ Muta(t, "dormi", th[t].poi, "sem prova", "s", 0, th[t].visto)
        <4>1. 0 \in Nat
          OBVIOUS
        <4> QED  BY <1>t, <1>q, <2>2, <4>1, CambiaDormi, Zenon
      <3> QED  BY <1>t, <1>u, <1>n, <2>0, <2>2, <3>1 DEF TypeOK, PassoSem
    <2>3. CASE mem.s = 0 /\ Va(t, "fuori")
      <3>1. th' \in [Fili -> Registri] /\ Resta(t, "fuori")
        BY <1>t, <1>q, <2>3, CambiaPc
      <3> QED  BY <1>t, <1>u, <1>n, <2>0, <2>3, <3>1 DEF TypeOK, PassoSem
    <2> QED  BY <1>1, <2>1, <2>2, <2>3 DEF semaforo_prova
  <1>2. CASE SemScambia(t)
    <2>0. th[t].pc = "sem scambia" /\ r.visto > 0
      BY <1>2, <1>p DEF SemScambia, Inv1, Forma, Posto
    <2>1. CASE mem.s = th[t].visto
      <3>1. Scrivi("s", mem.s - 1) /\ th' = [th EXCEPT ![t].visto = 0, ![t].pc = "fuori"]
        BY <1>2, <1>t, <2>1 DEF SemScambia
      <3>2. mem.s - 1 \in Nat
        <4>1. r.visto \in Nat
          BY DEF Registri
        <4>2. mem.s = r.visto
          BY <1>p, <2>1
        <4>3. mem.s \in Nat /\ mem.s > 0
          BY <1>i, <2>0, <4>1, <4>2
        <4> QED  BY <4>3
      <3>3. Memoria' /\ Parola("s", mem.s - 1)
        BY <1>m, <3>1, <3>2
      <3>4. th' \in [Fili -> Registri] /\ Muta(t, "fuori", r.poi, r.dopo, r.dove, r.atteso, 0)
        BY <1>v, <1>q, <3>1
      <3> QED  BY <1>t, <1>p, <1>u, <2>0, <2>1, <3>3, <3>4 DEF TypeOK, PassoSem
    <2>2. CASE mem.s # th[t].visto
      <3>1. mem' = mem /\ th' = [th EXCEPT ![t].visto = 0, ![t].pc = "sem prova"]
        BY <1>2, <1>t, <2>2 DEF SemScambia
      <3>2. th' \in [Fili -> Registri] /\ Muta(t, "sem prova", r.poi, r.dopo, r.dove, r.atteso, 0)
        BY <1>v, <1>q, <3>1
      <3> QED  BY <1>t, <1>p, <1>u, <1>n, <2>0, <3>1, <3>2 DEF TypeOK, PassoSem
    <2> QED  BY <2>1, <2>2
  <1>3. CASE semaforo_lascia(t)
    <2>1. /\ Scrivi("s", mem.s + 1) /\ th' = [th EXCEPT ![t] = Sveglia(t, "s", 1, "fuori")]
          /\ th[t].pc = "sem lascia"
      BY <1>3 DEF semaforo_lascia
    <2>0. mem.s + 1 \in Nat
      BY <1>i
    <2>2. Memoria' /\ Parola("s", mem.s + 1)
      BY <1>m, <2>0, <2>1, Zenon
    <2>3. th' \in [Fili -> Registri] /\ Muta(t, "sveglia", th[t].poi, "fuori", "s", 1, th[t].visto)
      BY <1>t, <1>q, <2>1, CambiaSveglia
    <2> QED  BY <1>t, <1>u, <2>1, <2>2, <2>3 DEF TypeOK, PassoSem
  <1> QED  BY <1>1, <1>2, <1>3

\* A call begins.
LEMMA EffettoChiama ==
    ASSUME Inv1, NEW t \in Fili, Chiama(t) \/ Rilascia(t)
    PROVE  TypeOK' /\ PassoChiama(t)
  <1>t. TypeOK /\ Memoria /\ th \in [Fili -> Registri] /\ tiene \in [Fili -> {"no", "R", "W"}]
    BY DEF Inv1, TypeOK
  <1>u. UNCHANGED <<mem, ferma, scuoti, tiene, fa>> /\ th[t].pc = "fuori"
    BY DEF Chiama, Rilascia
  <1>1. PICK op \in Chiamate \cup {"unl"} : Parte(t, op) /\ (op = "unl" <=> tiene[t] # "no")
    <2>1. CASE Chiama(t)
      <3>1. PICK op \in fa[t].cosa : Parte(t, op)
        BY <2>1 DEF Chiama
      <3>2. fa[t].cosa \subseteq Chiamate
        BY <1>t, UsoDeiFili DEF TypeOK
      <3>3. "unl" \notin Chiamate
        BY DEF Chiamate
      <3>4. tiene[t] = "no"
        BY <2>1 DEF Chiama
      <3> QED  BY <3>1, <3>2, <3>3, <3>4
    <2>2. CASE Rilascia(t)
      BY <2>2 DEF Rilascia
    <2> QED  BY <2>1, <2>2
  <1>2. Fuori \in Registri
    BY DEF Fuori, Registri, Passi, Parole
  <1>q. {"prendi", "sem prova", "sem lascia"} \subseteq Passi
    BY DEF Passi
  <1>3. CASE op \in Rw
    <2>1. Dentro(op) \in Passi
      BY <1>3 DEF Dentro, Rw, Passi
    <2> DEFINE r == [Fuori EXCEPT !.op = op, !.m = "rm", !.c = "rc", !.pc = "prendi", !.poi = Dentro(op)]
    <2>2. r \in Registri
      BY <1>2, <1>q, <2>1 DEF Registri
    <2>3. th' = [th EXCEPT ![t] = r]
      BY <1>1, <1>3, Zenon DEF Parte, Rw
    <2>4. r.op = op /\ r.m = "rm" /\ r.c = "rc" /\ r.pc = "prendi" /\ r.poi = Dentro(op)
      BY DEF Fuori
    <2> HIDE DEF r
    <2>5. th' \in [Fili -> Registri] /\ th'[t] = r /\ SoloFilo(t)
      BY <1>t, <2>2, <2>3, Cambia
    <2> QED  BY <1>t, <1>u, <1>1, <1>3, <2>4, <2>5 DEF TypeOK, Memoria, PassoChiama
  <1>4. CASE op \in Monitor
    <2>1. Dentro(op) \in Passi
      BY <1>4 DEF Dentro, Monitor, Passi
    <2> DEFINE r == [Fuori EXCEPT !.op = op, !.pc = "prendi", !.poi = Dentro(op)]
    <2>2. r \in Registri
      BY <1>2, <1>q, <2>1 DEF Registri
    <2>3. th' = [th EXCEPT ![t] = r]
      BY <1>1, <1>4 DEF Parte, Monitor
    <2>4. r.op = op /\ r.m = "m" /\ r.c = "c" /\ r.pc = "prendi" /\ r.poi = Dentro(op)
      BY DEF Fuori
    <2> HIDE DEF r
    <2>5. th' \in [Fili -> Registri] /\ th'[t] = r /\ SoloFilo(t)
      BY <1>t, <2>2, <2>3, Cambia
    <2> QED  BY <1>t, <1>u, <1>1, <1>4, <2>4, <2>5 DEF TypeOK, Memoria, PassoChiama
  <1>5. CASE op = "lascia"
    <2> DEFINE r == [Fuori EXCEPT !.op = op, !.pc = "sem lascia"]
    <2>2. r \in Registri
      BY <1>2, <1>q DEF Registri
    <2>3. th' = [th EXCEPT ![t] = r]
      BY <1>1, <1>5 DEF Parte
    <2>4. r.op = op /\ r.m = "m" /\ r.c = "c" /\ r.pc = "sem lascia"
      BY DEF Fuori
    <2> HIDE DEF r
    <2>5. th' \in [Fili -> Registri] /\ th'[t] = r /\ SoloFilo(t)
      BY <1>t, <2>2, <2>3, Cambia
    <2> QED  BY <1>t, <1>u, <1>1, <1>5, <2>4, <2>5 DEF TypeOK, Memoria, PassoChiama
  <1>6. CASE op \in {"attende", "attende_ms"}
    <2> DEFINE k == IF op = "attende_ms" THEN "corre" ELSE "mai"
               r == [Fuori EXCEPT !.op = op, !.pc = "sem prova", !.ms = k]
    <2>1. k \in {"mai", "corre", "scaduto"}
      OBVIOUS
    <2>2. r \in Registri
      <3> HIDE DEF k
      <3> QED  BY <1>2, <1>q, <2>1 DEF Registri
    <2>3. th' = [th EXCEPT ![t] = r]
      BY <1>1, <1>6 DEF Parte
    <2>4. r.op = op /\ r.m = "m" /\ r.c = "c" /\ r.pc = "sem prova"
      BY DEF Fuori
    <2> HIDE DEF r
    <2>5. th' \in [Fili -> Registri] /\ th'[t] = r /\ SoloFilo(t)
      BY <1>t, <2>2, <2>3, Cambia
    <2> QED  BY <1>t, <1>u, <1>1, <1>6, <2>4, <2>5 DEF TypeOK, Memoria, PassoChiama
  <1> QED  BY <1>3, <1>4, <1>5, <1>6 DEF Chiamate, Rw, Monitor

\* Every step, register by register.
LEMMA OgniPasso ==
    ASSUME Inv1, NEW t \in Fili,
           \/ Passo(t) \/ Chiama(t) \/ Rilascia(t) \/ Tempo(t) \/ Scade(t)
           \/ Segnale(t) \/ proc_filo_ferma(t)
    PROVE  TypeOK' /\ Effetto(t)
  <1>t. TypeOK
    BY DEF Inv1
  <1>1. CASE sys_attesa_sveglia(t)
    <2>1. th' \in [Fili -> Registri] /\ PassoSveglia(t)
      BY <1>t, <1>1, SvegliaEffetto DEF TypeOK
    <2>2. UNCHANGED <<mem, ferma, scuoti, tiene, fa>>
      BY <1>1 DEF sys_attesa_sveglia
    <2> QED  BY <1>t, <2>1, <2>2 DEF TypeOK, Memoria, Effetto
  <1> QED  BY <1>t, <1>1, EffettoNucleo, EffettoMutex, EffettoCond, EffettoRw, EffettoMonitor,
              EffettoSem, EffettoChiama, Zenon DEF Passo, Effetto

-----------------------------------------------------------------------------
(* The shape is kept.                                                      *)

FormaDi(r, h) == Posto(r) /\ Ritorno(r) /\ NelNucleo(r) /\ Tenuta(r, h)

\* A thread that is woken keeps its shape.
LEMMA FormaSvegliato ==
    ASSUME NEW u \in Fili, FormaDi(th[u], tiene[u]), tiene'[u] = tiene[u], StessiRegistri(u),
           th'[u].pc = th[u].pc \/ (th[u].pc = "dorme" /\ th'[u].pc = "sveglio")
    PROVE  FormaDi(th'[u], tiene'[u])
  <1>1. Posto(th'[u])
    BY DEF FormaDi, Posto, StessiRegistri
  <1>2. Ritorno(th'[u])
    BY DEF FormaDi, Ritorno, StessiRegistri, VersoLucchetto, Sonno
  <1>3. NelNucleo(th'[u])
    BY DEF FormaDi, NelNucleo, StessiRegistri, Sonno
  <1>4. Tenuta(th'[u], tiene'[u])
    BY DEF FormaDi, Tenuta, StessiRegistri, VersoLucchetto, Sonno
  <1> QED  BY <1>1, <1>2, <1>3, <1>4 DEF FormaDi

\* A thread on its way from one step to the next keeps its shape: in the kernel.
LEMMA FormaNucleo ==
    ASSUME NEW t \in Fili, FormaDi(th[t], tiene[t]), PassoSonno(t) \/ PassoFuori(t) \/ PassoSveglia(t)
    PROVE  FormaDi(th'[t], tiene'[t])
  <1>1. CASE PassoSonno(t)
    <2>1. Posto(th'[t])
      BY <1>1 DEF FormaDi, Posto, NelNucleo, PassoSonno, Resta, Muta, Sonno
    <2>2. Ritorno(th'[t])
      BY <1>1 DEF FormaDi, Ritorno, NelNucleo, PassoSonno, Resta, Muta, Sonno, VersoLucchetto
    <2>3. NelNucleo(th'[t])
      BY <1>1 DEF FormaDi, NelNucleo, PassoSonno, Resta, Muta, Sonno
    <2>4. Tenuta(th'[t], tiene'[t])
      BY <1>1 DEF FormaDi, Tenuta, NelNucleo, PassoSonno, Resta, Muta, Sonno, VersoLucchetto
    <2> QED  BY <2>1, <2>2, <2>3, <2>4 DEF FormaDi
  <1>2. CASE PassoFuori(t)
    <2>1. /\ StessiRegistri(t) /\ tiene'[t] = tiene[t]
          /\ th'[t].pc = th[t].pc \/ (th[t].pc = "dorme" /\ th'[t].pc = "sveglio")
      BY <1>2 DEF PassoFuori, Resta, Muta, StessiRegistri
    <2> QED  BY <2>1, FormaSvegliato
  <1>3. CASE PassoSveglia(t)
    <2>0. StessiRegistri(t) /\ th[t].pc = "sveglia" /\ th'[t].pc = th[t].dopo /\ tiene' = tiene
      BY <1>3 DEF PassoSveglia
    <2>1. Posto(th'[t])
      BY <2>0 DEF FormaDi, Posto, NelNucleo, StessiRegistri, Rw, Monitor
    <2>2. Ritorno(th'[t])
      BY <2>0 DEF FormaDi, Ritorno, NelNucleo, StessiRegistri, Sonno, VersoLucchetto
    <2>3. NelNucleo(th'[t])
      BY <2>0 DEF FormaDi, NelNucleo, StessiRegistri, Sonno
    <2>4. Tenuta(th'[t], tiene'[t])
      BY <2>0 DEF FormaDi, Tenuta, NelNucleo, StessiRegistri, Sonno, VersoLucchetto, Pazienti
    <2> QED  BY <2>1, <2>2, <2>3, <2>4 DEF FormaDi
  <1> QED  BY <1>1, <1>2, <1>3

\* At a lock.
LEMMA FormaMutex ==
    ASSUME NEW t \in Fili, FormaDi(th[t], tiene[t]), PassoMutex(t)
    PROVE  FormaDi(th'[t], tiene'[t])
  <1>1. Posto(th'[t])
    BY DEF FormaDi, Posto, Ritorno, VersoLucchetto, PassoMutex, Resta, Muta, Rw, Monitor, Pazienti, Dentro
  <1>2. Ritorno(th'[t])
    BY DEF FormaDi, Ritorno, VersoLucchetto, PassoMutex, Resta, Muta, Sonno, Rw, Monitor, Pazienti, Dentro
  <1>3. NelNucleo(th'[t])
    BY DEF FormaDi, Posto, Ritorno, NelNucleo, VersoLucchetto, PassoMutex, Resta, Muta, Sonno, Rw, Monitor, Pazienti, Dentro
  <1>4. Tenuta(th'[t], tiene'[t])
    BY DEF FormaDi, Posto, Ritorno, Tenuta, VersoLucchetto, PassoMutex, Resta, Muta, Sonno, Rw, Monitor, Pazienti, Dentro
  <1> QED  BY <1>1, <1>2, <1>3, <1>4 DEF FormaDi

\* At a condition.
LEMMA FormaCond ==
    ASSUME NEW t \in Fili, FormaDi(th[t], tiene[t]), PassoCond(t)
    PROVE  FormaDi(th'[t], tiene'[t])
  <1>1. Posto(th'[t])
    BY DEF FormaDi, Posto, PassoCond, Resta, Muta, Rw, Monitor, Pazienti, Prova
  <1>2. Ritorno(th'[t])
    BY DEF FormaDi, Posto, Ritorno, VersoLucchetto, PassoCond, Resta, Muta, Sonno, Rw, Monitor, Pazienti, Prova
  <1>3. NelNucleo(th'[t])
    BY DEF FormaDi, Posto, NelNucleo, PassoCond, Resta, Muta, Sonno, Rw, Monitor, Pazienti, Prova
  <1>4. Tenuta(th'[t], tiene'[t])
    BY DEF FormaDi, Posto, Tenuta, VersoLucchetto, PassoCond, Resta, Muta, Sonno, Rw, Monitor, Pazienti, Prova
  <1> QED  BY <1>1, <1>2, <1>3, <1>4 DEF FormaDi

\* Inside the lock of readers and writers.
LEMMA FormaRw ==
    ASSUME tiene \in [Fili -> {"no", "R", "W"}], NEW t \in Fili, FormaDi(th[t], tiene[t]), PassoRw(t)
    PROVE  FormaDi(th'[t], tiene'[t])
  <1>1. Posto(th'[t])
    BY DEF FormaDi, Posto, PassoRw, Resta, Esce, Muta, Rw, Monitor, Pazienti
  <1>2. Ritorno(th'[t])
    BY DEF FormaDi, Posto, Ritorno, VersoLucchetto, PassoRw, Resta, Esce, Muta, Sonno, Rw, Monitor, Pazienti
  <1>3. NelNucleo(th'[t])
    BY DEF FormaDi, Posto, NelNucleo, PassoRw, Resta, Esce, Muta, Sonno
  <1>4. Tenuta(th'[t], tiene'[t])
    BY DEF FormaDi, Posto, Tenuta, VersoLucchetto, PassoRw, Resta, Esce, Muta, Sonno
  <1> QED  BY <1>1, <1>2, <1>3, <1>4 DEF FormaDi

\* Inside the monitor, at the semaphore, and where a call begins.
LEMMA FormaResto ==
    ASSUME mem.s \in Nat, NEW t \in Fili, FormaDi(th[t], tiene[t]),
           PassoMonitor(t) \/ PassoSem(t) \/ PassoChiama(t)
    PROVE  FormaDi(th'[t], tiene'[t])
  <1>1. CASE PassoMonitor(t)
    <2>1. Posto(th'[t])
      BY <1>1 DEF FormaDi, Posto, PassoMonitor, Resta, Esce, Muta, Rw, Monitor, Pazienti
    <2>2. Ritorno(th'[t])
      BY <1>1 DEF FormaDi, Posto, Ritorno, VersoLucchetto, PassoMonitor, Resta, Esce, Muta, Sonno
    <2>3. NelNucleo(th'[t])
      BY <1>1 DEF FormaDi, Posto, NelNucleo, PassoMonitor, Resta, Esce, Muta, Sonno
    <2>4. Tenuta(th'[t], tiene'[t])
      BY <1>1 DEF FormaDi, Posto, Tenuta, VersoLucchetto, PassoMonitor, Resta, Esce, Muta, Sonno
    <2> QED  BY <2>1, <2>2, <2>3, <2>4 DEF FormaDi
  <1>2. CASE PassoSem(t)
    <2>1. Posto(th'[t])
      BY <1>2 DEF FormaDi, Posto, PassoSem, Resta, Muta, Rw
    <2>2. Ritorno(th'[t])
      BY <1>2 DEF FormaDi, Posto, Ritorno, VersoLucchetto, PassoSem, Resta, Muta, Sonno
    <2>3. NelNucleo(th'[t])
      BY <1>2 DEF FormaDi, Posto, NelNucleo, PassoSem, Resta, Muta, Sonno
    <2>4. Tenuta(th'[t], tiene'[t])
      BY <1>2 DEF FormaDi, Posto, Tenuta, VersoLucchetto, PassoSem, Resta, Muta, Sonno
    <2> QED  BY <2>1, <2>2, <2>3, <2>4 DEF FormaDi
  <1>3. CASE PassoChiama(t)
    <2>1. Posto(th'[t])
      BY <1>3 DEF FormaDi, Posto, PassoChiama, Rw, Monitor
    <2>2. Ritorno(th'[t])
      BY <1>3 DEF FormaDi, Ritorno, VersoLucchetto, PassoChiama, Sonno, Rw, Monitor
    <2>3. NelNucleo(th'[t])
      BY <1>3 DEF FormaDi, NelNucleo, PassoChiama, Sonno
    <2>4. Tenuta(th'[t], tiene'[t])
      BY <1>3 DEF FormaDi, Tenuta, VersoLucchetto, PassoChiama, Sonno, Rw, Monitor
    <2> QED  BY <2>1, <2>2, <2>3, <2>4 DEF FormaDi
  <1> QED  BY <1>1, <1>2, <1>3

\* The others: nothing of them changes, or they are woken.
Altri(t) ==
    \A u \in Fili : u # t =>
        /\ StessiRegistri(u) /\ tiene'[u] = tiene[u]
        /\ \/ th'[u].pc = th[u].pc
           \/ th[u].pc = "dorme" /\ th'[u].pc = "sveglio"

\* No step changes the registers of another thread: it can only wake it.
LEMMA AltriFermi ==
    ASSUME tiene \in [Fili -> {"no", "R", "W"}], NEW t \in Fili, Effetto(t)
    PROVE  Altri(t)
  <1>1. ASSUME SoloFilo(t), NEW u \in Fili, u # t
        PROVE  StessiRegistri(u) /\ th'[u].pc = th[u].pc
    BY <1>1 DEF SoloFilo, StessiRegistri
  <1>2. PassoSveglia(t) \/ SoloFilo(t)
    BY DEF Effetto, PassoSonno, PassoFuori, PassoMutex, PassoCond, PassoRw, PassoMonitor, PassoSem,
           PassoChiama, Resta, Esce, Muta
  <1>3. \A u \in Fili : u # t => tiene'[u] = tiene[u]
    BY DEF Effetto, PassoSonno, PassoFuori, PassoSveglia, PassoMutex, PassoCond, PassoRw, PassoMonitor,
           PassoSem, PassoChiama
  <1>4. CASE PassoSveglia(t)
    BY <1>3, <1>4 DEF PassoSveglia, Dormienti, Altri
  <1> QED  BY <1>1, <1>2, <1>3, <1>4 DEF Altri

\* Every step keeps what each thread knows of its call.
LEMMA FormaPasso ==
    ASSUME Inv1, NEW t \in Fili, Effetto(t)
    PROVE  Forma'
  <1>1. \A u \in Fili : FormaDi(th[u], tiene[u])
    BY DEF Inv1, Forma, FormaDi
  <1>2. tiene \in [Fili -> {"no", "R", "W"}] /\ mem.s \in Nat
    BY DEF Inv1, TypeOK, Memoria
  <1>3. FormaDi(th'[t], tiene'[t])
    BY <1>1, <1>2, FormaNucleo, FormaMutex, FormaCond, FormaRw, FormaResto, Zenon DEF Effetto
  <1>4. ASSUME NEW u \in Fili, u # t  PROVE FormaDi(th'[u], tiene'[u])
    <2>1. Altri(t)
      BY <1>2, AltriFermi
    <2>2. /\ StessiRegistri(u) /\ tiene'[u] = tiene[u]
          /\ th'[u].pc = th[u].pc \/ (th[u].pc = "dorme" /\ th'[u].pc = "sveglio")
      BY <1>4, <2>1 DEF Altri
    <2> QED  BY <1>1, <2>2, FormaSvegliato
  <1>5. \A u \in Fili : FormaDi(th'[u], tiene'[u])
    BY <1>3, <1>4
  <1> QED  BY <1>5 DEF Forma, FormaDi

-----------------------------------------------------------------------------
(* A lock is one thread's.                                                 *)

\* What a step does to the locks: nothing, or t takes its own, or leaves it.
Invariato(t) ==
    /\ \A w \in {"m", "rm"} : mem[w] # 0 => mem'[w] # 0
    /\ Ha(th'[t]) => Ha(th[t]) /\ th'[t].m = th[t].m

Preso(t) ==
    /\ mem[th[t].m] = 0 /\ mem'[th[t].m] # 0 /\ th'[t].m = th[t].m
    /\ \A w \in {"m", "rm"} : mem[w] # 0 => mem'[w] # 0

Lasciato(t) ==
    /\ Ha(th[t]) /\ ~Ha(th'[t])
    /\ \A w \in {"m", "rm"} : w # th[t].m /\ mem[w] # 0 => mem'[w] # 0

\* A step leaves a mutex as it is, takes it free, or gives up its own.
LEMMA PassoLucchetto ==
    ASSUME Inv1, NEW t \in Fili, Effetto(t)
    PROVE  Invariato(t) \/ Preso(t) \/ Lasciato(t)
  <1>f. Posto(th[t]) /\ Ritorno(th[t]) /\ NelNucleo(th[t])
    BY DEF Inv1, Forma
  <1>m. th[t].m \in {"m", "rm"} /\ th[t].c \in {"c", "rc"}
    BY <1>f DEF Posto
  <1>p. {"m", "rm", "c", "rc", "roba", "s", "lettori", "scrittore", "in_attesa"} \subseteq Parole
    BY ParoleNote
  <1>1. CASE PassoSonno(t)
    BY <1>1, <1>f DEF PassoSonno, NelNucleo, Sonno, Resta, Muta, Ha, Dentro_lucchetto, Invariato
  <1>2. CASE PassoFuori(t)
    BY <1>2 DEF PassoFuori, Resta, Muta, Ha, Dentro_lucchetto, Invariato
  <1>3. CASE PassoSveglia(t)
    <2>1. StessiRegistri(t) /\ th[t].pc = "sveglia" /\ th'[t].pc = th[t].dopo /\ mem' = mem
      BY <1>3 DEF PassoSveglia
    <2> QED  BY <1>f, <2>1 DEF StessiRegistri, NelNucleo, Ha, Dentro_lucchetto, Invariato
  <1>4. CASE PassoMutex(t)
    <2>1. CASE th[t].pc = "lascia"
      BY <1>4, <1>f, <1>m, <1>p, <2>1
         DEF PassoMutex, Ritorno, Resta, Muta, Parola, Ha, Dentro_lucchetto, Lasciato
    <2>2. CASE th[t].pc # "lascia" /\ mem[th[t].m] = 0
      <3>1. mem'[th[t].m] # 0 /\ th'[t].m = th[t].m
        BY <1>4, <2>2 DEF PassoMutex, Resta, Muta, Parola
      <3>2. \A w \in {"m", "rm"} : mem[w] # 0 => mem'[w] = mem[w]
        BY <1>4, <1>m, <1>p, <2>2 DEF PassoMutex, Parola
      <3> QED  BY <2>2, <3>1, <3>2 DEF Preso
    <2>3. CASE th[t].pc # "lascia" /\ mem[th[t].m] # 0
      <3>1. ~Ha(th'[t])
        BY <1>4, <2>3 DEF PassoMutex, Resta, Muta, Ha, Dentro_lucchetto
      <3>2. \A w \in {"m", "rm"} : mem[w] # 0 => mem'[w] # 0
        BY <1>4, <1>m, <1>p, <2>3 DEF PassoMutex, Parola
      <3> QED  BY <3>1, <3>2 DEF Invariato
    <2> QED  BY <2>1, <2>2, <2>3
  <1>5. CASE PassoCond(t)
    <2>1. \A w \in {"m", "rm"} : mem[w] # 0 => mem'[w] # 0
      BY <1>5, <1>m, <1>p DEF PassoCond, Parola
    <2>2. Ha(th'[t]) => Ha(th[t]) /\ th'[t].m = th[t].m
      BY <1>5 DEF PassoCond, Resta, Muta, Ha, Dentro_lucchetto
    <2> QED  BY <2>1, <2>2 DEF Invariato
  <1>6. CASE PassoRw(t)
    <2>1. \A w \in {"m", "rm"} : mem[w] # 0 => mem'[w] # 0
      BY <1>6, <1>p DEF PassoRw, Parola
    <2>2. Ha(th'[t]) => Ha(th[t]) /\ th'[t].m = th[t].m
      BY <1>6 DEF PassoRw, Resta, Esce, Muta, Ha, Dentro_lucchetto
    <2> QED  BY <2>1, <2>2 DEF Invariato
  <1>7. CASE PassoMonitor(t)
    <2>1. \A w \in {"m", "rm"} : mem[w] # 0 => mem'[w] # 0
      BY <1>7, <1>p DEF PassoMonitor, Parola
    <2>2. Ha(th'[t]) => Ha(th[t]) /\ th'[t].m = th[t].m
      BY <1>7 DEF PassoMonitor, Resta, Esce, Muta, Ha, Dentro_lucchetto
    <2> QED  BY <2>1, <2>2 DEF Invariato
  <1>8. CASE PassoSem(t)
    <2>1. \A w \in {"m", "rm"} : mem[w] # 0 => mem'[w] # 0
      BY <1>8, <1>p DEF PassoSem, Parola
    <2>2. ~Ha(th'[t])
      BY <1>8 DEF PassoSem, Resta, Muta, Ha, Dentro_lucchetto
    <2> QED  BY <2>1, <2>2 DEF Invariato
  <1>9. CASE PassoChiama(t)
    BY <1>9 DEF PassoChiama, Ha, Dentro_lucchetto, Invariato
  <1> QED  BY <1>1, <1>2, <1>3, <1>4, <1>5, <1>6, <1>7, <1>8, <1>9 DEF Effetto

\* A mutex keeps its only owner.
LEMMA LucchettoPasso ==
    ASSUME Inv1, Lucchetto, NEW t \in Fili, Effetto(t)
    PROVE  Lucchetto'
  <1>m. \A u \in Fili : th[u].m \in {"m", "rm"}
    BY DEF Inv1, Forma, Posto
  <1>1. Altri(t)
    BY AltriFermi DEF Inv1, TypeOK
  <1>2. \A u \in Fili : u # t => th'[u].m = th[u].m /\ (Ha(th'[u]) => Ha(th[u]))
    BY <1>1 DEF Altri, StessiRegistri, Ha, Dentro_lucchetto
  <1>3. \A u \in Fili : Ha(th[u]) => mem[th[u].m] # 0
    BY DEF Lucchetto
  <1>4. \A u, v \in Fili : Ha(th[u]) /\ Ha(th[v]) /\ th[u].m = th[v].m => u = v
    BY DEF Lucchetto
  <1>5. Invariato(t) \/ Preso(t) \/ Lasciato(t)
    BY PassoLucchetto
  <1>6. \A u \in Fili : Ha(th'[u]) => mem'[th'[u].m] # 0
    BY <1>m, <1>2, <1>3, <1>4, <1>5 DEF Invariato, Preso, Lasciato
  <1>7. ASSUME NEW u \in Fili, NEW v \in Fili, Ha(th'[u]), Ha(th'[v]), th'[u].m = th'[v].m
        PROVE  u = v
    BY <1>2, <1>3, <1>4, <1>5, <1>7 DEF Invariato, Preso, Lasciato
  <1>8. \A u, v \in Fili : Ha(th'[u]) /\ Ha(th'[v]) /\ th'[u].m = th'[v].m => u = v
    BY <1>7
  <1> QED  BY <1>6, <1>8 DEF Lucchetto, Ha

-----------------------------------------------------------------------------
(* The counts of the lock of readers and writers.                          *)

\* Readers are threads, of which there are finitely many.
LEMMA LettoriFiniti == IsFiniteSet(Lettori) /\ IsFiniteSet(Lettori')
  <1>1. Lettori \subseteq Fili /\ Lettori' \subseteq Fili
    BY DEF Lettori
  <1> QED  BY <1>1, UsoDeiFili, FS_Subset

\* No step but those of the lock of readers and writers concerns it.
LEMMA ContiAltrove ==
    ASSUME Inv1, Conti, NEW t \in Fili, Effetto(t), ~PassoRw(t)
    PROVE  Conti'
  <1>f. Posto(th[t]) /\ Ritorno(th[t]) /\ NelNucleo(th[t])
    BY DEF Inv1, Forma
  <1>m. th[t].m \in {"m", "rm"} /\ th[t].c \in {"c", "rc"}
    BY <1>f DEF Posto
  <1>p. {"lettori", "scrittore"} \subseteq Parole
    BY ParoleNote
  <1>1. mem'.lettori = mem.lettori /\ mem'.scrittore = mem.scrittore /\ tiene' = tiene
    <2>1. PassoMutex(t) => mem'.lettori = mem.lettori /\ mem'.scrittore = mem.scrittore /\ tiene' = tiene
      BY <1>m, <1>p DEF PassoMutex, Parola
    <2>2. PassoCond(t) => mem'.lettori = mem.lettori /\ mem'.scrittore = mem.scrittore /\ tiene' = tiene
      BY <1>m, <1>p DEF PassoCond, Parola
    <2>3. PassoMonitor(t) \/ PassoSem(t) => mem'.lettori = mem.lettori /\ mem'.scrittore = mem.scrittore /\ tiene' = tiene
      BY <1>p DEF PassoMonitor, PassoSem, Parola
    <2> QED  BY <2>1, <2>2, <2>3 DEF Effetto, PassoSonno, PassoFuori, PassoSveglia, PassoChiama
  <1>2. th'[t].pc \in {"rd entra", "wr entra"} => th'[t].pc = th[t].pc
    <2>1. PassoSonno(t) => th'[t].pc \notin {"rd entra", "wr entra"}
      BY <1>f DEF PassoSonno, Resta, Muta, NelNucleo, Sonno
    <2>2. PassoFuori(t) => th'[t].pc = th[t].pc \/ th'[t].pc = "sveglio"
      BY DEF PassoFuori, Resta, Muta
    <2>3. PassoSveglia(t) => th'[t].pc \notin {"rd entra", "wr entra"}
      BY <1>f DEF PassoSveglia, NelNucleo
    <2>4. PassoMutex(t) => th'[t].pc \notin {"rd entra", "wr entra"}
      BY <1>f DEF PassoMutex, Resta, Muta, Ritorno, VersoLucchetto, Dentro, Rw, Monitor
    <2>5. PassoCond(t) => th'[t].pc \notin {"rd entra", "wr entra"}
      BY <1>f DEF PassoCond, Resta, Muta, Prova
    <2>6. PassoMonitor(t) \/ PassoSem(t) \/ PassoChiama(t) => th'[t].pc \notin {"rd entra", "wr entra"}
      BY DEF PassoMonitor, PassoSem, PassoChiama, Resta, Esce, Muta
    <2> QED  BY <2>1, <2>2, <2>3, <2>4, <2>5, <2>6 DEF Effetto
  <1>3. \A u \in Fili : th'[u].pc \in {"rd entra", "wr entra"} => th'[u].pc = th[u].pc
    <2>1. Altri(t)
      BY AltriFermi DEF Inv1, TypeOK
    <2> QED  BY <1>2, <2>1 DEF Altri
  <1>4. Lettori' = Lettori
    BY <1>1 DEF Lettori
  <1> QED  BY <1>1, <1>3, <1>4 DEF Conti

\* The words of the read-write lock count its holders after a step on it ...
LEMMA ContiRw ==
    ASSUME Inv1, Lucchetto, Conti, NEW t \in Fili, PassoRw(t)
    PROVE  Conti'
  <1>f. Posto(th[t]) /\ Tenuta(th[t], tiene[t])
    BY DEF Inv1, Forma
  <1>y. /\ tiene \in [Fili -> {"no", "R", "W"}] /\ mem.scrittore \in {0, 1} /\ mem.lettori \in Nat
        /\ {"lettori", "scrittore"} \subseteq Parole
    BY ParoleNote DEF Inv1, TypeOK, Memoria
  <1>h. Ha(th[t]) /\ th[t].m = "rm"
    BY <1>f DEF PassoRw, Posto, Ha, Dentro_lucchetto, Rw
  <1>1. \A u \in Fili : u # t => th'[u] = th[u] /\ th[u].pc \notin {"rd entra", "wr entra"}
    <2>1. \A u \in Fili : u # t => th'[u] = th[u]
      BY DEF PassoRw, Resta, Esce, Muta, SoloFilo
    <2>2. ASSUME NEW u \in Fili, u # t, th[u].pc \in {"rd entra", "wr entra"}  PROVE FALSE
      <3>1. Ha(th[u]) /\ th[u].m = "rm"
        BY <2>2 DEF Inv1, Forma, Posto, Ha, Dentro_lucchetto, Rw
      <3> QED  BY <1>h, <2>2, <3>1 DEF Lucchetto
    <2> QED  BY <2>1, <2>2
  <1>c. /\ mem.lettori = Cardinality(Lettori)
        /\ mem.lettori = 0 <=> Lettori = {}
    BY LettoriFiniti, FS_EmptySet DEF Conti
  <1>w. \A u \in Fili : tiene[u] = "W" => mem.scrittore = 1 /\ mem.lettori = 0
    BY Zenon DEF Conti
  <1>z. /\ \A u \in Fili : tiene'[u] # "W"
        /\ mem'.lettori = Cardinality(Lettori') /\ mem'.scrittore = 0
        /\ \A u \in Fili : th'[u].pc \notin {"rd entra", "wr entra"}
        => Conti'
    <2>1. mem'.scrittore = 0 => mem'.scrittore # 1
      OBVIOUS
    <2> QED  BY <2>1, Zenon DEF Conti
  <1>2. CASE th[t].pc \in {"rd prova", "wr conta", "wr prova"}
    <2>1. tiene' = tiene /\ mem'.lettori = mem.lettori /\ mem'.scrittore = mem.scrittore /\ Lettori' = Lettori
      BY <1>2, <1>y DEF PassoRw, Parola, Lettori
    <2>2. th'[t].pc \in {"rd entra", "wr entra"} => mem.scrittore = 0
      BY <1>2, <1>y DEF PassoRw, Resta, Esce, Muta
    <2>3. th'[t].pc = "wr entra" => mem.lettori = 0
      <3>1. th'[t].pc = "wr entra" => ~(mem.lettori > 0)
        BY <1>2 DEF PassoRw, Resta, Esce, Muta
      <3>2. PICK n \in Nat : n = mem.lettori
        BY <1>y
      <3>3. ~(n > 0) => n = 0
        OBVIOUS
      <3> QED  BY <3>1, <3>2, <3>3
    <2> QED  BY <1>1, <2>1, <2>2, <2>3 DEF Conti
  <1>3. CASE th[t].pc = "rd entra"
    <2>1. /\ tiene' = [tiene EXCEPT ![t] = "R"] /\ th'[t].pc = "lascia"
          /\ mem'.lettori = mem.lettori + 1 /\ mem'.scrittore = mem.scrittore
      BY <1>3, <1>y DEF PassoRw, Parola, Esce, Muta
    <2>2. tiene[t] = "no" /\ mem.scrittore = 0
      BY <1>3, <1>f DEF Posto, Tenuta, VersoLucchetto, Sonno, Conti
    <2>3. Lettori' = Lettori \cup {t} /\ t \notin Lettori
      BY <1>y, <2>1, <2>2 DEF Lettori
    <2>4. Cardinality(Lettori') = Cardinality(Lettori) + 1
      BY <2>3, LettoriFiniti, FS_AddElement
    <2>5. \A u \in Fili : tiene'[u] # "W"
      BY <1>y, <1>w, <2>1, <2>2
    <2>6. \A u \in Fili : th'[u].pc \notin {"rd entra", "wr entra"}
      BY <1>1, <2>1
    <2> QED  BY <1>c, <1>z, <2>1, <2>2, <2>4, <2>5, <2>6
  <1>4. CASE th[t].pc = "wr entra"
    <2>1. /\ tiene' = [tiene EXCEPT ![t] = "W"] /\ th'[t].pc = "lascia"
          /\ mem'.lettori = mem.lettori /\ mem'.scrittore = 1
      BY <1>4, <1>y DEF PassoRw, Esce, Muta
    <2>2. tiene[t] = "no" /\ mem.scrittore = 0 /\ mem.lettori = 0
      BY <1>4, <1>f DEF Posto, Tenuta, VersoLucchetto, Sonno, Conti
    <2>3. Lettori' = Lettori
      BY <1>y, <2>1, <2>2 DEF Lettori
    <2>5. \A u \in Fili : tiene'[u] = "W" <=> u = t
      BY <1>y, <2>1, <2>2 DEF Conti
    <2>6. \A u \in Fili : th'[u].pc \notin {"rd entra", "wr entra"}
      BY <1>1, <2>1
    <2> QED  BY <1>c, <2>1, <2>2, <2>3, <2>5, <2>6 DEF Conti
  <1>5. CASE th[t].pc = "unl"
    <2>1. /\ tiene' = [tiene EXCEPT ![t] = "no"] /\ th'[t].pc = "segnala"
          /\ \/ mem.scrittore = 1 /\ mem'.scrittore = 0 /\ mem'.lettori = mem.lettori
             \/ mem.scrittore = 0 /\ mem'.scrittore = 0 /\ mem.lettori > 0 /\ mem'.lettori = mem.lettori - 1
             \/ mem.scrittore = 0 /\ mem.lettori = 0 /\ mem' = mem
      BY <1>5, <1>y DEF PassoRw, Parola, Resta, Muta
    <2>2. tiene[t] # "no"
      BY <1>5, <1>f DEF Posto, Tenuta
    <2>3. \A u \in Fili : th'[u].pc \notin {"rd entra", "wr entra"}
      BY <1>1, <2>1
    <2>4. CASE mem.scrittore = 1
      <3>1. mem.lettori = 0 /\ Lettori = {}
        BY <1>c, <2>4 DEF Conti
      <3>2. tiene[t] = "W"
        BY <1>y, <2>2, <3>1 DEF Lettori
      <3>3. \A u \in Fili : tiene'[u] # "W"
        BY <1>y, <2>1, <3>2 DEF Conti
      <3>4. Lettori' = Lettori
        BY <1>y, <2>1, <3>2 DEF Lettori
      <3>5. mem'.scrittore = 0 /\ mem'.lettori = mem.lettori
        BY <2>1, <2>4
      <3> QED  BY <1>c, <1>z, <2>3, <3>3, <3>4, <3>5
    <2>5. CASE mem.scrittore = 0
      <3>1. \A u \in Fili : tiene[u] # "W"
        BY <1>w, <2>5
      <3>2. tiene[t] = "R" /\ t \in Lettori
        BY <1>y, <2>2, <3>1 DEF Lettori
      <3>3. mem'.lettori = mem.lettori - 1 /\ mem'.scrittore = 0
        BY <1>c, <2>1, <2>5, <3>2
      <3>4. Lettori' = Lettori \ {t}
        BY <1>y, <2>1 DEF Lettori
      <3>5. Cardinality(Lettori') = Cardinality(Lettori) - 1
        BY <3>2, <3>4, LettoriFiniti, FS_RemoveElement
      <3>6. \A u \in Fili : tiene'[u] # "W"
        BY <1>y, <2>1, <3>1
      <3> QED  BY <1>c, <1>z, <2>3, <3>3, <3>5, <3>6
    <2> QED  BY <1>y, <2>4, <2>5
  <1> QED  BY <1>2, <1>3, <1>4, <1>5 DEF PassoRw

\* ... and whatever the step.
LEMMA ContiPasso ==
    ASSUME Inv1, Lucchetto, Conti, NEW t \in Fili, Effetto(t)
    PROVE  Conti'
  BY ContiAltrove, ContiRw

-----------------------------------------------------------------------------
(* A thread asked to stop.                                                 *)

\* A thread told to stop on its way to the condition is still shaken at its sleep.
LEMMA ScossoPasso ==
    ASSUME Inv1, Scosso, NEW t \in Fili, Effetto(t)
    PROVE  Scosso'
  <1> DEFINE InC(r) == r.op = "consuma" /\ r.pc = "dorme" /\ r.dove = "c"
  <1>f. Posto(th[t]) /\ Ritorno(th[t]) /\ NelNucleo(th[t])
    BY DEF Inv1, Forma
  <1>i. \A u \in ferma : (Diretto(th[u]) => u \in scuoti) /\ ~InC(th[u])
    BY DEF Scosso
  <1>1. ASSUME NEW u \in Fili, u # t, u \in ferma'
        PROVE  (Diretto(th'[u]) => u \in scuoti') /\ ~InC(th'[u])
    <2>0. /\ ferma' = ferma \/ ferma' = ferma \cup {t}
          /\ scuoti' = scuoti \/ scuoti' = scuoti \ {t} \/ scuoti' = scuoti \cup {t}
      BY DEF Effetto, PassoSonno, PassoFuori, PassoSveglia, PassoMutex, PassoCond, PassoRw,
             PassoMonitor, PassoSem, PassoChiama
    <2>1. u \in ferma /\ (u \in scuoti => u \in scuoti')
      BY <1>1, <2>0
    <2>2. /\ StessiRegistri(u)
          /\ th'[u].pc = th[u].pc \/ (th[u].pc = "dorme" /\ th'[u].pc = "sveglio")
      BY <1>1, AltriFermi DEF Altri, Inv1, TypeOK
    <2>3. Diretto(th'[u]) => Diretto(th[u])
      BY <2>2 DEF Diretto, StessiRegistri
    <2>4. InC(th'[u]) => InC(th[u])
      BY <2>2 DEF StessiRegistri
    <2> HIDE DEF InC
    <2> QED  BY <1>i, <2>1, <2>3, <2>4
  <1>2. t \in ferma' => (Diretto(th'[t]) => t \in scuoti') /\ ~InC(th'[t])
    <2>1. CASE PassoSonno(t)
      BY <1>i, <1>f, <2>1 DEF PassoSonno, Resta, Muta, NelNucleo, Sonno, Diretto
    <2>2. CASE PassoFuori(t)
      BY <1>i, <2>2 DEF PassoFuori, Resta, Muta, Diretto
    <2>3. CASE PassoSveglia(t)
      BY <1>i, <1>f, <2>3 DEF PassoSveglia, StessiRegistri, NelNucleo, Diretto
    <2>4. CASE PassoMutex(t)
      BY <1>i, <1>f, <2>4 DEF PassoMutex, Resta, Muta, Posto, Ritorno, VersoLucchetto, Dentro, Rw, Monitor, Diretto
    <2>5. CASE PassoCond(t)
      BY <1>i, <1>f, <2>5 DEF PassoCond, Resta, Muta, Prova, Diretto
    <2>6. CASE PassoRw(t)
      BY <1>f, <2>6 DEF PassoRw, Resta, Esce, Muta, Posto, Diretto
    <2>7. CASE PassoMonitor(t)
      BY <1>f, <2>7 DEF PassoMonitor, Resta, Esce, Muta, Posto, Diretto
    <2>8. CASE PassoSem(t)
      BY <1>f, <2>8 DEF PassoSem, Resta, Muta, Posto, Diretto
    <2>9. CASE PassoChiama(t)
      BY <2>9 DEF PassoChiama, Diretto
    <2> QED  BY <2>1, <2>2, <2>3, <2>4, <2>5, <2>6, <2>7, <2>8, <2>9 DEF Effetto
  <1>3. ferma' \subseteq Fili
    BY DEF Effetto, PassoSonno, PassoFuori, PassoSveglia, PassoMutex, PassoCond, PassoRw,
           PassoMonitor, PassoSem, PassoChiama, Inv1, TypeOK
  <1>4. \A u \in ferma' : (Diretto(th'[u]) => u \in scuoti') /\ ~InC(th'[u])
    <2> HIDE DEF InC
    <2> QED  BY <1>1, <1>2, <1>3
  <1> QED  BY <1>4 DEF Scosso, Diretto

-----------------------------------------------------------------------------
(* How many threads.                                                       *)

\* Sets of threads have a size; what the proofs need to know of it:
LEMMA Quanti ==
    ASSUME NEW A \in SUBSET Fili
    PROVE  IsFiniteSet(A) /\ Cardinality(A) \in Nat
  BY UsoDeiFili, FS_Subset, FS_CardinalityType

\* a larger set is not smaller,
LEMMA Cresce ==
    ASSUME NEW A \in SUBSET Fili, NEW B \in SUBSET Fili, A \subseteq B
    PROVE  Cardinality(A) <= Cardinality(B)
  BY Quanti, FS_Subset

\* one that gained a thread has one more,
LEMMA CresceDiUno ==
    ASSUME NEW A \in SUBSET Fili, NEW B \in SUBSET Fili, A \subseteq B, NEW v \in B, v \notin A
    PROVE  Cardinality(A) + 1 <= Cardinality(B)
  <1>1. A \cup {v} \in SUBSET Fili /\ A \cup {v} \subseteq B
    OBVIOUS
  <1>2. Cardinality(A \cup {v}) = Cardinality(A) + 1
    BY Quanti, FS_AddElement
  <1>3. Cardinality(A \cup {v}) <= Cardinality(B)
    BY <1>1, Cresce
  <1> QED  BY <1>2, <1>3

\* one that lost a thread has at most one fewer,
LEMMA PerdeUno ==
    ASSUME NEW A \in SUBSET Fili, NEW B \in SUBSET Fili, NEW a, A \ {a} \subseteq B
    PROVE  Cardinality(A) <= Cardinality(B) + 1
  <1>1. A \ {a} \in SUBSET Fili
    OBVIOUS
  <1>2. Cardinality(A \ {a}) <= Cardinality(B)
    BY <1>1, Cresce
  <1>3. Cardinality(A \ {a}) = IF a \in A THEN Cardinality(A) - 1 ELSE Cardinality(A)
    BY Quanti, FS_RemoveElement
  <1>4. Cardinality(A) \in Nat /\ Cardinality(B) \in Nat
    BY Quanti
  <1> QED  BY <1>2, <1>3, <1>4

\* one that lost a thread and gained another is not smaller.
LEMMA UnoPerUno ==
    ASSUME NEW A \in SUBSET Fili, NEW B \in SUBSET Fili, NEW a, A \ {a} \subseteq B, NEW v \in B, v \notin A
    PROVE  Cardinality(A) <= Cardinality(B)
  <1>1. A \ {a} \in SUBSET Fili /\ v \notin A \ {a}
    OBVIOUS
  <1>2. Cardinality(A \ {a}) + 1 <= Cardinality(B)
    BY <1>1, CresceDiUno
  <1>3. Cardinality(A) <= Cardinality(A \ {a}) + 1
    BY <1>1, PerdeUno
  <1>4. Cardinality(A) \in Nat /\ Cardinality(B) \in Nat /\ Cardinality(A \ {a}) \in Nat
    BY <1>1, Quanti
  <1> QED  BY <1>2, <1>3, <1>4

-----------------------------------------------------------------------------
(* Who sleeps on a lock.                                                   *)

\* A thread falls asleep at a word that is as it expects it, and not when it
\* was shaken.
LEMMA Addormentato ==
    ASSUME Inv1, NEW t \in Fili, Effetto(t), NEW x \in Fili, th'[x].pc = "dorme"
    PROVE  /\ StessiRegistri(x)
           /\ \/ th[x].pc = "dorme"
              \/ /\ x = t /\ th[t].pc = "dormi" /\ mem[th[t].dove] = th[t].atteso /\ t \notin scuoti
                 /\ mem' = mem /\ scuoti' = scuoti
  <1>f. Posto(th[t]) /\ Ritorno(th[t]) /\ NelNucleo(th[t])
    BY DEF Inv1, Forma
  <1>1. CASE x # t
    BY <1>1, AltriFermi DEF Altri, Inv1, TypeOK
  <1>2. CASE x = t
    <2>1. CASE PassoSonno(t)
      BY <1>2, <1>f, <2>1 DEF PassoSonno, Resta, Muta, NelNucleo, Sonno, StessiRegistri
    <2>2. CASE PassoFuori(t)
      BY <1>2, <2>2 DEF PassoFuori, Resta, Muta, StessiRegistri
    <2>3. ~PassoSveglia(t) /\ ~PassoChiama(t)
      BY <1>2, <1>f DEF PassoSveglia, PassoChiama, NelNucleo
    <2>4. ~PassoMutex(t)
      BY <1>2, <1>f DEF PassoMutex, Resta, Muta, Ritorno, VersoLucchetto, Dentro, Rw, Monitor
    <2>5. ~PassoCond(t)
      BY <1>2 DEF PassoCond, Resta, Muta, Prova
    <2>6. ~PassoRw(t) /\ ~PassoMonitor(t) /\ ~PassoSem(t)
      BY <1>2 DEF PassoRw, PassoMonitor, PassoSem, Resta, Esce, Muta
    <2> QED  BY <2>1, <2>2, <2>3, <2>4, <2>5, <2>6 DEF Effetto
  <1> QED  BY <1>1, <1>2

\* It will wake one who sleeps at w, or put the 2 back.
Rimedia(r, w) ==
    \/ r.pc \in {"sveglia", "dormi", "sveglio"} /\ r.dove = w
    \/ r.pc = "riprendi" /\ r.m = w

\* Those who will wake somebody on word w or mark it again, by their registers.
LEMMA Rimediano ==
    ASSUME NEW w
    PROVE  /\ Svegliera(w) \cup Torna(w) # {} <=> \E u \in Fili : Rimedia(th[u], w)
           /\ (Svegliera(w) \cup Torna(w) # {})' <=> \E u \in Fili : Rimedia(th'[u], w)
  BY DEF Svegliera, Torna, Rimedia

\* A mutex somebody sleeps on stays marked, or a thread is about to wake or to mark it.
LEMMA SonnoLucchettoPasso ==
    ASSUME Inv1, SonnoLucchetto, NEW t \in Fili, Effetto(t)
    PROVE  SonnoLucchetto'
  <1>f. Posto(th[t]) /\ Ritorno(th[t]) /\ NelNucleo(th[t])
    BY DEF Inv1, Forma
  <1>m. th[t].m \in {"m", "rm"} /\ th[t].c \in {"c", "rc"}
    BY <1>f DEF Posto
  <1>p. {"m", "rm", "c", "rc", "roba", "s", "lettori", "scrittore", "in_attesa"} \subseteq Parole
    BY ParoleNote
  <1>a. \A u \in Fili : u # t =>
          /\ StessiRegistri(u)
          /\ th'[u].pc = th[u].pc \/ (th[u].pc = "dorme" /\ th'[u].pc = "sveglio")
    BY AltriFermi DEF Altri, Inv1, TypeOK
  <1> SUFFICES ASSUME NEW w \in {"m", "rm"}, NEW x \in Fili, th'[x].pc = "dorme", th'[x].dove = w
               PROVE  mem'[w] = 2 \/ \E u \in Fili : Rimedia(th'[u], w)
    BY Rimediano DEF SonnoLucchetto, Dormienti
  <1>1. CASE ~(th[x].pc = "dorme" /\ th[x].dove = w)
    <2>1. th[t].pc = "dormi" /\ th[t].dove = w /\ mem' = mem /\ mem[w] = th[t].atteso
      BY <1>1, Addormentato DEF StessiRegistri
    <2>2. th[t].atteso = 2
      BY <1>f, <1>m, <2>1 DEF NelNucleo, Sonno
    <2> QED  BY <2>1, <2>2
  <1>2. CASE th[x].pc = "dorme" /\ th[x].dove = w
    <2>1. mem[w] = 2 \/ \E u \in Fili : Rimedia(th[u], w)
      BY <1>2, Rimediano DEF SonnoLucchetto, Dormienti
    <2>2. ASSUME NEW u \in Fili, u # t, Rimedia(th[u], w)  PROVE Rimedia(th'[u], w)
      BY <1>a, <2>2 DEF Rimedia, StessiRegistri
    <2>3. CASE mem[w] = 2
      <3>1. CASE PassoMutex(t)
        BY <1>m, <1>p, <2>3, <3>1 DEF PassoMutex, Parola, Resta, Muta, Rimedia
      <3>2. CASE ~PassoMutex(t)
        <4>1. PassoCond(t) => mem'[w] = mem[w]
          BY <1>m, <1>p DEF PassoCond, Parola
        <4>2. PassoRw(t) \/ PassoMonitor(t) \/ PassoSem(t) => mem'[w] = mem[w]
          BY <1>p DEF PassoRw, PassoMonitor, PassoSem, Parola
        <4> QED  BY <2>3, <3>2, <4>1, <4>2 DEF Effetto, PassoSonno, PassoFuori, PassoSveglia, PassoChiama
      <3> QED  BY <3>1, <3>2
    <2>4. CASE Rimedia(th[t], w)
      <3>1. CASE PassoSonno(t)
        BY <1>f, <1>m, <2>4, <3>1 DEF PassoSonno, Resta, Muta, NelNucleo, Sonno, Rimedia
      <3>2. CASE PassoFuori(t)
        BY <2>4, <3>2 DEF PassoFuori, Resta, Muta, Rimedia
      <3>3. CASE PassoSveglia(t)
        <4>1. th[t].dove = w
          BY <2>4, <3>3 DEF PassoSveglia, Rimedia
        <4>2. x \in Dormienti(w)
          BY <1>2 DEF Dormienti
        <4>3. PICK u \in Dormienti(w) : th'[u].pc = "sveglio"
          BY <3>3, <4>1, <4>2 DEF PassoSveglia
        <4>4. u \in Fili /\ th'[u].dove = w
          BY <3>3, <4>3 DEF PassoSveglia, StessiRegistri, Dormienti
        <4> QED  BY <4>3, <4>4 DEF Rimedia
      <3>4. CASE PassoMutex(t)
        BY <1>m, <1>p, <2>4, <3>4 DEF PassoMutex, Parola, Resta, Muta, Rimedia
      <3>5. ~PassoCond(t) /\ ~PassoRw(t) /\ ~PassoMonitor(t) /\ ~PassoSem(t) /\ ~PassoChiama(t)
        BY <2>4 DEF PassoCond, PassoRw, PassoMonitor, PassoSem, PassoChiama, Rimedia
      <3> QED  BY <3>1, <3>2, <3>3, <3>4, <3>5 DEF Effetto
    <2> QED  BY <2>1, <2>2, <2>3, <2>4
  <1> QED  BY <1>1, <1>2

-----------------------------------------------------------------------------
(* Who sleeps in the lock of readers and writers.                          *)

\* Those asleep on the read-write lock have to wait, or are about to be woken.
LEMMA SonnoRwPasso ==
    ASSUME Inv1, SonnoRw, NEW t \in Fili, Effetto(t)
    PROVE  SonnoRw'
  <1>f. Posto(th[t]) /\ Ritorno(th[t]) /\ NelNucleo(th[t])
    BY DEF Inv1, Forma
  <1>m. th[t].m \in {"m", "rm"} /\ th[t].c \in {"c", "rc"}
    BY <1>f DEF Posto
  <1>p. "rc" \in Parole
    BY ParoleNote
  <1> DEFINE Chiama_tutti(r) == r.pc = "sveglia" /\ r.dove = "rc"
  <1> SUFFICES ASSUME NEW x \in Fili, th'[x].pc = "dorme", th'[x].dove = "rc"
               PROVE  th'[x].atteso = mem'.rc \/ \E u \in Fili : Chiama_tutti(th'[u])
    BY DEF SonnoRw, Dormienti, Svegliera
  <1>r. StessiRegistri(x)
    BY Addormentato
  <1>1. CASE th[x].pc # "dorme"
    <2>1. x = t /\ mem' = mem /\ mem[th[t].dove] = th[t].atteso
      BY <1>1, Addormentato
    <2> QED  BY <1>r, <2>1 DEF StessiRegistri
  <1>2. CASE th[x].pc = "dorme"
    <2>0. th'[x].atteso = th[x].atteso /\ th[x].dove = "rc"
      BY <1>r DEF StessiRegistri
    <2>1. th[x].atteso = mem.rc \/ \E u \in Fili : Chiama_tutti(th[u])
      BY <1>2, <2>0 DEF SonnoRw, Dormienti, Svegliera
    <2>2. ASSUME NEW u \in Fili, u # t, Chiama_tutti(th[u])  PROVE Chiama_tutti(th'[u])
      BY <2>2, AltriFermi DEF Altri, StessiRegistri, Inv1, TypeOK
    <2>3. CASE th[x].atteso = mem.rc
      <3>1. CASE PassoCond(t)
        BY <1>m, <1>p, <2>0, <2>3, <3>1 DEF PassoCond, Parola, Muta
      <3>2. PassoMutex(t) => mem'.rc = mem.rc
        BY <1>m, <1>p DEF PassoMutex, Parola
      <3>3. PassoRw(t) \/ PassoMonitor(t) \/ PassoSem(t) => mem'.rc = mem.rc
        BY <1>p DEF PassoRw, PassoMonitor, PassoSem, Parola
      <3>4. PassoSonno(t) \/ PassoFuori(t) \/ PassoSveglia(t) \/ PassoChiama(t) => mem'.rc = mem.rc
        BY DEF PassoSonno, PassoFuori, PassoSveglia, PassoChiama
      <3>5. PassoCond(t) \/ mem'.rc = mem.rc
        BY <3>2, <3>3, <3>4 DEF Effetto
      <3> QED  BY <2>0, <2>3, <3>1, <3>5
    <2>4. CASE Chiama_tutti(th[t])
      <3>1. CASE PassoSveglia(t)
        <4>1. th[t].dove = "rc" /\ th[t].op \in {"unl", "produci"} /\ th[t].c = "rc" /\ th[t].pc = "sveglia"
          BY <1>f, <1>m, <2>4 DEF NelNucleo
        <4>2. th[t].op # "produci"
          BY <1>f, <4>1 DEF Posto, Rw
        <4>3. th[t].atteso = 0
          BY <1>f, <1>m, <4>1, <4>2 DEF NelNucleo
        <4>4. x \in Dormienti(th[t].dove)
          BY <1>2, <2>0, <4>1 DEF Dormienti
        <4>5. th'[x].pc = "sveglio"
          BY <3>1, <4>3, <4>4 DEF PassoSveglia
        <4> QED  BY <4>5
      <3>2. CASE ~PassoSveglia(t)
        <4>1. PassoFuori(t)
          BY <2>4, <3>2 DEF Effetto, PassoSonno, PassoMutex, PassoCond, PassoRw, PassoMonitor, PassoSem,
                            PassoChiama
        <4>2. Chiama_tutti(th'[t])
          BY <2>4, <4>1 DEF PassoFuori, Resta, Muta
        <4> QED  BY <4>2
      <3> QED  BY <3>1, <3>2
    <2> HIDE DEF Chiama_tutti
    <2> QED  BY <2>1, <2>2, <2>3, <2>4
  <1> QED  BY <1>1, <1>2

-----------------------------------------------------------------------------
(* Who sleeps at the semaphore.                                            *)

GuardaS(r) ==
    \/ r.pc \in {"sveglia", "dormi", "sveglio"} /\ r.dove = "s"
    \/ r.pc \in {"sem prova", "sem scambia"}

\* Who will look at the semaphore again, by its registers.
LEMMA GuardanoSNote ==
    ASSUME Forma, Forma'
    PROVE  /\ GuardanoS = {u \in Fili : GuardaS(th[u])}
           /\ GuardanoS' = {u \in Fili : GuardaS(th'[u])}
  <1>1. \A u \in Fili : th[u].m # "s" /\ th'[u].m # "s"
    BY DEF Forma, Posto
  <1>2. GuardanoS = {u \in Fili : GuardaS(th[u])}
    BY <1>1 DEF GuardanoS, Svegliera, Torna, GuardaS
  <1>3. GuardanoS' = {u \in Fili : GuardaS(th'[u])}
    BY <1>1 DEF GuardanoS, Svegliera, Torna, GuardaS
  <1> QED  BY <1>2, <1>3

\* While somebody sleeps on the semaphore, there are not more units than threads that
\* will look at it.
LEMMA SonnoSPasso ==
    ASSUME Inv1, TypeOK', Forma', SonnoS, NEW t \in Fili, Effetto(t)
    PROVE  SonnoS'
  <1>f. Posto(th[t]) /\ Ritorno(th[t]) /\ NelNucleo(th[t])
    BY DEF Inv1, Forma
  <1>m. th[t].m \in {"m", "rm"} /\ th[t].c \in {"c", "rc"}
    BY <1>f DEF Posto
  <1>p. "s" \in Parole
    BY ParoleNote
  <1>i. mem.s \in Nat /\ mem'.s \in Nat
    BY DEF Inv1, TypeOK, Memoria
  <1>g. /\ GuardanoS = {u \in Fili : GuardaS(th[u])}
        /\ GuardanoS' = {u \in Fili : GuardaS(th'[u])}
    BY GuardanoSNote DEF Inv1
  <1>n. /\ GuardanoS \in SUBSET Fili /\ GuardanoS' \in SUBSET Fili
        /\ Cardinality(GuardanoS) \in Nat /\ Cardinality(GuardanoS') \in Nat
    BY <1>g, Quanti
  <1>a. GuardanoS \ {t} \subseteq GuardanoS'
    <2>1. ASSUME NEW u \in Fili, u # t, GuardaS(th[u])  PROVE GuardaS(th'[u])
      BY <2>1, AltriFermi DEF Altri, StessiRegistri, GuardaS, Inv1, TypeOK
    <2> QED  BY <1>g, <2>1
  <1>b. ASSUME GuardaS(th[t]) => GuardaS(th'[t])  PROVE Cardinality(GuardanoS) <= Cardinality(GuardanoS')
    <2>1. GuardanoS \subseteq GuardanoS'
      BY <1>a, <1>b, <1>g
    <2> QED  BY <1>n, <2>1, Cresce
  <1>z. mem'.s = 0 => mem'.s <= Cardinality(GuardanoS')
    BY <1>n
  <1> SUFFICES ASSUME NEW x \in Fili, th'[x].pc = "dorme", th'[x].dove = "s"
               PROVE  mem'.s <= Cardinality(GuardanoS')
    BY DEF SonnoS, Dormienti
  <1>1. CASE th[x].pc # "dorme"
    <2>1. th[t].dove = "s" /\ th[t].pc = "dormi" /\ mem' = mem /\ mem.s = th[t].atteso
      BY <1>1, Addormentato DEF StessiRegistri
    <2>2. th[t].atteso = 0
      BY <1>f, <1>m, <2>1 DEF NelNucleo, Sonno
    <2> QED  BY <1>z, <2>1, <2>2
  <1>2. CASE th[x].pc = "dorme"
    <2>1. x \in Dormienti("s")
      BY <1>2, Addormentato DEF StessiRegistri, Dormienti
    <2>2. mem.s <= Cardinality(GuardanoS)
      BY <2>1 DEF SonnoS
    <2>e. ASSUME mem'.s = mem.s, GuardaS(th[t]) => GuardaS(th'[t])
          PROVE  mem'.s <= Cardinality(GuardanoS')
      BY <1>b, <1>i, <1>n, <2>e, <2>2
    <2>3. CASE PassoSonno(t)
      <3>1. mem' = mem
        BY <2>3 DEF PassoSonno
      <3>2. CASE mem.s = 0
        BY <1>z, <3>1, <3>2
      <3>3. CASE mem.s # 0
        <4>1. GuardaS(th[t]) => GuardaS(th'[t])
          BY <1>f, <1>m, <2>3, <3>3 DEF PassoSonno, Resta, Muta, NelNucleo, Sonno, GuardaS
        <4> QED  BY <2>e, <3>1, <4>1
      <3> QED  BY <3>2, <3>3
    <2>4. CASE PassoFuori(t)
      <3>1. mem' = mem /\ (GuardaS(th[t]) => GuardaS(th'[t]))
        BY <2>4 DEF PassoFuori, Resta, Muta, GuardaS
      <3> QED  BY <2>e, <3>1
    <2>5. CASE PassoSveglia(t)
      <3>1. mem' = mem /\ th[t].pc = "sveglia"
        BY <2>5 DEF PassoSveglia
      <3>2. CASE th[t].dove # "s"
        <4>1. ~GuardaS(th[t])
          BY <3>1, <3>2 DEF GuardaS
        <4> QED  BY <2>e, <3>1, <4>1
      <3>3. CASE th[t].dove = "s"
        <4>1. PICK v \in Dormienti("s") : th'[v].pc = "sveglio"
          BY <2>1, <2>5, <3>3 DEF PassoSveglia
        <4>2. v \in Fili /\ th[v].pc = "dorme" /\ th'[v].dove = "s"
          BY <2>5, <4>1 DEF PassoSveglia, StessiRegistri, Dormienti
        <4>3. v \in GuardanoS' /\ v \notin GuardanoS
          BY <1>g, <4>1, <4>2 DEF GuardaS
        <4>4. Cardinality(GuardanoS) <= Cardinality(GuardanoS')
          BY <1>a, <1>n, <4>3, UnoPerUno
        <4> QED  BY <1>i, <1>n, <2>2, <3>1, <4>4
      <3> QED  BY <3>2, <3>3
    <2>6. CASE PassoSem(t)
      <3>1. CASE th[t].pc = "sem prova" /\ mem.s = 0
        <4>1. mem' = mem
          BY <2>6, <3>1 DEF PassoSem
        <4> QED  BY <1>z, <3>1, <4>1
      <3>2. CASE th[t].pc = "sem prova" /\ mem.s # 0
        <4>1. mem' = mem /\ th'[t].pc = "sem scambia"
          BY <2>6, <3>2 DEF PassoSem, Muta
        <4> QED  BY <2>e, <4>1 DEF GuardaS
      <3>3. CASE th[t].pc = "sem scambia" /\ mem'.s = mem.s - 1
        <4>1. Cardinality(GuardanoS) <= Cardinality(GuardanoS') + 1
          BY <1>a, <1>n, PerdeUno
        <4>2. \A k, a, b \in Nat : k <= a /\ a <= b + 1 => k - 1 <= b
          OBVIOUS
        <4> QED  BY <1>i, <1>n, <2>2, <3>3, <4>1, <4>2
      <3>4. CASE th[t].pc = "sem scambia" /\ mem' = mem /\ th'[t].pc = "sem prova"
        BY <2>e, <3>4 DEF GuardaS
      <3>5. CASE th[t].pc = "sem lascia"
        <4>1. mem'.s = mem.s + 1 /\ th'[t].pc = "sveglia" /\ th'[t].dove = "s"
          BY <2>6, <3>5 DEF PassoSem, Parola, Muta
        <4>2. t \in GuardanoS' /\ t \notin GuardanoS
          BY <1>g, <3>5, <4>1 DEF GuardaS
        <4>3. GuardanoS \subseteq GuardanoS'
          BY <1>a, <4>2
        <4>4. Cardinality(GuardanoS) + 1 <= Cardinality(GuardanoS')
          BY <1>n, <4>2, <4>3, CresceDiUno
        <4> QED  BY <1>i, <1>n, <2>2, <4>1, <4>4
      <3>6. \/ th[t].pc \in {"sem prova", "sem lascia"}
            \/ th[t].pc = "sem scambia" /\ mem'.s = mem.s - 1
            \/ th[t].pc = "sem scambia" /\ mem' = mem /\ th'[t].pc = "sem prova"
        BY <2>6 DEF PassoSem, Parola, Muta
      <3> QED  BY <3>1, <3>2, <3>3, <3>4, <3>5, <3>6
    <2>7. CASE PassoMutex(t) \/ PassoCond(t) \/ PassoRw(t) \/ PassoMonitor(t) \/ PassoChiama(t)
      <3>1. PassoMutex(t) => mem'.s = mem.s
        BY <1>m, <1>p DEF PassoMutex, Parola
      <3>2. PassoCond(t) => mem'.s = mem.s
        BY <1>m, <1>p DEF PassoCond, Parola
      <3>3. PassoRw(t) \/ PassoMonitor(t) \/ PassoChiama(t) => mem'.s = mem.s
        BY <1>p DEF PassoRw, PassoMonitor, PassoChiama, Parola
      <3>4. ~GuardaS(th[t])
        BY <2>7 DEF PassoMutex, PassoCond, PassoRw, PassoMonitor, PassoChiama, GuardaS
      <3> QED  BY <2>e, <2>7, <3>1, <3>2, <3>3, <3>4
    <2> QED  BY <2>3, <2>4, <2>5, <2>6, <2>7 DEF Effetto
  <1> QED  BY <1>1, <1>2

-----------------------------------------------------------------------------
(* Who sleeps in the monitor.                                              *)

\* A consumer on its way to sleep has nothing to take while it holds the lock.
LEMMA NienteRobaPasso ==
    ASSUME Inv1, Lucchetto, NienteRoba, NEW t \in Fili, Effetto(t)
    PROVE  NienteRoba'
  <1>f. Posto(th[t]) /\ Ritorno(th[t]) /\ NelNucleo(th[t])
    BY DEF Inv1, Forma
  <1>m. th[t].m \in {"m", "rm"} /\ th[t].c \in {"c", "rc"}
    BY <1>f DEF Posto
  <1>p. "roba" \in Parole
    BY ParoleNote
  <1>1. ASSUME NEW u \in Fili, u # t, Rinuncia(th'[u])  PROVE mem'.roba = 0
    <2>1. Rinuncia(th[u])
      BY <1>1, AltriFermi DEF Altri, StessiRegistri, Rinuncia, Inv1, TypeOK
    <2>2. mem.roba = 0
      BY <2>1 DEF NienteRoba
    <2>3. Ha(th[u]) /\ th[u].m = "m"
      BY <2>1 DEF Rinuncia, Ha, Dentro_lucchetto, Inv1, Forma, Posto, Rw
    <2>4. CASE PassoMonitor(t)
      <3>2. Ha(th[t]) /\ th[t].m = "m"
        BY <1>f, <2>4 DEF PassoMonitor, Ha, Dentro_lucchetto, Posto, Rw
      <3> QED  BY <1>1, <2>3, <3>2 DEF Lucchetto
    <2>5. CASE ~PassoMonitor(t)
      <3>1. PassoMutex(t) => mem'.roba = mem.roba
        BY <1>m, <1>p DEF PassoMutex, Parola
      <3>2. PassoCond(t) => mem'.roba = mem.roba
        BY <1>m, <1>p DEF PassoCond, Parola
      <3>3. PassoRw(t) \/ PassoSem(t) => mem'.roba = mem.roba
        BY <1>p DEF PassoRw, PassoSem, Parola
      <3>4. PassoSonno(t) \/ PassoFuori(t) \/ PassoSveglia(t) \/ PassoChiama(t) => mem'.roba = mem.roba
        BY DEF PassoSonno, PassoFuori, PassoSveglia, PassoChiama
      <3> QED  BY <2>2, <2>5, <3>1, <3>2, <3>3, <3>4 DEF Effetto
    <2> QED  BY <2>4, <2>5
  <1>2. ASSUME Rinuncia(th'[t])  PROVE mem'.roba = 0
    <2>0. Rinuncia(th[t]) => mem.roba = 0
      BY DEF NienteRoba
    <2>1. CASE PassoSonno(t)
      BY <1>f, <1>2, <2>1 DEF PassoSonno, Resta, Muta, NelNucleo, Sonno, Rinuncia
    <2>2. CASE PassoFuori(t)
      BY <1>2, <2>0, <2>2 DEF PassoFuori, Resta, Muta, Rinuncia
    <2>3. CASE PassoSveglia(t)
      BY <1>f, <1>2, <2>3 DEF PassoSveglia, StessiRegistri, NelNucleo, Rinuncia
    <2>4. CASE PassoMutex(t)
      BY <1>f, <1>2, <2>4 DEF PassoMutex, Resta, Muta, Ritorno, VersoLucchetto, Dentro, Rw, Monitor, Rinuncia
    <2>5. CASE PassoCond(t)
      BY <1>2, <2>0, <2>5 DEF PassoCond, Resta, Muta, Prova, Rinuncia
    <2>6. CASE PassoRw(t)
      BY <1>f, <1>2, <2>6 DEF PassoRw, Resta, Esce, Muta, Posto, Rinuncia
    <2>7. CASE PassoMonitor(t)
      BY <1>2, <2>7 DEF PassoMonitor, Resta, Esce, Muta, Rinuncia
    <2>8. CASE PassoSem(t) \/ PassoChiama(t)
      BY <1>2, <2>8 DEF PassoSem, PassoChiama, Resta, Muta, Rinuncia
    <2> QED  BY <2>1, <2>2, <2>3, <2>4, <2>5, <2>6, <2>7, <2>8 DEF Effetto
  <1>3. \A u \in Fili : Rinuncia(th'[u]) => mem'.roba = 0
    BY <1>1, <1>2
  <1> QED  BY <1>3 DEF NienteRoba, Rinuncia

\* The condition of the monitor counts the signals of the producers.
LEMMA ContaSegnali ==
    ASSUME Inv1, NEW t \in Fili, Effetto(t)
    PROVE  \/ mem'.c = mem.c
           \/ mem'.c = mem.c + 1 /\ th[t].pc = "segnala" /\ th[t].op = "produci" /\ PassoCond(t)
  <1>f. Posto(th[t])
    BY DEF Inv1, Forma
  <1>m. th[t].m \in {"m", "rm"} /\ th[t].c \in {"c", "rc"}
    BY <1>f DEF Posto
  <1>p. "c" \in Parole
    BY ParoleNote
  <1>1. PassoMutex(t) => mem'.c = mem.c
    BY <1>m, <1>p DEF PassoMutex, Parola
  <1>2. PassoCond(t) => mem'.c = mem.c \/ (mem'.c = mem.c + 1 /\ th[t].pc = "segnala" /\ th[t].c = "c")
    BY <1>m, <1>p DEF PassoCond, Parola
  <1>3. th[t].pc = "segnala" /\ th[t].c = "c" => th[t].op = "produci"
    BY <1>f DEF Posto, Rw
  <1>4. PassoRw(t) \/ PassoMonitor(t) \/ PassoSem(t) => mem'.c = mem.c
    BY <1>p DEF PassoRw, PassoMonitor, PassoSem, Parola
  <1>5. PassoSonno(t) \/ PassoFuori(t) \/ PassoSveglia(t) \/ PassoChiama(t) => mem'.c = mem.c
    BY DEF PassoSonno, PassoFuori, PassoSveglia, PassoChiama
  <1> QED  BY <1>1, <1>2, <1>3, <1>4, <1>5 DEF Effetto

\* Nobody is made to sleep by what another thread does.
LEMMA DormiraAltri ==
    ASSUME Inv1, Lette, NEW t \in Fili, Effetto(t), NEW u \in Fili, u # t
    PROVE  /\ DopoLascia(th'[u]) => DopoLascia(th[u]) /\ Letto(th'[u]) = Letto(th[u])
           /\ Dormira(u)' => Dormira(u)
  <1>1. /\ StessiRegistri(u)
        /\ th'[u].pc = th[u].pc \/ (th[u].pc = "dorme" /\ th'[u].pc = "sveglio")
    BY AltriFermi DEF Altri, Inv1, TypeOK
  <1>2. DopoLascia(th'[u]) => DopoLascia(th[u]) /\ Letto(th'[u]) = Letto(th[u])
    BY <1>1 DEF StessiRegistri, DopoLascia, Letto
  <1>3. /\ scuoti' = scuoti \/ scuoti' = scuoti \ {t} \/ scuoti' = scuoti \cup {t}
    BY DEF Effetto, PassoSonno, PassoFuori, PassoSveglia, PassoMutex, PassoCond, PassoRw,
           PassoMonitor, PassoSem, PassoChiama
  <1>4. u \in scuoti <=> u \in scuoti'
    BY <1>3
  <1>5. ASSUME Dormira(u)'  PROVE Dormira(u)
    <2>1. DopoLascia(th'[u]) /\ Letto(th'[u]) = mem'.c /\ u \notin scuoti'
      BY <1>5 DEF Dormira, DopoLascia, Letto
    <2>2. DopoLascia(th[u]) /\ Letto(th[u]) = mem'.c /\ u \notin scuoti
      BY <1>2, <1>4, <2>1
    <2>3. Letto(th[u]) <= mem.c
      BY <2>2 DEF Lette
    <2>4. mem.c \in Nat
      BY DEF Inv1, TypeOK, Memoria
    <2>5. mem'.c = mem.c
      BY <2>2, <2>3, <2>4, ContaSegnali
    <2> QED  BY <2>2, <2>5 DEF Dormira
  <1> QED  BY <1>2, <1>5

\* t is past its release of the lock: it was already, or it leaves it now, with
\* what it has read of the condition.
LEMMA DopoLasciaFilo ==
    ASSUME Inv1, NEW t \in Fili, Effetto(t), DopoLascia(th'[t])
    PROVE  /\ mem'.c = mem.c /\ mem'.roba = mem.roba
           /\ \/ DopoLascia(th[t]) /\ Letto(th'[t]) = Letto(th[t])
              \/ /\ Rinuncia(th[t]) /\ th[t].pc = "lascia" /\ Letto(th'[t]) = th[t].visto
                 /\ PassoMutex(t)
  <1>f. Posto(th[t]) /\ Ritorno(th[t]) /\ NelNucleo(th[t])
    BY DEF Inv1, Forma
  <1>m. th[t].m \in {"m", "rm"} /\ th[t].c \in {"c", "rc"}
    BY <1>f DEF Posto
  <1>p. "c" \in Parole /\ "roba" \in Parole
    BY ParoleNote
  <1>1. CASE PassoSonno(t)
    BY <1>f, <1>1 DEF PassoSonno, Resta, Muta, NelNucleo, Sonno, DopoLascia
  <1>2. CASE PassoFuori(t)
    BY <1>2 DEF PassoFuori, Resta, Muta, DopoLascia, Letto
  <1>3. CASE PassoSveglia(t)
    <2>1. StessiRegistri(t) /\ th[t].pc = "sveglia" /\ th'[t].pc = th[t].dopo /\ mem' = mem
      BY <1>3 DEF PassoSveglia
    <2> QED  BY <1>f, <2>1 DEF StessiRegistri, NelNucleo, DopoLascia, Letto
  <1>4. CASE PassoMutex(t)
    <2>1. mem'.c = mem.c /\ mem'.roba = mem.roba
      BY <1>m, <1>p, <1>4 DEF PassoMutex, Parola
    <2>2. th'[t].op = "consuma" /\ th'[t].op = th[t].op /\ th[t].m = "m"
      BY <1>f, <1>4 DEF PassoMutex, Resta, Muta, DopoLascia, Posto, Rw
    <2>3. th[t].pc = "lascia" /\ th[t].poi = "aspetta qui"
      BY <1>f, <1>4, <2>2 DEF PassoMutex, Resta, Muta, Ritorno, VersoLucchetto, Dentro, DopoLascia
    <2>4. th'[t].pc # "dormi" /\ th'[t].visto = th[t].visto
      BY <1>4, <2>3 DEF PassoMutex, Resta, Muta
    <2> QED  BY <1>4, <2>1, <2>2, <2>3, <2>4 DEF Rinuncia, Letto
  <1>5. CASE PassoCond(t)
    <2>1. th[t].op = "consuma" /\ th[t].pc = "aspetta qui"
      BY <1>f, <1>5 DEF PassoCond, Resta, Muta, Prova, DopoLascia, Posto
    <2> QED  BY <1>5, <2>1 DEF PassoCond, Muta, DopoLascia, Letto
  <1>6. ~PassoRw(t) /\ ~PassoMonitor(t) /\ ~PassoSem(t) /\ ~PassoChiama(t)
    <2>1. ~PassoRw(t) /\ ~PassoMonitor(t)
      BY DEF PassoRw, PassoMonitor, Resta, Esce, Muta, DopoLascia
    <2>2. ~PassoSem(t)
      BY <1>f DEF PassoSem, Resta, Muta, DopoLascia, Posto
    <2>3. ~PassoChiama(t)
      BY DEF PassoChiama, DopoLascia
    <2> QED  BY <2>1, <2>2, <2>3
  <1> QED  BY <1>1, <1>2, <1>3, <1>4, <1>5, <1>6 DEF Effetto

\* It will sleep: it would have, or it leaves the lock.
LEMMA DormiraFilo ==
    ASSUME Inv1, NEW t \in Fili, Effetto(t), Dormira(t)'
    PROVE  Dormira(t) \/ (Rinuncia(th[t]) /\ th[t].pc = "lascia" /\ mem'.roba = mem.roba)
  <1>1. DopoLascia(th'[t]) /\ Letto(th'[t]) = mem'.c /\ t \notin scuoti'
    BY DEF Dormira, DopoLascia, Letto
  <1>2. CASE DopoLascia(th[t]) /\ Letto(th'[t]) = Letto(th[t])
    <2>1. t \notin scuoti
      <3>1. CASE PassoSonno(t)
        <4>1. NelNucleo(th[t])
          BY DEF Inv1, Forma
        <4> QED  BY <1>1, <3>1, <4>1 DEF PassoSonno, NelNucleo, Sonno, Resta, Muta, DopoLascia
      <3>2. ~PassoSonno(t) => scuoti \subseteq scuoti'
        BY DEF Effetto, PassoFuori, PassoSveglia, PassoMutex, PassoCond, PassoRw, PassoMonitor, PassoSem,
               PassoChiama
      <3> QED  BY <1>1, <3>1, <3>2
    <2> QED  BY <1>1, <1>2, <2>1, DopoLasciaFilo DEF Dormira
  <1> QED  BY <1>1, <1>2, DopoLasciaFilo

\* What a consumer read of the condition is not ahead of it.
LEMMA LettePasso ==
    ASSUME Inv1, TypeOK', Lucchetto, Lette, NEW t \in Fili, Effetto(t)
    PROVE  Lette'
  <1>f. Posto(th[t]) /\ Ritorno(th[t]) /\ NelNucleo(th[t])
    BY DEF Inv1, Forma
  <1>i. /\ mem.c \in Nat /\ mem'.c \in Nat
        /\ \A u \in Fili : /\ th[u].visto \in Nat /\ th[u].atteso \in Nat /\ Letto(th[u]) \in Nat
                            /\ th'[u].visto \in Nat /\ th'[u].atteso \in Nat /\ Letto(th'[u]) \in Nat
    BY DEF Inv1, TypeOK, Memoria, Registri, Letto
  <1>c. mem.c <= mem'.c
    BY <1>i, ContaSegnali
  <1>1. ASSUME NEW u \in Fili, Rinuncia(th'[u]), th'[u].pc = "lascia"  PROVE th'[u].visto <= mem'.c
    <2>1. CASE u # t
      <3>1. Rinuncia(th[u]) /\ th[u].pc = "lascia" /\ th[u].visto = th'[u].visto
        BY <1>1, <2>1, AltriFermi DEF Altri, StessiRegistri, Rinuncia, Inv1, TypeOK
      <3>2. th[u].visto <= mem.c
        BY <3>1 DEF Lette
      <3> QED  BY <1>i, <1>c, <3>1, <3>2
    <2>2. CASE u = t
      <3>1. \/ Rinuncia(th[t]) /\ th[t].pc = "lascia" /\ th'[t].visto = th[t].visto
            \/ th[t].pc = "aspetta" /\ th'[t].visto = mem[th[t].c] /\ th[t].op = "consuma"
        <4>1. CASE PassoSonno(t)
          BY <1>f, <1>1, <2>2, <4>1 DEF PassoSonno, Resta, Muta, NelNucleo, Sonno, Rinuncia
        <4>2. CASE PassoFuori(t)
          BY <1>1, <2>2, <4>2 DEF PassoFuori, Resta, Muta, Rinuncia
        <4>3. CASE PassoSveglia(t)
          BY <1>f, <1>1, <2>2, <4>3 DEF PassoSveglia, StessiRegistri, NelNucleo, Rinuncia
        <4>4. CASE PassoMutex(t)
          BY <1>f, <1>1, <2>2, <4>4 DEF PassoMutex, Resta, Muta, Ritorno, VersoLucchetto, Dentro, Rw, Monitor, Rinuncia
        <4>5. CASE PassoCond(t)
          BY <1>1, <2>2, <4>5 DEF PassoCond, Resta, Muta, Prova, Rinuncia
        <4>6. CASE PassoRw(t) \/ PassoMonitor(t)
          BY <1>1, <2>2, <4>6 DEF PassoRw, PassoMonitor, Resta, Esce, Muta, Rinuncia
        <4>7. CASE PassoSem(t) \/ PassoChiama(t)
          BY <1>1, <2>2, <4>7 DEF PassoSem, PassoChiama, Resta, Muta, Rinuncia
        <4> QED  BY <4>1, <4>2, <4>3, <4>4, <4>5, <4>6, <4>7 DEF Effetto
      <3>2. CASE Rinuncia(th[t]) /\ th[t].pc = "lascia" /\ th'[t].visto = th[t].visto
        <4>1. th[t].visto <= mem.c
          BY <3>2 DEF Lette
        <4> QED  BY <1>i, <1>c, <2>2, <3>2, <4>1
      <3>3. CASE th[t].pc = "aspetta" /\ th'[t].visto = mem[th[t].c] /\ th[t].op = "consuma"
        <4>1. th[t].c = "c"
          BY <1>f, <3>3 DEF Posto, Rw
        <4> QED  BY <1>i, <1>c, <2>2, <3>3, <4>1
      <3> QED  BY <3>1, <3>2, <3>3
    <2> QED  BY <2>1, <2>2
  <1>2. ASSUME NEW u \in Fili, DopoLascia(th'[u])  PROVE Letto(th'[u]) <= mem'.c
    <2>1. CASE u # t
      <3>1. DopoLascia(th[u]) /\ Letto(th'[u]) = Letto(th[u])
        BY <1>2, <2>1, DormiraAltri
      <3>2. Letto(th[u]) <= mem.c
        BY <3>1 DEF Lette
      <3> QED  BY <1>i, <1>c, <3>1, <3>2
    <2>2. CASE u = t
      <3>1. Letto(th'[t]) <= mem.c
        BY <1>2, <2>2, DopoLasciaFilo DEF Lette
      <3> QED  BY <1>i, <1>c, <2>2, <3>1
    <2> QED  BY <2>1, <2>2
  <1>3. ASSUME NEW v \in Fili, NEW u \in Fili, Dormira(u)',
               th'[v].op = "produci", th'[v].pc = "sveglia", th'[v].dove = "c"
        PROVE  FALSE
    <2>1. CASE th[v].op = "produci" /\ th[v].pc = "sveglia" /\ th[v].dove = "c"
      <3>1. ~Dormira(u)
        BY <2>1 DEF Lette
      <3>2. u = t /\ Rinuncia(th[t]) /\ th[t].pc = "lascia"
        BY <1>3, <3>1, DormiraAltri, DormiraFilo
      <3>3. Ha(th[t]) /\ th[t].m = "m"
        BY <1>f, <3>2 DEF Rinuncia, Ha, Dentro_lucchetto, Posto, Rw
      <3>4. Ha(th[v]) /\ th[v].m = "m"
        BY <2>1 DEF Inv1, Forma, NelNucleo, Posto, Rw, Ha
      <3>5. v = t
        BY <3>3, <3>4 DEF Lucchetto
      <3> QED  BY <2>1, <3>2, <3>5
    <2>2. CASE ~(th[v].op = "produci" /\ th[v].pc = "sveglia" /\ th[v].dove = "c")
      <3>1. v = t
        BY <1>3, <2>2, AltriFermi DEF Altri, StessiRegistri, Inv1, TypeOK
      <3>2. th[t].pc = "segnala" /\ th[t].op = "produci" /\ PassoCond(t)
        <4>1. ~PassoSonno(t) /\ ~PassoFuori(t) /\ ~PassoSveglia(t)
          BY <1>f, <1>3, <2>2, <3>1 DEF PassoSonno, PassoFuori, PassoSveglia, StessiRegistri, Resta, Muta, NelNucleo, Sonno
        <4>2. ~PassoMutex(t)
          BY <1>f, <1>3, <3>1 DEF PassoMutex, Resta, Muta, Posto, Ritorno, VersoLucchetto, Dentro, Rw, Monitor
        <4>3. ~PassoRw(t) /\ ~PassoMonitor(t) /\ ~PassoSem(t) /\ ~PassoChiama(t)
          BY <1>3, <3>1 DEF PassoRw, PassoMonitor, PassoSem, PassoChiama, Resta, Esce, Muta
        <4>4. PassoCond(t)
          BY <4>1, <4>2, <4>3 DEF Effetto
        <4> QED  BY <1>3, <3>1, <4>4 DEF PassoCond, Resta, Muta, Prova
      <3>3. mem'.c = mem.c + 1
        <4>1. th[t].c = "c" /\ "c" \in Parole
          BY <1>f, <3>2, ParoleNote DEF Posto, Rw
        <4> QED  BY <3>2, <4>1 DEF PassoCond, Parola
      <3>4. u # t
        BY <1>3, <3>1 DEF Dormira, DopoLascia
      <3>5. DopoLascia(th'[u]) /\ Letto(th'[u]) = mem'.c
        BY <1>3 DEF Dormira, DopoLascia, Letto
      <3>6. Letto(th'[u]) <= mem.c
        BY <3>4, <3>5, DormiraAltri DEF Lette
      <3> QED  BY <1>i, <3>3, <3>5, <3>6
    <2> QED  BY <2>1, <2>2
  <1>4. \A u \in Fili : Rinuncia(th'[u]) /\ th'[u].pc = "lascia" => th'[u].visto <= mem'.c
    BY <1>1
  <1>5. \A u \in Fili : DopoLascia(th'[u]) => Letto(th'[u]) <= mem'.c
    BY <1>2
  <1>6. \A v, u \in Fili : th'[v].op = "produci" /\ th'[v].pc = "sveglia" /\ th'[v].dove = "c" => ~Dormira(u)'
    BY <1>3
  <1> QED  BY <1>4, <1>5, <1>6 DEF Lette, Rinuncia, DopoLascia, Letto, Dormira

\* Nothing of the monitor changes, and t goes on looking.
Continua(t) == mem'.roba = mem.roba /\ (Guarda(t) => Guarda(t)') /\ (Aspettante(t)' => Aspettante(t))

\* What a step of t does to the things, and to who looks for them.
LEMMA GuardaFilo ==
    ASSUME Inv1, NienteRoba, NEW t \in Fili, Effetto(t)
    PROVE  \/ Continua(t)
           \/ mem'.roba = 0
           \/ mem'.roba = mem.roba + 1 /\ ~Guarda(t) /\ Guarda(t)' /\ ~Aspettante(t)'
           \/ mem'.roba = mem.roba - 1 /\ ~Aspettante(t)'
           \/ PassoSveglia(t) /\ th[t].dove = "c" /\ th[t].op = "produci"
  <1>f. Posto(th[t]) /\ Ritorno(th[t]) /\ NelNucleo(th[t])
    BY DEF Inv1, Forma
  <1>m. th[t].m \in {"m", "rm"} /\ th[t].c \in {"c", "rc"}
    BY <1>f DEF Posto
  <1>p. "roba" \in Parole /\ "c" \in Parole
    BY ParoleNote
  <1>w. ASSUME ~(Dormira(t)' /\ ~Dormira(t))
        PROVE  th'[t].pc # "dorme" => (Aspettante(t)' => Aspettante(t))
    BY <1>w DEF Aspettante, InSonnoC
  <1>d. Dormira(t)' => Dormira(t) \/ mem'.roba = 0
    BY DormiraFilo DEF NienteRoba
  <1> SUFFICES ASSUME Dormira(t)' => Dormira(t)
               PROVE  \/ Continua(t)
                      \/ mem'.roba = 0
                      \/ mem'.roba = mem.roba + 1 /\ ~Guarda(t) /\ Guarda(t)' /\ ~Aspettante(t)'
                      \/ mem'.roba = mem.roba - 1 /\ ~Aspettante(t)'
                      \/ PassoSveglia(t) /\ th[t].dove = "c" /\ th[t].op = "produci"
    BY <1>d
  <1>1. CASE PassoSonno(t)
    <2>1. mem' = mem
      BY <1>1 DEF PassoSonno
    <2>2. Guarda(t) => Guarda(t)'
      <3>1. th'[t].op = th[t].op /\ th'[t].dove = th[t].dove
        BY <1>1 DEF PassoSonno, Resta, Muta
      <3>2. CASE th'[t].pc = "dorme"
        <4>1. th[t].pc = "dormi" /\ mem[th[t].dove] = th[t].atteso /\ t \notin scuoti
          BY <1>f, <1>1, <3>2 DEF PassoSonno, Resta, Muta, NelNucleo, Sonno
        <4> QED  BY <3>1, <3>2, <4>1 DEF Guarda, Dormira, DopoLascia, Letto, InSonnoC
      <3>3. CASE th'[t].pc # "dorme"
        <4>1. th'[t].pc \in {"riprendi", "aspettato", "sem prova", "sveglio"}
          BY <1>f, <1>1, <3>3 DEF PassoSonno, Resta, Muta, NelNucleo, Sonno
        <4>2. th[t].pc # "segnala" /\ th[t].pc # "sveglia"
          BY <1>1 DEF PassoSonno
        <4> QED  BY <3>1, <4>1, <4>2 DEF Guarda, Dormira, DopoLascia, InSonnoC
      <3> QED  BY <3>2, <3>3
    <2>3. Aspettante(t)' => Aspettante(t)
      <3>1. th'[t].op = th[t].op /\ th'[t].dove = th[t].dove
        BY <1>1 DEF PassoSonno, Resta, Muta
      <3>2. CASE th'[t].pc = "dorme"
        <4>1. th[t].pc = "dormi" /\ mem[th[t].dove] = th[t].atteso /\ t \notin scuoti
          BY <1>f, <1>1, <3>2 DEF PassoSonno, Resta, Muta, NelNucleo, Sonno
        <4> QED  BY <3>1, <3>2, <4>1 DEF Aspettante, Dormira, DopoLascia, Letto, InSonnoC
      <3> QED  BY <1>w, <3>2
    <2> QED  BY <2>1, <2>2, <2>3 DEF Continua
  <1>2. CASE PassoFuori(t)
    <2>1. /\ mem' = mem /\ StessiRegistri(t)
          /\ th'[t].pc = th[t].pc \/ (th[t].pc = "dorme" /\ th'[t].pc = "sveglio")
      BY <1>2 DEF PassoFuori, Resta, Muta, StessiRegistri
    <2>2. Guarda(t) => Guarda(t)'
      BY <2>1 DEF StessiRegistri, Guarda, InSonnoC, Dormira, DopoLascia
    <2>3. Aspettante(t)' => Aspettante(t)
      BY <2>1 DEF StessiRegistri, Aspettante, InSonnoC
    <2> QED  BY <2>1, <2>2, <2>3 DEF Continua
  <1>3. CASE PassoSveglia(t)
    <2>1. StessiRegistri(t) /\ th[t].pc = "sveglia" /\ th'[t].pc = th[t].dopo /\ mem' = mem
      BY <1>3 DEF PassoSveglia
    <2>2. CASE th[t].dove # "c"
      <3>1. Guarda(t) => Guarda(t)'
        BY <1>f, <2>1, <2>2 DEF StessiRegistri, NelNucleo, Posto, Rw, Guarda, InSonnoC
      <3>2. th'[t].pc # "dorme"
        BY <1>f, <2>1 DEF NelNucleo
      <3> QED  BY <1>w, <2>1, <3>1, <3>2 DEF Continua
    <2>3. CASE th[t].dove = "c"
      <3>1. th[t].op = "produci"
        BY <1>f, <1>m, <2>1, <2>3 DEF NelNucleo, Posto, Rw
      <3> QED  BY <1>3, <2>3, <3>1
    <2> QED  BY <2>2, <2>3
  <1>4. CASE PassoMutex(t)
    <2>1. mem'.roba = mem.roba
      BY <1>m, <1>p, <1>4 DEF PassoMutex, Parola
    <2>2. th'[t].op = th[t].op /\ th'[t].pc # "dorme"
      BY <1>f, <1>4 DEF PassoMutex, Resta, Muta, Ritorno, VersoLucchetto, Dentro, Rw, Monitor
    <2>3. Guarda(t) => Guarda(t)'
      <3>1. CASE th[t].pc = "lascia"
        BY <3>1 DEF Guarda
      <3>2. CASE th[t].pc # "lascia" /\ th[t].op = "consuma"
        <4>1. th'[t].pc \in {"dormi", "riprendi", "co prova", "annulla"}
          BY <1>f, <1>4, <3>2 DEF PassoMutex, Resta, Muta, Ritorno, VersoLucchetto, Dentro
        <4>2. th'[t].pc = "dormi" => th'[t].dove # "c"
          BY <1>f, <1>m, <1>4, <3>2 DEF PassoMutex, Resta, Muta, Ritorno, VersoLucchetto, Dentro
        <4> QED  BY <2>2, <3>2, <4>1, <4>2 DEF Guarda, InSonnoC, Dormira, DopoLascia
      <3>3. CASE th[t].pc # "lascia" /\ th[t].op # "consuma"
        BY <1>4, <3>3 DEF PassoMutex, Guarda
      <3> QED  BY <3>1, <3>2, <3>3
    <2> QED  BY <1>w, <2>1, <2>2, <2>3 DEF Continua
  <1>5. CASE PassoCond(t)
    <2>1. mem'.roba = mem.roba
      BY <1>m, <1>p, <1>5 DEF PassoCond, Parola
    <2>2. th'[t].op = th[t].op /\ th'[t].pc # "dorme"
      BY <1>5 DEF PassoCond, Resta, Muta, Prova
    <2>3. CASE th[t].pc = "aspetta" /\ th[t].op = "consuma"
      <3>1. mem.roba = 0
        BY <2>3 DEF NienteRoba, Rinuncia
      <3> QED  BY <2>1, <3>1
    <2>4. CASE ~(th[t].pc = "aspetta" /\ th[t].op = "consuma")
      <3>1. Guarda(t) => Guarda(t)'
        <4>1. CASE th[t].op = "consuma"
          <5>1. th'[t].pc \in {"dormi", "prendi", "co prova"}
            BY <1>f, <1>5, <2>4, <4>1 DEF PassoCond, Resta, Muta, Prova, Posto
          <5> QED  BY <2>2, <4>1, <5>1 DEF Guarda, InSonnoC
        <4>2. CASE th[t].op = "produci"
          <5>1. th[t].pc = "segnala" /\ th[t].c = "c"
            BY <1>f, <1>5, <4>2 DEF PassoCond, Posto, Pazienti, Rw
          <5>2. th'[t].pc = "sveglia" /\ th'[t].dove = "c"
            BY <1>5, <5>1 DEF PassoCond, Muta
          <5> QED  BY <2>2, <4>2, <5>2 DEF Guarda
        <4>3. CASE th[t].op \notin {"consuma", "produci"}
          BY <4>3 DEF Guarda
        <4> QED  BY <4>1, <4>2, <4>3
      <3> QED  BY <1>w, <2>1, <2>2, <3>1 DEF Continua
    <2> QED  BY <2>3, <2>4
  <1>6. CASE PassoRw(t)
    <2>1. mem'.roba = mem.roba
      BY <1>p, <1>6 DEF PassoRw, Parola
    <2>2. ~Guarda(t) /\ th'[t].pc # "dorme"
      BY <1>f, <1>6 DEF PassoRw, Resta, Esce, Muta, Posto, Guarda
    <2> QED  BY <1>w, <2>1, <2>2 DEF Continua
  <1>7. CASE PassoMonitor(t)
    <2>1. th'[t].op = th[t].op /\ th'[t].pc \in {"co entra", "aspetta", "lascia", "segnala"}
      BY <1>7 DEF PassoMonitor, Resta, Esce, Muta
    <2>2. ~Aspettante(t)'
      BY <2>1 DEF Aspettante, InSonnoC, Dormira, DopoLascia
    <2>3. CASE th[t].pc = "co prova"
      <3>1. mem' = mem /\ th[t].op = "consuma" /\ th'[t].pc \in {"co entra", "aspetta"}
        BY <1>f, <1>7, <2>3 DEF PassoMonitor, Resta, Muta, Posto
      <3>2. Guarda(t)'
        BY <2>1, <3>1 DEF Guarda, InSonnoC, Dormira, DopoLascia
      <3> QED  BY <2>2, <3>1, <3>2 DEF Continua
    <2>4. CASE th[t].pc = "co entra"
      <3>1. mem'.roba = 0 \/ mem'.roba = mem.roba - 1
        BY <1>7, <2>4 DEF PassoMonitor, Parola
      <3> QED  BY <2>2, <3>1
    <2>5. CASE th[t].pc = "produce"
      <3>1. mem'.roba = mem.roba + 1 /\ th[t].op = "produci" /\ th'[t].pc = "segnala"
        BY <1>f, <1>7, <2>5 DEF PassoMonitor, Parola, Resta, Muta, Posto
      <3>2. ~Guarda(t) /\ Guarda(t)'
        BY <2>1, <2>5, <3>1 DEF Guarda
      <3> QED  BY <2>2, <3>1, <3>2
    <2> QED  BY <1>7, <2>3, <2>4, <2>5 DEF PassoMonitor
  <1>8. CASE PassoSem(t)
    <2>1. mem'.roba = mem.roba
      BY <1>p, <1>8 DEF PassoSem, Parola
    <2>2. ~Guarda(t) /\ th'[t].pc # "dorme"
      BY <1>f, <1>8 DEF PassoSem, Resta, Muta, Posto, Guarda
    <2> QED  BY <1>w, <2>1, <2>2 DEF Continua
  <1>9. CASE PassoChiama(t)
    <2>1. mem'.roba = mem.roba /\ ~Guarda(t) /\ th'[t].pc # "dorme"
      BY <1>9 DEF PassoChiama, Guarda
    <2> QED  BY <1>w, <2>1 DEF Continua
  <1> QED  BY <1>1, <1>2, <1>3, <1>4, <1>5, <1>6, <1>7, <1>8, <1>9 DEF Effetto

\* What the others do meanwhile.
LEMMA GuardaAltri ==
    ASSUME Inv1, Lette, NEW t \in Fili, Effetto(t), NEW u \in Fili, u # t
    PROVE  (Guarda(u) => Guarda(u)') /\ (Aspettante(u)' => Aspettante(u))
  <1>1. /\ StessiRegistri(u)
        /\ th'[u].pc = th[u].pc \/ (th[u].pc = "dorme" /\ th'[u].pc = "sveglio")
    BY AltriFermi DEF Altri, Inv1, TypeOK
  <1>2. Dormira(u)' => Dormira(u)
    BY DormiraAltri
  <1>3. InSonnoC(u)' => InSonnoC(u)
    BY <1>1 DEF StessiRegistri, InSonnoC
  <1>4. Guarda(u) => Guarda(u)'
    BY <1>1, <1>2, <1>3 DEF StessiRegistri, Guarda
  <1> QED  BY <1>2, <1>3, <1>4 DEF Aspettante

\* While somebody waits on the condition, there is not more to take than threads that
\* will look.
LEMMA SonnoCPasso ==
    ASSUME Inv1, TypeOK', NienteRoba, Lette, SonnoC, NEW t \in Fili, Effetto(t)
    PROVE  SonnoC'
  <1>i. mem.roba \in Nat /\ mem'.roba \in Nat
    BY DEF Inv1, TypeOK, Memoria
  <1>g. Guardano = {u \in Fili : Guarda(u)} /\ Guardano' = {u \in Fili : Guarda(u)'}
    BY DEF Guardano
  <1>n. /\ Guardano \in SUBSET Fili /\ Guardano' \in SUBSET Fili
        /\ Cardinality(Guardano) \in Nat /\ Cardinality(Guardano') \in Nat
    BY <1>g, Quanti
  <1>a. Guardano \ {t} \subseteq Guardano'
    BY <1>g, GuardaAltri
  <1> SUFFICES ASSUME NEW x \in Fili, Aspettante(x)'
               PROVE  mem'.roba <= Cardinality(Guardano')
    BY DEF SonnoC
  <1>b. ASSUME Aspettante(t)' => Aspettante(t)  PROVE mem.roba <= Cardinality(Guardano)
    <2>1. Aspettante(x)
      BY <1>b, GuardaAltri
    <2> QED  BY <2>1 DEF SonnoC
  <1>1. CASE Continua(t)
    <2>1. mem.roba <= Cardinality(Guardano)
      BY <1>b, <1>1 DEF Continua
    <2>2. Guardano \subseteq Guardano'
      BY <1>a, <1>g, <1>1 DEF Continua
    <2>3. Cardinality(Guardano) <= Cardinality(Guardano')
      BY <1>n, <2>2, Cresce
    <2> QED  BY <1>i, <1>n, <1>1, <2>1, <2>3 DEF Continua
  <1>2. CASE mem'.roba = 0
    BY <1>n, <1>2
  <1>3. CASE mem'.roba = mem.roba + 1 /\ ~Guarda(t) /\ Guarda(t)' /\ ~Aspettante(t)'
    <2>1. mem.roba <= Cardinality(Guardano)
      BY <1>b, <1>3
    <2>2. t \in Guardano' /\ t \notin Guardano
      BY <1>g, <1>3
    <2>3. Guardano \subseteq Guardano'
      BY <1>a, <2>2
    <2>4. Cardinality(Guardano) + 1 <= Cardinality(Guardano')
      BY <1>n, <2>2, <2>3, CresceDiUno
    <2> QED  BY <1>i, <1>n, <1>3, <2>1, <2>4
  <1>4. CASE mem'.roba = mem.roba - 1 /\ ~Aspettante(t)'
    <2>1. mem.roba <= Cardinality(Guardano)
      BY <1>b, <1>4
    <2>2. Cardinality(Guardano) <= Cardinality(Guardano') + 1
      BY <1>a, <1>n, PerdeUno
    <2>3. \A k, a, b \in Nat : k <= a /\ a <= b + 1 => k - 1 <= b
      OBVIOUS
    <2> QED  BY <1>i, <1>n, <1>4, <2>1, <2>2, <2>3
  <1>5. CASE PassoSveglia(t) /\ th[t].dove = "c" /\ th[t].op = "produci"
    <2>0. mem' = mem /\ th[t].pc = "sveglia" /\ th'[t].op = "produci"
      BY <1>5 DEF PassoSveglia, StessiRegistri
    <2>1. x # t
      BY <2>0 DEF Aspettante, InSonnoC, Dormira, DopoLascia
    <2>2. ~Dormira(x)
      BY <1>5, <2>0 DEF Lette
    <2>3. InSonnoC(x)
      BY <2>1, <2>2, GuardaAltri DEF Aspettante
    <2>4. mem.roba <= Cardinality(Guardano)
      BY <2>3 DEF SonnoC, Aspettante
    <2>5. PICK v \in Dormienti("c") : th'[v].pc = "sveglio"
      <3>1. x \in Dormienti("c")
        BY <2>3 DEF InSonnoC, Dormienti
      <3> QED  BY <1>5, <3>1 DEF PassoSveglia
    <2>6. v \in Fili /\ th[v].pc = "dorme" /\ th[v].dove = "c" /\ th'[v].op = th[v].op
      BY <1>5, <2>5 DEF Dormienti, PassoSveglia, StessiRegistri
    <2>7. th[v].op = "consuma"
      <3>1. Posto(th[v]) /\ NelNucleo(th[v])
        BY <2>6 DEF Inv1, Forma
      <3>2. th[v].c = "c" /\ th[v].op \in Pazienti
        BY <2>6, <3>1 DEF NelNucleo, Sonno, Posto
      <3> QED  BY <3>1, <3>2 DEF Posto, Pazienti, Rw
    <2>8. v \in Guardano' /\ v \notin Guardano
      BY <1>g, <2>5, <2>6, <2>7 DEF Guarda, InSonnoC, Dormira, DopoLascia
    <2>9. Cardinality(Guardano) <= Cardinality(Guardano')
      BY <1>a, <1>n, <2>8, UnoPerUno
    <2> QED  BY <1>i, <1>n, <2>0, <2>4, <2>9
  <1> QED  BY <1>1, <1>2, <1>3, <1>4, <1>5, GuardaFilo

-----------------------------------------------------------------------------
(* The inductive invariant.                                                *)

IInv == Inv1 /\ Inv2 /\ Scosso /\ Inv4 /\ Inv5

\* The invariant holds at the start,
LEMMA IInvInit == Init => IInv
  <1> SUFFICES ASSUME Init  PROVE IInv
    OBVIOUS
  <1>1. /\ \A p \in Parole : mem[p] = IF p = "s" THEN Unita ELSE 0
        /\ mem \in [Parole -> Int] /\ mem.s = Unita
        /\ mem.m = 0 /\ mem.rm = 0 /\ mem.scrittore = 0 /\ mem.lettori = 0 /\ mem.c = 0 /\ mem.rc = 0
        /\ mem.roba = 0
    BY UsoDeiFili DEF Init, Parole
  <1>2. Fuori \in Registri
    BY DEF Fuori, Registri, Passi, Parole
  <1>3. TypeOK
    <2>1. Memoria
      BY <1>1, UsoDeiFili DEF Memoria
    <2> QED  BY <1>2, <2>1 DEF Init, TypeOK
  <1>4. \A t \in Fili : /\ th[t].op = "no" /\ th[t].pc = "fuori" /\ th[t].m = "m" /\ th[t].c = "c"
                        /\ tiene[t] = "no"
    BY DEF Init, Fuori
  <1>5. Forma
    BY <1>4 DEF Forma, Posto, Ritorno, NelNucleo, Tenuta, VersoLucchetto, Sonno, Rw
  <1>6. Inv2
    <2>1. Lucchetto
      BY <1>4 DEF Lucchetto, Ha, Dentro_lucchetto
    <2>2. Lettori = {} /\ Cardinality(Lettori) = 0
      <3>1. Lettori = {}
        BY <1>4 DEF Lettori
      <3> QED  BY <3>1, FS_EmptySet
    <2>3. Conti
      BY <1>1, <1>4, <2>2 DEF Conti
    <2> QED  BY <2>1, <2>3 DEF Inv2
  <1>7. Scosso
    BY DEF Init, Scosso
  <1>8. Inv4
    <2>1. \A w : Dormienti(w) = {}
      BY <1>4 DEF Dormienti
    <2> QED  BY <2>1 DEF Inv4, SonnoLucchetto, SonnoRw, SonnoS
  <1>9. Inv5
    <2>1. NienteRoba
      BY <1>1 DEF NienteRoba
    <2>2. Lette
      BY <1>4 DEF Lette, Rinuncia, DopoLascia
    <2>3. SonnoC
      BY <1>4 DEF SonnoC, Aspettante, InSonnoC, Dormira, DopoLascia
    <2> QED  BY <2>1, <2>2, <2>3 DEF Inv5
  <1> QED  BY <1>3, <1>5, <1>6, <1>7, <1>8, <1>9 DEF IInv, Inv1

\* every step keeps it,
LEMMA IInvNext == IInv /\ [Next]_vars => IInv'
  <1> SUFFICES ASSUME IInv, [Next]_vars  PROVE IInv'
    OBVIOUS
  <1>1. CASE UNCHANGED vars
    <2>1. Inv1' /\ Scosso'
      BY <1>1 DEF IInv, vars, Inv1, TypeOK, Memoria, Forma, Scosso
    <2>2. Inv2'
      BY <1>1 DEF IInv, vars, Inv2, Lucchetto, Conti, Lettori
    <2>3. Inv4'
      BY <1>1 DEF IInv, vars, Inv4, SonnoLucchetto, SonnoRw, SonnoS, GuardanoS, Dormienti, Svegliera, Torna
    <2>4. Inv5'
      BY <1>1 DEF IInv, vars, Inv5, NienteRoba, Lette, SonnoC, Guardano, Guarda, Aspettante, InSonnoC, Dormira
    <2> QED  BY <2>1, <2>2, <2>3, <2>4 DEF IInv
  <1>2. ASSUME NEW t \in Fili, \/ Passo(t) \/ Chiama(t) \/ Rilascia(t) \/ Tempo(t) \/ Scade(t)
                               \/ Segnale(t) \/ proc_filo_ferma(t)
        PROVE  IInv'
    <2>0. /\ Inv1 /\ Lucchetto /\ Conti /\ Scosso /\ SonnoLucchetto /\ SonnoRw /\ SonnoS
          /\ NienteRoba /\ Lette /\ SonnoC
      BY DEF IInv, Inv2, Inv4, Inv5
    <2>1. TypeOK' /\ Effetto(t)
      BY <1>2, <2>0, OgniPasso
    <2>2. Forma'
      BY <2>0, <2>1, FormaPasso
    <2>3. Lucchetto' /\ Conti'
      BY <2>0, <2>1, LucchettoPasso, ContiPasso
    <2>4. Scosso'
      BY <2>0, <2>1, ScossoPasso
    <2>5. SonnoLucchetto' /\ SonnoRw' /\ SonnoS'
      BY <2>0, <2>1, <2>2, SonnoLucchettoPasso, SonnoRwPasso, SonnoSPasso
    <2>6. NienteRoba' /\ Lette' /\ SonnoC'
      BY <2>0, <2>1, NienteRobaPasso, LettePasso, SonnoCPasso
    <2> QED  BY <2>1, <2>2, <2>3, <2>4, <2>5, <2>6 DEF IInv, Inv1, Inv2, Inv4, Inv5
  <1> QED  BY <1>1, <1>2 DEF Next

\* so it always holds.
LEMMA IInvSempre == Spec => []IInv
  BY IInvInit, IInvNext, PTL DEF Spec

-----------------------------------------------------------------------------
(* The results.                                                            *)

\* Type correctness: the words, the registers of every thread, the requests.
THEOREM TipoCorretto == Spec => []TypeOK
  <1>1. IInv => TypeOK
    BY DEF IInv, Inv1
  <1> QED  BY <1>1, IInvSempre, PTL

\* A writer inside pthread_rwlock is alone, for every number of threads and
\* whatever signals, requests to stop and cancellations come: between the test
\* of the while and what follows it the lock is held, and the words scrittore
\* and lettori count who holds.
THEOREM ScrittoreSolo == Spec => []Esclusione
  <1>1. IInv => Esclusione
    <2> SUFFICES ASSUME IInv, NEW t \in Fili, NEW u \in Fili, t # u, tiene[t] = "W"
                 PROVE  tiene[u] = "no"
      BY DEF Esclusione
    <2>1. tiene[u] # "W"
      BY DEF IInv, Inv2, Conti
    <2>2. Lettori = {}
      BY LettoriFiniti, FS_EmptySet DEF IInv, Inv2, Conti
    <2>3. tiene[u] \in {"no", "R", "W"}
      BY DEF IInv, Inv1, TypeOK
    <2> QED  BY <2>1, <2>2, <2>3 DEF Lettori
  <1> QED  BY <1>1, IInvSempre, PTL

\* A thread asked to stop does not sleep in its condizione_aspetta: proc_filo_ferma
\* shakes the one that sleeps and the next sleep of the one that does not, and
\* who asks before the test of the while is seen by it.
THEOREM RichiestaAscoltata == Spec => []FermaAscoltata
  <1>1. IInv => FermaAscoltata
    BY DEF IInv, Scosso, FermaAscoltata
  <1> QED  BY <1>1, IInvSempre, PTL

\* No wake-up is lost by the lock of three states, by conditions, by the lock of
\* readers and writers and by semaphores: for every number of threads, every
\* program of theirs and every order of their steps.
THEOREM NessunRisveglioPerso == Spec => []SonnoGiusto
  <1>1. IInv => SonnoGiusto
    <2> SUFFICES ASSUME IInv  PROVE SonnoGiusto
      OBVIOUS
    <2>1. SonnoLucchetto /\ SonnoRw /\ SonnoS /\ SonnoC /\ Forma /\ mem.roba \in Nat
      BY DEF IInv, Inv1, Inv4, Inv5, TypeOK, Memoria
    <2> DEFINE Chi == Consumano \cup Svegliera("c") \cup {u \in Fili : th[u].op = "produci" /\ th[u].pc = "segnala"}
    <2>2. ASSUME NEW x \in Dormienti("c")  PROVE mem.roba <= Cardinality(Chi)
      <3>1. x \in Fili /\ th[x].pc = "dorme" /\ th[x].dove = "c"
        BY DEF Dormienti
      <3>2. Posto(th[x]) /\ NelNucleo(th[x])
        BY <2>1, <3>1 DEF Forma
      <3>3. th[x].c = "c" /\ th[x].op \in Pazienti
        BY <3>1, <3>2 DEF NelNucleo, Sonno, Posto
      <3>4. InSonnoC(x)
        BY <3>1, <3>2, <3>3 DEF Posto, Pazienti, Rw, InSonnoC
      <3>5. mem.roba <= Cardinality(Guardano)
        BY <2>1, <3>1, <3>4 DEF SonnoC, Aspettante
      <3>6. Guardano \subseteq Chi
        BY DEF Guardano, Guarda, InSonnoC, Consumano, Svegliera
      <3>7. Guardano \in SUBSET Fili /\ Chi \in SUBSET Fili
        BY DEF Guardano, Consumano, Svegliera
      <3> HIDE DEF Chi
      <3>8. Cardinality(Guardano) <= Cardinality(Chi)
        BY <3>6, <3>7, Cresce
      <3>9. Cardinality(Guardano) \in Nat /\ Cardinality(Chi) \in Nat
        BY <3>7, Quanti
      <3> QED  BY <2>1, <3>5, <3>8, <3>9
    <2>3. Dormienti("c") # {} => mem.roba <= Cardinality(Chi)
      <3> HIDE DEF Chi
      <3> QED  BY <2>2
    <2> QED  BY <2>1, <2>3, Zenon DEF SonnoGiusto, SonnoLucchetto, SonnoRw, SonnoS, GuardanoS
  <1> QED  BY <1>1, IInvSempre, PTL

=============================================================================
