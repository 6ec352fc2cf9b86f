------------------------------- MODULE DiscoR3 -------------------------------
(***************************************************************************)
(* A disk served by a process (src/kernel/block/blkr3.c) under the lock of *)
(* the VFS (fs_prendi_n, fs_rilascia).  Callers put one request at a time  *)
(* in the slot of the device, wake the driver and sleep with a deadline;   *)
(* the driver takes it (blk_attendi), copies the sectors in or out through *)
(* a pointer to the slot's buffer and answers (blk_risposta).  A driver    *)
(* may never answer, die, or be told that its device is gone.              *)
(*                                                                         *)
(* Each caller has a sector of its own, with its own name: the sector c of *)
(* device g holds <<"letto", g, c>>, and c writes <<"scritto", c>>.        *)
(***************************************************************************)
EXTENDS Naturals, FiniteSets

CONSTANTS
    Chiamanti,    \* threads that call the block layer
    Liberi,       \* those that do it without the lock of the VFS (fsync, raw)
    Serventi,     \* drivers in ring 3
    Posti,        \* g_r3, in the order cerca_per_pid looks at them
    Operazioni,   \* what each asks for: of "LEGGI", "SCRIVI", "SVUOTA"
    Giri,         \* requests one call is cut into (spezza)
    MaxOfferte,   \* bound: devices offered
    Nessuno,
    Eventi        \* which of "espelle", "muore", "riuso", "ucciso" happen

ASSUME ChiServe ==
    /\ Liberi \subseteq Chiamanti /\ Posti \subseteq Nat \ {0}
    /\ Operazioni \in [Chiamanti -> SUBSET {"LEGGI", "SCRIVI", "SVUOTA"}]
    /\ Giri \in Nat \ {0} /\ MaxOfferte \in Nat
    /\ Nessuno \notin Chiamanti \cup Serventi
    /\ Eventi \subseteq {"espelle", "muore", "riuso", "ucciso"}

VARIABLES
    g_r3,       \* slot -> usato, pid, disp (the device), stato, op, pid_chiamante, esito, dati
    g_dorme,    \* slot -> the driver asleep in blkr3_attendi
    offerte,    \* devices offered so far
    ch,         \* caller -> where it is in its call
    sv,         \* driver -> where it is
    scritti,    \* what is on the disks: <<device, sector, data>>
    detentore,  \* g_fs_detentore
    fila        \* g_fs_attesa

vars == <<g_r3, g_dorme, offerte, ch, sv, scritti, detentore, fila>>


-----------------------------------------------------------------------------
(* A driver's own slots, and the first one cerca_per_pid finds.            *)

Suoi(s) == {i \in Posti : g_r3[i].usato /\ g_r3[i].pid = s}

cerca_per_pid(s, stato) ==
    LET buoni == {i \in Suoi(s) : g_r3[i].stato = stato}
    IN  IF buoni = {} THEN 0 ELSE CHOOSE i \in buoni : \A j \in buoni : i <= j

da_blkdev(g) == {i \in Posti : g_r3[i].usato /\ g_r3[i].disp = g}

(* Outside a call a thread keeps what its last one gave it, if it went well. *)
Riposo == [st |-> "fuori", posto |-> 0, disp |-> 0, op |-> "SVUOTA", giri |-> 0,
           scaduto |-> FALSE, sonno |-> FALSE, esito |-> "no", buf |-> Nessuno]

Reso(c, esito, buf) ==
    IF esito # "ok" THEN Riposo
    ELSE [Riposo EXCEPT !.disp = ch[c].disp, !.op = ch[c].op, !.esito = esito, !.buf = buf]

(* A driver between two requests.                                          *)
Ozio(st) == [st |-> st, posto |-> 0, disp |-> 0, op |-> "SVUOTA", lba |-> Nessuno,
             esito |-> "no", buf |-> Nessuno]

(* A driver in the kernel copies through its pointer to slot i.            *)
InCopia(i) == \E s \in Serventi : sv[s].st \in {"copia fuori", "copia dentro"} /\ sv[s].posto = i

(* A free slot: of what the last request left in it only the sectors can   *)
(* be read again, by a driver that has a pointer to them.                  *)
Vuota(i) == [g_r3[i] EXCEPT !.stato = "LIBERA", !.op = "SVUOTA", !.pid_chiamante = Nessuno,
                            !.esito = "EIO", !.dati = IF InCopia(i) THEN @ ELSE Nessuno]

(* A caller inside un_giro, with a pointer to a slot.                      *)
InGiro(c) == ch[c].st \in {"entra", "casella", "aspetta"}

Morto(s) == sv[s].st \in {"zombie", "raccolto"}

-----------------------------------------------------------------------------
(* The lock of the VFS.                                                    *)

(* Whoever finds it taken goes on the list and sleeps, and tries again     *)
(* when woken.                                                             *)
fs_prendi(c) ==
    /\ ch[c].st = "prendi"
    /\ IF detentore = Nessuno
       THEN /\ detentore' = c /\ fila' = fila
            /\ ch' = [ch EXCEPT ![c].st = "spezza"]
       ELSE /\ fila' = fila \cup {c} /\ detentore' = detentore
            /\ ch' = [ch EXCEPT ![c].st = "in fila"]
    /\ UNCHANGED <<g_r3, g_dorme, offerte, sv, scritti>>

(* The call is over; fs_rilascia, if it held the lock, wakes everybody on  *)
(* the list.                                                               *)
Torna(c, esito, buf) ==
    IF detentore = c
    THEN /\ ch' = [x \in Chiamanti |->
                     IF x = c THEN Reso(c, esito, buf)
                     ELSE IF x \in fila /\ ch[x].st = "in fila"
                     THEN [ch[x] EXCEPT !.st = "prendi"] ELSE ch[x]]
         /\ detentore' = Nessuno /\ fila' = {}
    ELSE /\ ch' = [ch EXCEPT ![c] = Reso(c, esito, buf)]
         /\ UNCHANGED <<detentore, fila>>

-----------------------------------------------------------------------------
(* The caller.                                                             *)

(* A file is read or written, or a disk flushed: blkr3_read, blkr3_write,  *)
(* blkr3_flush.                                                            *)
Chiama(c) ==
    /\ ch[c].st = "fuori"
    /\ \E g \in 1 .. offerte, op \in Operazioni[c] :
         ch' = [ch EXCEPT ![c] = [Riposo EXCEPT !.disp = g, !.op = op,
                                    !.st = IF c \in Liberi THEN "spezza" ELSE "prendi"]]
    /\ scritti' = {w \in scritti : w[2] # c}
    /\ UNCHANGED <<g_r3, g_dorme, offerte, sv, detentore, fila>>

(* spezza: the device is looked up once, whatever the number of requests.  *)
spezza(c) ==
    /\ ch[c].st = "spezza"
    /\ IF da_blkdev(ch[c].disp) = {}
       THEN Torna(c, "ENODEV", Nessuno)
       ELSE /\ ch' = [ch EXCEPT ![c].st = "entra",
                                ![c].posto = CHOOSE i \in da_blkdev(ch[c].disp) : TRUE]
            /\ UNCHANGED <<detentore, fila>>
    /\ UNCHANGED <<g_r3, g_dorme, offerte, sv, scritti>>

(* un_giro up to the slot: a driver known to be dead is an error at once,  *)
(* or the deadline starts to run.                                          *)
Entra(c) ==
    /\ ch[c].st = "entra"
    /\ IF Morto(g_r3[ch[c].posto].pid)
       THEN Torna(c, "EIO", Nessuno)
       ELSE /\ ch' = [ch EXCEPT ![c].st = "casella", ![c].scaduto = FALSE]
            /\ UNCHANGED <<detentore, fila>>
    /\ UNCHANGED <<g_r3, g_dorme, offerte, sv, scritti>>

(* The request in the slot, whatever its state was.                        *)
Richiesta(c) ==
    [g_r3[ch[c].posto] EXCEPT !.op = ch[c].op, !.pid_chiamante = c, !.esito = "EIO",
        !.dati = IF ch[c].op = "SCRIVI" THEN <<"scritto", c>> ELSE @,
        !.stato = "PRONTA"]

\* Mutant: the driver is left asleep.
Svegliato_nessuno(i) == sv

(* Step 4: the driver asleep for that slot is woken.                       *)
Svegliato(i) ==
    [s \in Serventi |-> IF g_dorme[i] = s /\ sv[s].st = "dorme"
                        THEN [sv[s] EXCEPT !.st = "libero"] ELSE sv[s]]

\* Mutant: a deadline that is never over.
Scaduto_mai(c) == FALSE

(* g_ticks >= scadenza.                                                    *)
Scaduto(c) == ch[c].scaduto

\* Mutant: the slot is taken whatever is in it.
Occupata_mai(i) == FALSE

Occupata(i) == g_r3[i].stato # "LIBERA"

(* Step 3, with interrupts off up to the sleep: the slot is free and the   *)
(* request goes in - a device that is gone or a deadline that is over are  *)
(* noticed only then -, or they are noticed while it waits for the slot.   *)
(* Otherwise it looks again a tick later.                                  *)
Casella(c) ==
    LET i == ch[c].posto IN
    /\ ch[c].st = "casella"
    /\ \/ /\ ~Occupata(i)
          /\ g_r3' = [g_r3 EXCEPT ![i] =
                IF g_r3[i].usato /\ Scaduto(c) THEN Vuota(i) ELSE Richiesta(c)]
          /\ g_dorme' = [g_dorme EXCEPT ![i] = Nessuno]
          /\ sv' = Svegliato(i)
          /\ IF g_r3[i].usato /\ ~Scaduto(c)
             THEN /\ ch' = [ch EXCEPT ![c].st = "aspetta", ![c].sonno = TRUE]
                  /\ UNCHANGED <<detentore, fila>>
             ELSE Torna(c, "EIO", Nessuno)
       \/ /\ Occupata(i)
          /\ Scaduto(c) \/ ~g_r3[i].usato
          /\ Torna(c, "EIO", Nessuno)
          /\ UNCHANGED <<g_r3, g_dorme, sv>>
    /\ UNCHANGED <<offerte, scritti>>

(* A caller that gives up frees the slot.                                  *)
Rinuncia(i) == [g_r3 EXCEPT ![i] = Vuota(i)]

(* How many requests the call is cut into: a flush is one.                 *)
QuantiGiri(op) == IF op = "SVUOTA" THEN 1 ELSE Giri

(* Steps 5 and 7, awake: the answer, the device gone, the deadline, or to  *)
(* sleep again.  The driver's copies run with interrupts on: a caller may  *)
(* give up in the middle of one.                                           *)
Aspetta(c) ==
    LET i == ch[c].posto
        e == g_r3[i].esito
    IN
    /\ ch[c].st = "aspetta" /\ ~ch[c].sonno
    /\ IF g_r3[i].stato = "SERVITA"
       THEN /\ g_r3' = [g_r3 EXCEPT ![i] = Vuota(i)]
            /\ IF e = "ok" /\ ch[c].giri + 1 < QuantiGiri(ch[c].op)
               THEN /\ ch' = [ch EXCEPT ![c].st = "entra", ![c].giri = @ + 1]
                    /\ UNCHANGED <<detentore, fila>>
               ELSE Torna(c, e, IF e = "ok" /\ ch[c].op = "LEGGI" THEN g_r3[i].dati
                                ELSE Nessuno)
       ELSE IF ~g_r3[i].usato
       THEN Torna(c, "EIO", Nessuno) /\ g_r3' = g_r3
       ELSE IF Scaduto(c)
       THEN Torna(c, "EIO", Nessuno) /\ g_r3' = Rinuncia(i)
       ELSE /\ ch' = [ch EXCEPT ![c].sonno = TRUE]
            /\ UNCHANGED <<g_r3, detentore, fila>>
    /\ UNCHANGED <<g_dorme, offerte, sv, scritti>>

(* The deadline passes: the tick wakes whoever sleeps.                     *)
Scade(c) ==
    /\ ch[c].st \in {"casella", "aspetta"} /\ ~ch[c].scaduto
    /\ ch' = [ch EXCEPT ![c].scaduto = TRUE, ![c].sonno = FALSE]
    /\ UNCHANGED <<g_r3, g_dorme, offerte, sv, scritti, detentore, fila>>

(* sched_unblock_locked by pid, from somewhere else: a signal.             *)
Scosso(c) ==
    /\ \/ ch[c].st = "in fila" /\ ch' = [ch EXCEPT ![c].st = "prendi"]
       \/ ch[c].st = "aspetta" /\ ch[c].sonno /\ ch' = [ch EXCEPT ![c].sonno = FALSE]
    /\ UNCHANGED <<g_r3, g_dorme, offerte, sv, scritti, detentore, fila>>

(* proc_gruppo_termina: another thread of its program exits.  The thread   *)
(* is a zombie where it stands, with what it holds.                        *)
Ucciso(c) ==
    /\ "ucciso" \in Eventi
    /\ ch[c].st \notin {"fuori", "morto"}
    /\ ch' = [ch EXCEPT ![c] = [Riposo EXCEPT !.st = "morto"]]
    /\ UNCHANGED <<g_r3, g_dorme, offerte, sv, scritti, detentore, fila>>

-----------------------------------------------------------------------------
(* The driver.                                                             *)

(* blkr3_offri: the first free slot.  With "riuso" also while a caller of  *)
(* the device that was there still has a pointer to it.                    *)
blkr3_offri(s) ==
    /\ sv[s].st = "libero" /\ offerte < MaxOfferte
    /\ \E i \in Posti :
         /\ ~g_r3[i].usato /\ \A j \in Posti : j < i => g_r3[j].usato
         /\ \/ "riuso" \in Eventi
            \/ ~InCopia(i) /\ \A c \in Chiamanti : InGiro(c) => ch[c].posto # i
         /\ g_r3' = [g_r3 EXCEPT ![i] = [Vuota(i) EXCEPT !.usato = TRUE, !.pid = s,
                                                         !.disp = offerte + 1]]
         /\ g_dorme' = [g_dorme EXCEPT ![i] = Nessuno]
    /\ offerte' = offerte + 1
    /\ UNCHANGED <<ch, sv, scritti, detentore, fila>>

(* blkr3_attendi: the first request that is ready, or to sleep, which it   *)
(* writes down first.  With no device left it returns at once.             *)
blkr3_attendi(s) ==
    /\ sv[s].st = "libero" /\ Suoi(s) # {}
    /\ LET i == cerca_per_pid(s, "PRONTA") IN
       IF i # 0
       THEN /\ g_r3' = [g_r3 EXCEPT ![i].stato = "IN_CORSO"]
            /\ sv' = [sv EXCEPT ![s] =
                        [Ozio(IF g_r3[i].op = "SCRIVI" THEN "prende" ELSE "lavora") EXCEPT
                            !.disp = g_r3[i].disp, !.op = g_r3[i].op,
                            !.lba = g_r3[i].pid_chiamante]]
            /\ g_dorme' = [j \in Posti |-> IF j \in Suoi(s) THEN Nessuno ELSE g_dorme[j]]
       ELSE /\ g_dorme' = [j \in Posti |-> IF j \in Suoi(s) THEN s ELSE g_dorme[j]]
            /\ sv' = [sv EXCEPT ![s].st = "dorme"]
            /\ g_r3' = g_r3
    /\ UNCHANGED <<offerte, ch, scritti, detentore, fila>>

(* blkr3_attendi woken by its own deadline or by a signal: it is not asleep *)
(* any more for any of its slots, and returns.                             *)
Destato(s) ==
    /\ sv[s].st = "dorme"
    /\ sv' = [sv EXCEPT ![s].st = "libero"]
    /\ g_dorme' = [j \in Posti |-> IF j \in Suoi(s) THEN Nessuno ELSE g_dorme[j]]
    /\ UNCHANGED <<g_r3, offerte, ch, scritti, detentore, fila>>

(* blkr3_dati: the buffer of the request it has in hand, 0 if none.        *)
blkr3_dati(s) == cerca_per_pid(s, "IN_CORSO")

(* sys_blk_attendi, a write: where the data are ...                        *)
PrendiDati(s) ==
    /\ sv[s].st = "prende"
    /\ sv' = [sv EXCEPT ![s] = IF blkr3_dati(s) = 0 THEN Ozio("libero")
                               ELSE [sv[s] EXCEPT !.st = "copia fuori", !.posto = blkr3_dati(s)]]
    /\ UNCHANGED <<g_r3, g_dorme, offerte, ch, scritti, detentore, fila>>

(* ... and the copy, through the pointer, whatever is there by then.       *)
CopiaFuori(s) ==
    /\ sv[s].st = "copia fuori"
    /\ sv' = [sv EXCEPT ![s].buf = g_r3[sv[s].posto].dati, ![s].posto = 0,
                        ![s].st = "lavora"]
    /\ UNCHANGED <<g_r3, g_dorme, offerte, ch, scritti, detentore, fila>>

(* The driver's own work on its disk, which may fail.                      *)
Lavora(s) ==
    /\ sv[s].st = "lavora"
    /\ \E esito \in {"ok", "EIO"} :
         /\ sv' = [sv EXCEPT ![s].st = "risponde", ![s].esito = esito,
                     ![s].buf = IF sv[s].op = "LEGGI" /\ esito = "ok"
                                THEN <<"letto", sv[s].disp, sv[s].lba>> ELSE Nessuno]
         /\ scritti' = IF sv[s].op = "SCRIVI" /\ esito = "ok"
                       THEN {w \in scritti : w[1] # sv[s].disp \/ w[2] # sv[s].lba}
                            \cup {<<sv[s].disp, sv[s].lba, sv[s].buf>>}
                       ELSE scritti
    /\ UNCHANGED <<g_r3, g_dorme, offerte, ch, detentore, fila>>

(* sys_blk_risposta, a read that went well: where its sectors go ...       *)
DaiDati(s) ==
    /\ sv[s].st = "risponde"
    /\ LET i == blkr3_dati(s)
           legge == sv[s].esito = "ok" /\ i # 0 /\ \E j \in Posti : j = i /\ g_r3[j].op = "LEGGI"
       IN  sv' = [sv EXCEPT ![s].posto = i,
                            ![s].st = IF legge THEN "copia dentro" ELSE "rende"]
    /\ UNCHANGED <<g_r3, g_dorme, offerte, ch, scritti, detentore, fila>>

(* ... and the copy.                                                       *)
CopiaDentro(s) ==
    /\ sv[s].st = "copia dentro"
    /\ g_r3' = [g_r3 EXCEPT ![sv[s].posto].dati = sv[s].buf]
    /\ sv' = [sv EXCEPT ![s].st = "rende"]
    /\ UNCHANGED <<g_dorme, offerte, ch, scritti, detentore, fila>>

\* Mutant: the answer goes to the request of that slot, whoever's it is now.
blkr3_risposta_a_chi_c_e(s) ==
    /\ sv[s].st = "rende"
    /\ IF Suoi(s) = {}
       THEN UNCHANGED <<g_r3, ch>>
       ELSE LET i == CHOOSE j \in Suoi(s) : \A k \in Suoi(s) : j <= k IN
            /\ g_r3' = [g_r3 EXCEPT ![i].esito = sv[s].esito, ![i].stato = "SERVITA"]
            /\ ch' = [ch EXCEPT ![g_r3[i].pid_chiamante].sonno = FALSE]
    /\ sv' = [sv EXCEPT ![s] = Ozio("libero")]
    /\ UNCHANGED <<g_dorme, offerte, scritti, detentore, fila>>

(* blkr3_risposta: to the request in hand, and its caller is woken; with   *)
(* none in hand any more it is an error of the driver.                     *)
blkr3_risposta(s) ==
    /\ sv[s].st = "rende"
    /\ LET i == cerca_per_pid(s, "IN_CORSO") IN
       IF i = 0
       THEN UNCHANGED <<g_r3, ch>>
       ELSE /\ g_r3' = [g_r3 EXCEPT ![i].esito = sv[s].esito, ![i].stato = "SERVITA"]
            /\ ch' = [ch EXCEPT ![g_r3[i].pid_chiamante].sonno = FALSE]
    /\ sv' = [sv EXCEPT ![s] = Ozio("libero")]
    /\ UNCHANGED <<g_dorme, offerte, scritti, detentore, fila>>

-----------------------------------------------------------------------------
(* The device goes.                                                        *)

(* Its slots answer -EIO to the request in them, wake its caller and are   *)
(* not used any more.                                                      *)
Tolti(P) ==
    LET pendenti == {i \in P : g_r3[i].stato # "LIBERA"} IN
    /\ g_r3' = [i \in Posti |->
                  CASE i \in pendenti -> [g_r3[i] EXCEPT !.usato = FALSE, !.esito = "EIO",
                                                        !.stato = "SERVITA"]
                    [] i \in P \ pendenti -> [g_r3[i] EXCEPT !.usato = FALSE]
                    [] OTHER -> g_r3[i]]
    /\ ch' = [c \in Chiamanti |->
                IF \E i \in pendenti : g_r3[i].pid_chiamante = c
                THEN [ch[c] EXCEPT !.sonno = FALSE] ELSE ch[c]]

(* blkr3_espelli, for a device that nobody has mounted.                    *)
blkr3_espelli(i) ==
    /\ "espelle" \in Eventi
    /\ g_r3[i].usato
    /\ \A c \in Chiamanti \ Liberi : ch[c].st \notin {"fuori", "morto"} => ch[c].disp # g_r3[i].disp
    /\ Tolti({i})
    /\ sv' = Svegliato(i)
    /\ g_dorme' = [g_dorme EXCEPT ![i] = Nessuno]
    /\ UNCHANGED <<offerte, scritti, detentore, fila>>

(* The driver ends, wherever it is ...                                     *)
Muore(s) ==
    /\ "muore" \in Eventi /\ ~Morto(s)
    /\ sv' = [sv EXCEPT ![s] = Ozio("zombie")]
    /\ UNCHANGED <<g_r3, g_dorme, offerte, ch, scritti, detentore, fila>>

(* ... and is collected: blkr3_processo_morto.                             *)
blkr3_processo_morto(s) ==
    /\ sv[s].st = "zombie"
    /\ sv' = [sv EXCEPT ![s].st = "raccolto"]
    /\ Tolti(Suoi(s))
    /\ g_dorme' = [i \in Posti |-> IF i \in Suoi(s) THEN Nessuno ELSE g_dorme[i]]
    /\ UNCHANGED <<offerte, scritti, detentore, fila>>

-----------------------------------------------------------------------------
Init ==
    /\ g_r3 = [i \in Posti |-> [usato |-> FALSE, pid |-> CHOOSE s \in Serventi : TRUE,
                                disp |-> 0, stato |-> "LIBERA", op |-> "SVUOTA",
                                pid_chiamante |-> Nessuno, esito |-> "EIO",
                                dati |-> Nessuno]]
    /\ g_dorme = [i \in Posti |-> Nessuno]
    /\ offerte = 0
    /\ ch = [c \in Chiamanti |-> Riposo]
    /\ sv = [s \in Serventi |-> Ozio("libero")]
    /\ scritti = {}
    /\ detentore = Nessuno /\ fila = {}

PassoChiamante(c) == fs_prendi(c) \/ spezza(c) \/ Entra(c) \/ Casella(c) \/ Aspetta(c)

Copia(s) == CopiaFuori(s) \/ CopiaDentro(s)

Next ==
    \/ \E c \in Chiamanti : Chiama(c) \/ PassoChiamante(c) \/ Scade(c) \/ Scosso(c) \/ Ucciso(c)
    \/ \E s \in Serventi : \/ blkr3_offri(s) \/ blkr3_attendi(s) \/ Destato(s) \/ PrendiDati(s)
                           \/ Lavora(s) \/ DaiDati(s) \/ Copia(s) \/ blkr3_risposta(s)
                           \/ Muore(s) \/ blkr3_processo_morto(s)
    \/ \E i \in Posti : blkr3_espelli(i)

(* A caller that can go on goes on, time passes, and a copy under way ends *)
(* (it is the kernel's); a driver owes nothing to anybody.                 *)
Spec ==
    /\ Init /\ [][Next]_vars
    /\ \A c \in Chiamanti : WF_vars(PassoChiamante(c)) /\ WF_vars(Scade(c))
    /\ \A s \in Serventi : WF_vars(Copia(s))

-----------------------------------------------------------------------------
(* Properties.                                                             *)

(* The driver wrote something on the sector of c of device g.              *)
Scritto(g, c) == \E w \in scritti : w[1] = g /\ w[2] = c

(* A call that returns 0 got the answer to its own request: the sectors it *)
(* reads are those of its place on its device, and where it wrote the      *)
(* driver did write, also after late answers to callers that gave up,      *)
(* some of them in the middle of a copy, and with devices sent away.       *)
RispostaSua ==
    \A c \in Chiamanti : ch[c].esito = "ok" =>
        /\ ch[c].op = "LEGGI" => ch[c].buf = <<"letto", ch[c].disp, c>>
        /\ ch[c].op = "SCRIVI" => Scritto(ch[c].disp, c)

(* A driver only ever writes on a sector what the caller of that sector    *)
(* gave for it.  This is what blkr3.h says of the pointer blkr3_dati gives *)
(* ("good only between a blkr3_attendi() and its answer"); the code breaks *)
(* it when the caller's deadline passes during the copy.                   *)
ScritturaSua == \A w \in scritti : w[3] = <<"scritto", w[2]>>

(* A slot has one caller: whoever waits for the answer of a device that is *)
(* there is the one the slot names, and its request is still in it.        *)
CasellaDiUno ==
    \A c \in Chiamanti : ch[c].st = "aspetta" /\ g_r3[ch[c].posto].usato =>
        g_r3[ch[c].posto].pid_chiamante = c /\ g_r3[ch[c].posto].stato # "LIBERA"

(* A driver does not sleep on a request: woken, or never registered as     *)
(* asleep.                                                                 *)
RichiestaNonDorme ==
    \A s \in Serventi : sv[s].st = "dorme" => \A i \in Suoi(s) : g_r3[i].stato # "PRONTA"

(* The lock of the VFS is held by a thread that lives and is inside its    *)
(* call: somebody will release it ("nobody stays out for long").           *)
LucchettoVivo ==
    detentore # Nessuno => ch[detentore].st = "spezza" \/ InGiro(detentore)

(* Whoever is in a request comes out of it, whatever the driver does: it   *)
(* answers, dies, is sent away or stays silent for ever.                   *)
ChiamanteTorna == \A c \in Chiamanti : InGiro(c) ~> ~InGiro(c)
=============================================================================
