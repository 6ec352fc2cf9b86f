------------------------------ MODULE Giornale ------------------------------
(***************************************************************************)
(* The ext3 journal of the ext4 module (src/kernel/moduli/ext4/giornale.c) *)
(* under power cuts and disk errors: the operations that fill the open     *)
(* transaction, the commit and checkpoint, the three passes of the replay, *)
(* mount and unmount.                                                      *)
(*                                                                         *)
(* The volume is small: one block of inodes, one bitmap block per group,   *)
(* and the blocks files and directories are made of.  A block's value is a *)
(* set: the inode block holds pairs <<file, block>>, a bitmap the blocks   *)
(* of its group that are taken, a block {f} when it carries what f wrote.  *)
(*                                                                         *)
(* All calls of the module are made with the lock of the VFS held          *)
(* (fs_prendi_n), one at a time: `op' is the call under way and `stadio'   *)
(* the point its commit() has reached, one step per call of a hook and per *)
(* run of writes up to a flush.  Only the flush of fsync is outside the    *)
(* lock.  The disk keeps writes in a cache of its own until a flush: a     *)
(* power cut keeps any of them.                                            *)
(***************************************************************************)
EXTENDS Integers, Sequences, FiniteSets

CONSTANTS
    File,            \* names of files and directories
    Cartelle,        \* those that are directories: their blocks are metadata
    Dati,            \* blocks of the volume that are given to files
    Gruppo,          \* the group of each of them
    Nessuno,
    MaxSlot,         \* max_slot: blocks one transaction holds
    Riserva,         \* GIO_RISERVA: free slots an operation starts with
    Maxlen,          \* s_maxlen: the journal is blocks 0 .. Maxlen-1, 0 its superblock
    MaxTagli,        \* bound: power cuts
    MaxSeq,          \* bound: no operation and no mount starts from here on
    VolumiIniziali,  \* disks the system may find, written by mkfs or by Linux
    Eventi           \* which of "errore", "fsync", "pigro", "rimonta", "taglio" happen

ASSUME MisureGiornale ==
    /\ Cartelle \subseteq File /\ Dati \subseteq Nat /\ IsFiniteSet(Dati)
    /\ MaxSlot \in Nat /\ Riserva \in Nat /\ Maxlen \in Nat
    /\ MaxSeq \in Nat /\ MaxTagli \in Nat
    /\ 0 < Riserva /\ Riserva <= MaxSlot
    /\ MaxSlot + 3 <= Maxlen      \* max_slot <= maxlen - primo - 2
    /\ Eventi \subseteq {"errore", "fsync", "pigro", "rimonta", "taglio"}

VARIABLES
    duro,      \* what is on the disk for good
    ora,       \* what a read of the disk gives
    attesa,    \* for each block the contents written since the last flush
    fase,      \* "spento", "monta", "montato", "sola" (mounted read-only)
    slot,      \* slot_blk, slot_dati: the open transaction
    seq,       \* the number of the next transaction
    liberati,  \* the open transaction freed blocks
    guasto,    \* a commit failed
    pre,       \* the block set aside for an append: {} or {<<file, block>>}
    op,        \* the call under way: which, where in it, and what it works on
    stadio,    \* how far its commit() is, "no" outside of one
    promesso,  \* the last call was a sync that returned 0
    fs,        \* fsync: "no", "prepara", "flush", "ok" (returned 0, until the next call)
    debito,    \* fsync began with a transaction that is not committed yet
    tagli      \* power cuts so far

disco == <<duro, ora, attesa>>
memoria == <<slot, seq, liberati, guasto, pre>>
vars == <<disco, fase, memoria, op, stadio, promesso, fs, debito, tagli>>

-----------------------------------------------------------------------------
(* Blocks of the disk.                                                     *)

Ino    == <<"ino", Nessuno>>
Bm(g)  == <<"bm", g>>
Dato(b) == <<"dato", b>>
Jsb    == <<"jsb", Nessuno>>     \* the journal superblock
Sb     == <<"sb", Nessuno>>      \* INCOMPAT_RECOVER in the volume's superblock
Gio(i) == <<"gio", i>>

Meta == {Ino} \cup {Bm(Gruppo[b]) : b \in Dati}
Posti == Meta \cup {Dato(b) : b \in Dati}
Indirizzi == Posti \cup {Jsb, Sb} \cup {Gio(i) : i \in 1 .. Maxlen - 1}

Pulita == [a \in Indirizzi |-> {}]

(* blk_write of v[a] to every block a of v; t[a] are all the contents that *)
(* went to a since the step began, of which v[a] is the last.              *)
Scrive(v, t) ==
    /\ ora' = [a \in Indirizzi |-> IF a \in DOMAIN v THEN v[a] ELSE ora[a]]
    /\ attesa' = [a \in Indirizzi |-> attesa[a] \cup (IF a \in DOMAIN v THEN t[a] ELSE {})]
    /\ duro' = duro

Metti(v) == Scrive(v, [a \in DOMAIN v |-> {v[a]}])

(* blk_flush.                                                              *)
Svuota ==
    /\ duro' = ora /\ attesa' = Pulita
    /\ ora' = ora

-----------------------------------------------------------------------------
(* The replay: jbd2's three passes over the journal as it is on disk d.    *)

avanti(i) == IF i + 1 >= Maxlen THEN 1 ELSE i + 1

(* avanti, n times: the ring goes from block 1 to block Maxlen - 1.        *)
Dopo(i, n) == ((i - 1 + n) % (Maxlen - 1)) + 1

(* One block of SCAN: pos and seq as in the code, `aperte' and `apRev' the *)
(* copies and revoke records of the transaction being read, `fatte' and    *)
(* `rev' those of the committed ones.  A block with another sequence       *)
(* number, or no header, ends the walk.                                    *)
Esamina(d, p) ==
    LET b == d[Gio(p.pos)]
    IN  IF ~p.vivo \/ b.tipo = "copia" \/ b.seq # p.seq
        THEN [p EXCEPT !.vivo = FALSE]
        ELSE CASE b.tipo = "desc" ->
               [p EXCEPT !.pos = Dopo(@, Len(b.tag) + 1),
                         !.aperte = @ \o [i \in 1 .. Len(b.tag) |->
                             [blk |-> b.tag[i], seq |-> p.seq, pos |-> Dopo(p.pos, i)]]]
          [] b.tipo = "revoca" ->
               [p EXCEPT !.pos = avanti(@),
                         !.apRev = @ \cup {[blk |-> a, seq |-> p.seq] : a \in b.blk}]
          [] b.tipo = "commit" ->
               [p EXCEPT !.pos = avanti(@), !.seq = @ + 1,
                         !.fatte = @ \o p.aperte, !.aperte = <<>>,
                         !.rev = @ \cup p.apRev, !.apRev = {}]

(* The walk: at most Maxlen blocks from s_start.                           *)
Partenza(d) ==
    [pos |-> d[Jsb].start, seq |-> d[Jsb].seq, vivo |-> TRUE,
     aperte |-> <<>>, apRev |-> {}, fatte |-> <<>>, rev |-> {}]

passo(d) ==
    LET cammina[k \in 0 .. Maxlen] ==
          IF k = 0 THEN Partenza(d)
          ELSE CHOOSE q \in {Esamina(d, p) : p \in {cammina[k - 1]}} : TRUE
    IN  cammina[Maxlen]

(* The copies of block a that REPLAY writes, by their place in the walk p: *)
(* those of committed transactions that no revoke record of the same or a  *)
(* later one names.                                                        *)
Buone(p, a) ==
    {i \in 1 .. Len(p.fatte) :
        /\ p.fatte[i].blk = a
        /\ \A r \in p.rev : r.blk = a => r.seq < p.fatte[i].seq}

DaRipristinare(d) == d[Sb] /\ d[Jsb].start # 0

(* What REPLAY writes to block a on its way, and what a mount then finds   *)
(* there.                                                                  *)
ripristina(d, a) ==
    LET p == passo(d)
    IN  {d[Gio(p.fatte[i].pos)].v : i \in Buone(p, a)}

Rileggi(d, a) ==
    IF ~DaRipristinare(d) THEN d[a]
    ELSE LET p == passo(d)
             buone == Buone(p, a)
         IN  IF buone = {} THEN d[a]
             ELSE d[Gio(p.fatte[CHOOSE i \in buone : \A j \in buone : j <= i].pos)].v

(* The metadata a mount of disk d would find.                              *)
Recuperato(d) == [a \in Meta |-> Rileggi(d, a)]

(* The number of the first transaction after a mount: after a replay one   *)
(* past the first that was not committed.                                  *)
Nuova(d) == IF DaRipristinare(d) THEN passo(d).seq + 1 ELSE d[Jsb].seq

(* Disk d is in the state a volume may be found in: its blocks have their  *)
(* types, what a mount finds is consistent, and no block of the journal    *)
(* can be taken for one of the next transaction.                           *)
Coerente(m) ==
    \A p \in m[Ino] :
        /\ p \in File \X Dati
        /\ p[2] \in m[Bm(Gruppo[p[2]])]
        /\ m[Dato(p[2])] = {p[1]}
        /\ \A q \in m[Ino] : q[2] = p[2] => q = p

Blocco(x) ==
    /\ x.tipo \in {"copia", "desc", "revoca", "commit"}
    /\ x.tipo # "copia" => x.seq \in Nat
    /\ x.tipo = "desc" => x.tag \in Seq(Posti)

Disco(d) ==
    /\ d = [a \in Indirizzi |-> d[a]]
    /\ d[Sb] \in BOOLEAN
    /\ d[Jsb] \in [seq : Nat, start : 0 .. Maxlen - 1]
    /\ \A i \in 1 .. Maxlen - 1 : Blocco(d[Gio(i)])

Prima(x, s) ==
    /\ x.tipo # "copia" => x.seq <= s
    /\ x.tipo = "commit" => x.seq < s

Sano(d) ==
    /\ Disco(d)
    /\ Coerente([a \in Posti |-> Rileggi(d, a)])
    /\ \A i \in 1 .. Maxlen - 1 : Prima(d[Gio(i)], Nuova(d))

ASSUME VolumiSani == \A d \in VolumiIniziali : Sano(d)

-----------------------------------------------------------------------------
(* The open transaction.                                                   *)

Tiene(a) == \E i \in 1 .. Len(slot) : slot[i].blk = a

Copia(a) == slot[CHOOSE i \in 1 .. Len(slot) : slot[i].blk = a].v

(* A read through giornale_leggi: the transaction's copy over the disk.    *)
Vista(a) == IF Tiene(a) THEN Copia(a) ELSE ora[a]

(* The block over the copy the transaction holds of it, or in a new slot.  *)
Copiato(a, v) ==
    IF Tiene(a)
    THEN [i \in 1 .. Len(slot) |->
             IF slot[i].blk = a THEN [blk |-> a, v |-> v] ELSE slot[i]]
    ELSE Append(slot, [blk |-> a, v |-> v])

CiSta(a) == Tiene(a) \/ Len(slot) < MaxSlot

-----------------------------------------------------------------------------
(* commit(): superblock of the journal, descriptor, copies; flush; commit  *)
(* block; flush; every copy to its place; flush; the journal empty again.  *)

\* Mutant: nothing makes the copies reach the disk before the commit block.
Segue_senza_flush ==
    [copie |-> "sigillo", prima |-> "sigillo", sigillo |-> "seconda",
     seconda |-> "posti", posti |-> "terza", terza |-> "vuota"]

(* The order of its stages.                                                *)
Segue ==
    [copie |-> "prima", prima |-> "sigillo", sigillo |-> "seconda",
     seconda |-> "posti", posti |-> "terza", terza |-> "vuota"]

Descrittore ==
    [tipo |-> "desc", seq |-> seq, tag |-> [i \in 1 .. Len(slot) |-> slot[i].blk]]

(* What it writes in a stage.                                              *)
InCopie ==
    [a \in {Jsb} \cup {Gio(i) : i \in 1 .. Len(slot) + 1} |->
        IF a = Jsb THEN [seq |-> seq, start |-> 1]
        ELSE IF a = Gio(1) THEN Descrittore
        ELSE [tipo |-> "copia", v |-> slot[a[2] - 1].v]]
InSigillo == [a \in {Gio(Len(slot) + 2)} |-> [tipo |-> "commit", seq |-> seq]]
InPosti == [a \in {slot[i].blk : i \in 1 .. Len(slot)} |-> Copia(a)]
InVuota == [a \in {Jsb} |-> [seq |-> seq + 1, start |-> 0]]

(* It begins; the call goes on from where it is when it is over.           *)
commit == stadio' = "copie" /\ op' = op

-----------------------------------------------------------------------------
(* The calls.  What comes after each step of a call; "no": it returns.     *)

Poi == [
    prenotato |-> [inizio |-> "dati", dati |-> "inode",
                   inode |-> "fine", fine |-> "no"],
    coda      |-> [inizio |-> "chiudi", chiudi |-> "bitmap",
                   bitmap |-> "dati", dati |-> "inode", inode |-> "fine", fine |-> "no"],
    perso     |-> [chiudi |-> "fine", fine |-> "no"],
    cartella  |-> [chiudi |-> "inizio", inizio |-> "bitmap",
                   bitmap |-> "dir", dir |-> "inode", inode |-> "fine", fine |-> "no"],
    tronca    |-> [chiudi |-> "inizio", inizio |-> "libera",
                   libera |-> "toglie", toglie |-> "inode", inode |-> "fine", fine |-> "no"],
    chiudi    |-> [chiudi |-> "no"],
    tempo     |-> [commit |-> "no"],
    sync      |-> [chiudi |-> "commit", commit |-> "flush",
                   flush |-> "torna", torna |-> "no"],
    fsync     |-> [chiudi |-> "commit", commit |-> "lascia",
                   lascia |-> "no"],
    smonta    |-> [chiudi |-> "commit", commit |-> "flush",
                   flush |-> "sb", sb |-> "flushsb", flushsb |-> "smontato",
                   smontato |-> "no"],
    monta     |-> [replay |-> "flush", flush |-> "jsb", jsb |-> "flushjsb",
                   flushjsb |-> "sb", sb |-> "flushsb", flushsb |-> "montato",
                   montato |-> "no"]]

(* The call, where it is, its file, the block it takes, the one it sets    *)
(* aside, the groups it has to free blocks in.                             *)
Niente == [che |-> "niente", pc |-> "no", f |-> Nessuno, b |-> Nessuno,
           altri |-> {}, resta |-> {}]
Chiamata(che, pc) == [Niente EXCEPT !.che = che, !.pc = pc]

Tocca(c) == stadio = "no" /\ op.pc = c

(* The call one step further.                                              *)
Oltre ==
    LET pc == Poi[op.che][op.pc]
    IN  IF pc = "no" THEN Niente ELSE [op EXCEPT !.pc = pc]

Avanza == op' = Oltre

(* The lock of the VFS is free and the volume takes writes.                *)
Pronto == fase = "montato" /\ op = Niente /\ ~guasto

VuotaMemoria ==
    /\ slot' = <<>> /\ seq' = 0 /\ liberati' = FALSE /\ guasto' = FALSE
    /\ pre' = {}

Chiama(o) ==
    /\ op' = o
    /\ promesso' = FALSE
    /\ fs' = IF fs = "ok" THEN "no" ELSE fs
    /\ debito' = (debito /\ fs # "ok")
    /\ UNCHANGED <<disco, fase, slot, seq, liberati, guasto, stadio, tagli>>

(* The bitmap of a group without the block set aside.                      *)
Presi(g) == Vista(Bm(g)) \ {p[2] : p \in pre}

(* primo_libero: the first block of its group that the bitmap shows free   *)
(* once the reservation is given back.                                     *)
PrimoLibero(b) ==
    /\ b \notin Presi(Gruppo[b])
    /\ \A c \in Dati : c < b /\ Gruppo[c] = Gruppo[b] => c \in Presi(Gruppo[b])

(* op_write on a file whose next block is the one set aside for it.        *)
ScriviPrenotato(f) ==
    /\ Pronto /\ seq < MaxSeq
    /\ \E b \in Dati :
          /\ <<f, b>> \in pre
          /\ Chiama([Chiamata("prenotato", "inizio") EXCEPT !.f = f, !.b = b])
    /\ pre' = {}

(* op_write at the end of a file: a new block b, and the one after it, if  *)
(* it is free, maybe set aside for the next write.                         *)
ScriviInCoda(f) ==
    /\ Pronto /\ seq < MaxSeq
    /\ f \notin Cartelle
    /\ \A b \in Dati : <<f, b>> \notin pre
    /\ \E b \in Dati :
         \E altri \in SUBSET {c \in Dati : /\ c = b + 1 /\ Gruppo[c] = Gruppo[b]
                                           /\ c \notin Presi(Gruppo[b])} :
          /\ PrimoLibero(b)
          /\ Chiama([Chiamata("coda", "inizio") EXCEPT !.f = f, !.b = b, !.altri = altri])
    /\ pre' = pre

(* op_mkdir, or a directory that takes a block: its content is metadata.   *)
CreaCartella(f) ==
    /\ Pronto /\ seq < MaxSeq
    /\ f \in Cartelle
    /\ \E b \in Dati :
          /\ PrimoLibero(b)
          /\ Chiama([Chiamata("cartella", "chiudi") EXCEPT !.f = f, !.b = b])
    /\ pre' = pre

Suoi(f) == {b \in Dati : <<f, b>> \in Vista(Ino)}

(* op_truncate, op_unlink, op_rmdir: libera_blocco for each block, group   *)
(* after group, and the inode after them.                                  *)
Tronca(f) ==
    /\ Pronto /\ seq < MaxSeq
    /\ Suoi(f) # {}
    /\ Chiama([Chiamata("tronca", "chiudi") EXCEPT
                  !.f = f, !.resta = {Gruppo[b] : b \in Suoi(f)}])
    /\ pre' = pre

(* file_chiuso: a file was closed.                                         *)
Chiudi ==
    /\ Pronto /\ pre # {}
    /\ Chiama(Chiamata("chiudi", "chiudi"))
    /\ pre' = pre

(* giornale_tempo, when the transaction has been open for GIO_SECONDI.     *)
Tempo ==
    /\ Pronto /\ slot # <<>>
    /\ Chiama(Chiamata("tempo", "commit"))
    /\ pre' = pre

(* sincronizza: a failed commit makes it return -1.                        *)
Sync ==
    /\ Pronto
    /\ Chiama(Chiamata("sync", "chiudi"))
    /\ pre' = pre

(* smonta: after a failed commit giornale_smonta only frees its memory.    *)
Smonta ==
    /\ fase = "montato" /\ op = Niente
    /\ Chiama(Chiamata("smonta", IF guasto THEN "smontato" ELSE "chiudi"))
    /\ pre' = pre

(* vfs_fsync, the half under the lock: chiudi() commits and returns void,  *)
(* so a failed commit is not told to the caller.                           *)
Fsync ==
    /\ "fsync" \in Eventi
    /\ fase = "montato" /\ op = Niente /\ fs \in {"no", "ok"}
    /\ op' = Chiamata("fsync", IF guasto THEN "lascia" ELSE "chiudi")
    /\ pre' = IF guasto THEN {} ELSE pre
    /\ fs' = "prepara"
    /\ debito' = (slot # <<>>)
    /\ promesso' = FALSE
    /\ UNCHANGED <<disco, fase, slot, seq, liberati, guasto, stadio, tagli>>

(* giornale_monta: the replay if needs_recovery is set and the journal is  *)
(* not empty, then the journal empty with the next number, then            *)
(* needs_recovery on.  The journal is read through the disk's cache: after *)
(* a failed flush ("rimonta") it may hold what a cut still takes away.     *)
Monta ==
    /\ fase \in {"spento", "sola"} /\ op = Niente
    /\ "rimonta" \in Eventi \/ attesa = Pulita
    /\ ora[Jsb].seq < MaxSeq
    /\ op' = Chiamata("monta", IF DaRipristinare(ora) /\ passo(ora).seq # ora[Jsb].seq
                               THEN "replay" ELSE "jsb")
    /\ seq' = Nuova(ora)
    /\ fase' = "monta"
    /\ UNCHANGED <<disco, slot, liberati, guasto, pre, stadio, promesso, fs, debito, tagli>>

-----------------------------------------------------------------------------
(* The disk commands.                                                      *)

StessoFsync == UNCHANGED <<promesso, fs, debito, tagli>>

(* The one that is next.                                                   *)
Comando == IF stadio = "no" THEN op.pc ELSE stadio

Scritture == {"copie", "sigillo", "posti", "replay", "jsb", "sb"}
Svuotate == {"prima", "seconda", "terza", "flush", "flushjsb", "flushsb"}

(* The blk_write calls up to the next flush are one step: a cut between    *)
(* two of them leaves what a cut after the last leaves too.                *)
Manda ==
    \/ Comando = "copie"   /\ Metti(InCopie)
    \/ Comando = "sigillo" /\ Metti(InSigillo)
    \/ Comando = "posti"   /\ Metti(InPosti)
    \/ Comando = "replay"  /\ Scrive([a \in Posti |-> Rileggi(ora, a)],
                                     [a \in Posti |-> ripristina(ora, a)])
    \/ Comando = "jsb"     /\ Metti([a \in {Jsb} |-> [seq |-> seq, start |-> 0]])
    \/ Comando = "sb"      /\ Metti([a \in {Sb} |-> op.che = "monta"])

(* Nothing makes the disk write the superblock of the empty journal before *)
(* the next transaction goes over the old one: a disk that is not "pigro"  *)
(* has done it by then.                                                    *)
AlPasso == Comando = "copie" => "pigro" \in Eventi \/ attesa[Jsb] = {}

Procede ==
    \/ stadio # "no" /\ stadio' = Segue[stadio] /\ op' = op
    \/ stadio = "no" /\ Avanza /\ stadio' = stadio

(* blk_write that succeeds.                                                *)
BlkWrite ==
    /\ Comando \in Scritture /\ AlPasso
    /\ Manda /\ Procede
    /\ UNCHANGED <<fase, memoria>> /\ StessoFsync

(* blk_flush that succeeds.                                                *)
BlkFlush ==
    /\ Comando \in Svuotate
    /\ Svuota /\ Procede
    /\ UNCHANGED <<fase, memoria>> /\ StessoFsync

(* The disk writes the journal superblock out of its cache by itself.      *)
Scarica ==
    /\ attesa[Jsb] # {}
    /\ duro' = [duro EXCEPT ![Jsb] = ora[Jsb]]
    /\ attesa' = [attesa EXCEPT ![Jsb] = {}]
    /\ UNCHANGED <<ora, fase, memoria, op, stadio>> /\ StessoFsync

(* Step 6 of commit(): the journal is empty again.  The write is carried   *)
(* to the disk by the next flush.                                          *)
Vuota ==
    /\ stadio = "vuota"
    /\ Metti(InVuota)
    /\ seq' = seq + 1 /\ liberati' = FALSE /\ slot' = <<>>
    /\ stadio' = "no"
    /\ debito' = FALSE
    /\ UNCHANGED <<fase, guasto, pre, op, promesso, fs, tagli>>

-----------------------------------------------------------------------------
(* The other steps of a call.                                              *)

(* giornale_inizio: no room for an operation, the transaction goes first   *)
(* and leaves room for it.                                                 *)
giornale_inizio ==
    /\ Tocca("inizio")
    /\ IF MaxSlot - Len(slot) < Riserva THEN commit ELSE Avanza /\ stadio' = stadio
    /\ UNCHANGED <<disco, fase, memoria>> /\ StessoFsync

(* giornale_fine: at once if blocks were freed, or half full.  (After      *)
(* GIO_SECONDI too: that is Tempo, right after.)                           *)
giornale_fine ==
    /\ Tocca("fine")
    /\ IF slot # <<>> /\ (liberati \/ 2 * Len(slot) >= MaxSlot) THEN commit
       ELSE Avanza /\ stadio' = stadio
    /\ UNCHANGED <<disco, fase, memoria>> /\ StessoFsync

\* Mutant: only a transaction that is half full is committed.
giornale_commit_pigro ==
    /\ Tocca("commit")
    /\ IF 2 * Len(slot) >= MaxSlot THEN commit ELSE Avanza /\ stadio' = stadio
    /\ UNCHANGED <<disco, fase, memoria>> /\ StessoFsync

(* giornale_commit, asked for by sync, fsync or unmount.                   *)
giornale_commit ==
    /\ Tocca("commit")
    /\ IF slot # <<>> THEN commit ELSE Avanza /\ stadio' = stadio
    /\ UNCHANGED <<disco, fase, memoria>> /\ StessoFsync

(* giornale_scrivi of a block, after which the call goes on as o with p    *)
(* set aside: with no slot left the transaction is committed first, in the *)
(* middle of the operation.                                                *)
giornale_scrivi(a, v, o, p) ==
    /\ IF CiSta(a)
       THEN slot' = Copiato(a, v) /\ op' = o /\ pre' = p /\ stadio' = stadio
       ELSE commit /\ UNCHANGED <<slot, pre>>
    /\ UNCHANGED <<disco, fase, seq, liberati, guasto>> /\ StessoFsync

(* prenotazione_chiudi: the block set aside goes back to the bitmap; it    *)
(* held no data and does not count as freed.                               *)
prenotazione_chiudi ==
    /\ Tocca("chiudi")
    /\ \/ /\ pre = {} /\ Avanza
          /\ UNCHANGED <<disco, fase, memoria, stadio>> /\ StessoFsync
       \/ \E p \in pre :
             LET g == Gruppo[p[2]]
             IN  giornale_scrivi(Bm(g), Presi(g), Oltre, {})

(* alloca_blocco, prenota: the bitmap with the blocks taken.               *)
alloca_blocco ==
    /\ Tocca("bitmap")
    /\ LET a == Bm(Gruppo[op.b])
       IN  giornale_scrivi(a, Vista(a) \cup {op.b} \cup op.altri, Oltre,
                           {<<op.f, c>> : c \in op.altri})

(* dir_scrivi: what is in the block of a directory.                        *)
dir_scrivi ==
    /\ Tocca("dir")
    /\ giornale_scrivi(Dato(op.b), {op.f}, Oltre, pre)

InodeNuovo ==
    IF op.che = "tronca" THEN {p \in Vista(Ino) : p[1] # op.f}
    ELSE Vista(Ino) \cup {<<op.f, op.b>>}

scrivi_inode ==
    /\ Tocca("inode")
    /\ giornale_scrivi(Ino, InodeNuovo, Oltre, pre)

\* Mutant: nobody remembers that blocks were freed.
giornale_liberato_muto ==
    /\ Tocca("libera")
    /\ Avanza
    /\ UNCHANGED <<disco, fase, memoria, stadio>> /\ StessoFsync

(* libera_blocco tells the journal: the operation commits when it ends.    *)
giornale_liberato ==
    /\ Tocca("libera")
    /\ liberati' = TRUE
    /\ Avanza
    /\ UNCHANGED <<disco, fase, slot, seq, guasto, pre, stadio>> /\ StessoFsync

(* libera_blocco: the bitmap of a group without the blocks of the file.    *)
libera_blocco ==
    /\ Tocca("toglie")
    /\ \E g \in op.resta :
         giornale_scrivi(Bm(g), Vista(Bm(g)) \ Suoi(op.f),
                         [op EXCEPT !.resta = @ \ {g},
                                    !.pc = IF op.resta = {g} THEN "inode" ELSE "libera"],
                         pre)

(* scrivi_corsa: data straight to the disk, after the transaction if it    *)
(* holds that block.                                                       *)
giornale_dati ==
    /\ Tocca("dati")
    /\ IF Tiene(Dato(op.b))
       THEN commit /\ UNCHANGED disco
       ELSE Metti([a \in {Dato(op.b)} |-> {op.f}]) /\ Avanza /\ stadio' = stadio
    /\ UNCHANGED <<fase, memoria>> /\ StessoFsync

(* The call returns: sync with 0, fsync gives back the lock, giornale_smonta *)
(* frees its memory, giornale_monta has the volume open for writing.       *)
Torna ==
    /\ \/ /\ Tocca("torna") /\ promesso' = TRUE
          /\ UNCHANGED <<fase, memoria, fs>>
       \/ /\ Tocca("lascia") /\ fs' = "flush"
          /\ UNCHANGED <<fase, memoria, promesso>>
       \/ /\ Tocca("smontato") /\ fase' = "spento" /\ VuotaMemoria
          /\ UNCHANGED <<promesso, fs>>
       \/ /\ Tocca("montato") /\ fase' = "montato"
          /\ UNCHANGED <<memoria, promesso, fs>>
    /\ Avanza
    /\ UNCHANGED <<disco, stadio, debito, tagli>>

(* The other half of vfs_fsync, without the lock: the flush.  Other calls  *)
(* may have come in between; in the middle of one it does no more than the *)
(* disk may do by itself, so that it is taken between two.                 *)
FsyncFlush ==
    /\ fs = "flush" /\ op = Niente
    /\ Svuota
    /\ fs' = "ok"
    /\ UNCHANGED <<fase, memoria, op, stadio, promesso, debito, tagli>>

-----------------------------------------------------------------------------
(* What goes wrong.                                                        *)

(* A disk command fails.  The writes up to the one that fails, that one    *)
(* too, may have been done: a cut may take them away, like the others, and *)
(* nothing reads them before.                                              *)
ErroreDisco ==
    /\ "errore" \in Eventi
    /\ AlPasso
    /\ \/ Comando \in Scritture /\ Manda
       \/ Comando = "vuota" /\ Metti(InVuota)
       \/ Comando \in Svuotate /\ UNCHANGED disco
    /\ op' = Niente /\ stadio' = "no"
    /\ \/ /\ fase = "monta" /\ fase' = "sola"          \* goto no: read-only
          /\ VuotaMemoria
          /\ UNCHANGED fs
       \/ /\ fase = "montato" /\ op.che = "smonta" /\ fase' = "spento"
          /\ VuotaMemoria
          /\ UNCHANGED fs
       \/ /\ fase = "montato" /\ op.che # "smonta" /\ fase' = fase
          /\ guasto' = (stadio # "no")                   \* the flush of sync: only -1
          /\ IF stadio = "vuota"
             THEN seq' = seq + 1 /\ liberati' = FALSE
             ELSE UNCHANGED <<seq, liberati>>
          /\ fs' = IF fs = "prepara" THEN "flush" ELSE fs
          /\ UNCHANGED <<slot, pre>>
    /\ UNCHANGED <<promesso, debito, tagli>>

(* The write of a file's data fails: ext2_write gives back what it set     *)
(* aside and does not write the inode; the block it took stays taken.      *)
ErroreDati ==
    /\ "errore" \in Eventi
    /\ Tocca("dati") /\ ~Tiene(Dato(op.b))
    /\ Metti([a \in {Dato(op.b)} |-> {op.f}])
    /\ op' = Chiamata("perso", "chiudi")
    /\ UNCHANGED <<fase, memoria, stadio>> /\ StessoFsync

FsyncErrore ==
    /\ "errore" \in Eventi
    /\ fs = "flush" /\ op = Niente
    /\ fs' = "no" /\ debito' = FALSE
    /\ UNCHANGED <<disco, fase, memoria, op, stadio, promesso, tagli>>

(* The power goes: of the writes since the last flush any may have reached *)
(* the disk, in any order between blocks; of several to one block, one.    *)
Taglio ==
    /\ "taglio" \in Eventi /\ tagli < MaxTagli
    /\ tagli' = tagli + 1
    /\ \E tenuti \in SUBSET {a \in Indirizzi : attesa[a] # {}} :
         LET piu == {a \in tenuti : Cardinality(attesa[a]) > 1}
         IN  \E quale \in [piu -> UNION {attesa[a] : a \in piu}] :
               /\ \A a \in piu : quale[a] \in attesa[a]
               /\ duro' = [a \in Indirizzi |->
                             IF a \in piu THEN quale[a]
                             ELSE IF a \in tenuti THEN CHOOSE v \in attesa[a] : TRUE
                             ELSE duro[a]]
    /\ ora' = duro' /\ attesa' = Pulita
    /\ fase' = "spento" /\ op' = Niente /\ stadio' = "no" /\ VuotaMemoria
    /\ promesso' = FALSE /\ fs' = "no" /\ debito' = FALSE

-----------------------------------------------------------------------------
Init ==
    /\ duro \in VolumiIniziali /\ ora = duro
    /\ attesa = Pulita
    /\ fase = "spento" /\ op = Niente /\ stadio = "no"
    /\ slot = <<>> /\ seq = 0 /\ liberati = FALSE /\ guasto = FALSE /\ pre = {}
    /\ promesso = FALSE /\ fs = "no" /\ debito = FALSE /\ tagli = 0

Inizia ==
    \/ \E f \in File : ScriviPrenotato(f) \/ ScriviInCoda(f) \/ CreaCartella(f) \/ Tronca(f)
    \/ Chiudi \/ Tempo \/ Sync \/ Smonta \/ Fsync \/ Monta

Passo ==
    \/ BlkWrite \/ BlkFlush \/ Scarica \/ Vuota
    \/ giornale_inizio \/ giornale_fine \/ giornale_commit
    \/ prenotazione_chiudi \/ alloca_blocco \/ dir_scrivi \/ scrivi_inode
    \/ giornale_liberato \/ libera_blocco \/ giornale_dati
    \/ Torna \/ FsyncFlush

Male == ErroreDisco \/ ErroreDati \/ FsyncErrore \/ Taglio

Next == Inizia \/ Passo \/ Male

Spec == Init /\ [][Next]_vars

-----------------------------------------------------------------------------
(* Properties.                                                             *)

(* A mounted volume between two calls is consistent, whatever cuts and     *)
(* errors came before: a file's block is taken in the bitmap, belongs to   *)
(* that file alone, and holds what that file wrote - never what another    *)
(* one did before or after it ("the volume stays consistent").  A block    *)
(* may be taken by nobody: a cut loses the reservation's record only.      *)
VolumeCoerente ==
    fase = "montato" /\ op = Niente =>
        \A p \in Vista(Ino) :
            /\ p[2] \in Vista(Bm(Gruppo[p[2]]))
            /\ Vista(Dato(p[2])) = {p[1]}
            /\ \A q \in Vista(Ino) : q[2] = p[2] => q = p

(* After a sync that returned 0 a power cut loses nothing: the replay      *)
(* gives the metadata the programs see, and the files' data are on disk.   *)
SyncPromette ==
    promesso =>
        /\ \A a \in Meta : Recuperato(duro)[a] = Vista(a)
        /\ \A p \in Vista(Ino) : duro[Dato(p[2])] = {p[1]}

(* fsync that returned 0 left no change of before it uncommitted ("only    *)
(* fsync promises the disk").                                              *)
FsyncPromette == fs = "ok" => ~debito

(* The operation has changed something, or may from here on, and its inode *)
(* is still to be written.                                                 *)
Dentro ==
    /\ op.che \in {"prenotato", "coda", "cartella", "tronca"}
    /\ op.pc \notin {"inizio", "fine"}
    /\ op.pc = "chiudi" => op.che = "coda"

(* The bitmap of group g as the call under way will leave it, up to the    *)
(* point where a transaction may be committed before the operation begins. *)
BitmapNuova(g) ==
    LET rimane == IF op.pc = "chiudi" THEN Presi(g) ELSE Vista(Bm(g))
        libera == IF Dentro /\ g \in op.resta THEN Suoi(op.f) ELSE {}
        prende == IF Dentro /\ op.pc \in {"chiudi", "bitmap"} /\ g = Gruppo[op.b]
                  THEN {op.b} \cup op.altri ELSE {}
    IN  (rimane \ libera) \cup prende

(* The metadata the programs see once the call under way is over.          *)
Visto ==
    IF fase # "montato" THEN Recuperato(ora)
    ELSE [a \in Meta |-> IF a # Ino THEN BitmapNuova(a[2])
                         ELSE IF Dentro THEN InodeNuovo ELSE Vista(Ino)]

(* The journal implements the volume that is never cut in half: what a     *)
(* power cut leaves moves only from one whole view to another.             *)
Promessa == INSTANCE Volume WITH visto <- Visto, salvo <- Recuperato(duro)

ImplementaVolume == Promessa!Spec
=============================================================================
