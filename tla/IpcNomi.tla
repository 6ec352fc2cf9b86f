------------------------------ MODULE IpcNomi ------------------------------
(***************************************************************************)
(* The registry of service names of EX-OS (kernel/ipc/ipc.c): one table    *)
(* for the whole system, looked through with interrupts off.  An entry     *)
(* counts only while its process lives: the table is not swept when a      *)
(* process ends, but when its zombie is collected.                         *)
(***************************************************************************)
EXTENDS Naturals

CONSTANTS
    Processi,       \* the processes of a behaviour (pids are not given twice)
    Nessuno,        \* pid 0, and the empty name: an entry never used, or swept
    Nomi,           \* service names
    Utente,         \* uid of each process
    Prefisso,       \* uid a name is prefixed with; 0 for a name without prefix
    NomiMax         \* IPC_NOMI_MAX

ASSUME NomiMaxAssumption == NomiMax \in Nat \ {0}
ASSUME NessunoAssumption == Nessuno \notin Processi \cup Nomi
ASSUME UtenteAssumption  == Utente \in [Processi -> Nat] /\ Prefisso \in [Nomi -> Nat]

VARIABLES
    stato,          \* "vivo", "zombie" or "via" for each process
    g_nomi          \* the table

vars == <<stato, g_nomi>>

Voci == 1..NomiMax

\* Mutant: an entry counts until its process is collected.
voce_viva_zombie(i) ==
    g_nomi[i].pid # Nessuno /\ stato[g_nomi[i].pid] # "via"

\* The entry of a process that is dead, collected or not, does not count.
voce_viva(i) == g_nomi[i].pid # Nessuno /\ stato[g_nomi[i].pid] = "vivo"

\* Some live process holds this name.
Registrato(n) == \E i \in Voci : voce_viva(i) /\ g_nomi[i].nome = n

Init ==
    /\ stato = [p \in Processi |-> "vivo"]
    /\ g_nomi = [i \in Voci |-> [pid |-> Nessuno, nome |-> Nessuno]]

\* root takes any name, a user only those that begin with its uid.
Permesso(p, n) == Utente[p] = 0 \/ Prefisso[n] = Utente[p]

\* The first entry that is free or of a process that is gone.
VoceScelta(i) == ~voce_viva(i) /\ \A j \in Voci : j < i => voce_viva(j)

\* Mutant: a process has one entry, which its next name overwrites.
ipc_register_sovrascrive(p, n) ==
    /\ stato[p] = "vivo" /\ ~Registrato(n) /\ Permesso(p, n)
    /\ \E i \in Voci :
         /\ IF \E j \in Voci : g_nomi[j].pid = p THEN g_nomi[i].pid = p ELSE VoceScelta(i)
         /\ g_nomi' = [g_nomi EXCEPT ![i] = [pid |-> p, nome |-> n]]
    /\ UNCHANGED stato

\* Mutant: the table is not searched for the name first.
ipc_register_senza_cercare(p, n) ==
    /\ stato[p] = "vivo" /\ Permesso(p, n)
    /\ \E i \in Voci : /\ VoceScelta(i)
                       /\ g_nomi' = [g_nomi EXCEPT ![i] = [pid |-> p, nome |-> n]]
    /\ UNCHANGED stato

\* What ipc_register answers, in the order of its checks.
Esito(p, n) ==
    IF Registrato(n) THEN "EEXIST"
    ELSE IF ~Permesso(p, n) THEN "EPERM"
    ELSE IF ~\E i \in Voci : VoceScelta(i) THEN "ENOSPC"
    ELSE "ok"

\* ipc_register: EEXIST, EPERM and ENOSPC change nothing.
ipc_register(p, n) ==
    /\ stato[p] = "vivo" /\ Esito(p, n) = "ok"
    /\ \E i \in Voci : /\ VoceScelta(i)
                       /\ g_nomi' = [g_nomi EXCEPT ![i] = [pid |-> p, nome |-> n]]
    /\ UNCHANGED stato

\* proc_esci: the table is left as it is.
Finisce(p) ==
    /\ stato[p] = "vivo"
    /\ stato' = [stato EXCEPT ![p] = "zombie"]
    /\ UNCHANGED g_nomi

\* ipc_cleanup_process, from proc_reap_zombie: every entry with this pid.
ipc_cleanup_process(p) ==
    /\ stato[p] = "zombie"
    /\ stato' = [stato EXCEPT ![p] = "via"]
    /\ g_nomi' = [i \in Voci |-> IF g_nomi[i].pid = p
                                 THEN [pid |-> Nessuno, nome |-> g_nomi[i].nome]
                                 ELSE g_nomi[i]]

Next == \E p \in Processi :
          Finisce(p) \/ ipc_cleanup_process(p) \/ \E n \in Nomi : ipc_register(p, n)

Spec == Init /\ [][Next]_vars

-----------------------------------------------------------------------------
(* Properties.                                                             *)

\* The table holds processes and names.
TypeOK ==
    /\ stato \in [Processi -> {"vivo", "zombie", "via"}]
    /\ g_nomi \in [Voci -> [pid : Processi \cup {Nessuno}, nome : Nomi \cup {Nessuno}]]

\* ipc_lookup has one answer: no name is held by two live entries, whatever
\* dead entries of the same name the table still contains.
NomeDiUno ==
    \A i, j \in Voci : voce_viva(i) /\ voce_viva(j) /\ g_nomi[i].nome = g_nomi[j].nome
                       => i = j

\* A service keeps its name, whatever the others do, and whatever other names
\* it takes, for as long as it lives.
NomeTenuto ==
    [][\A i \in Voci : voce_viva(i) /\ stato'[g_nomi[i].pid] = "vivo"
                       => g_nomi'[i] = g_nomi[i]]_vars

\* The name of a service can be taken again from the moment it dies, collected
\* or not, unless live processes fill the table.
NomeRipreso ==
    \A p \in Processi, n \in Nomi :
        /\ stato[p] = "vivo" /\ Utente[p] = 0
        /\ \A q \in Processi, i \in Voci :
              stato[q] = "vivo" /\ g_nomi[i].pid = q => g_nomi[i].nome # n
        /\ \E i \in Voci : \A q \in Processi : stato[q] = "vivo" => g_nomi[i].pid # q
        => Esito(p, n) = "ok"

\* ipc_lookup: the holder of a name.
ipc_lookup(n) ==
    IF Registrato(n)
    THEN g_nomi[CHOOSE i \in Voci : voce_viva(i) /\ g_nomi[i].nome = n].pid
    ELSE Nessuno

R == INSTANCE Registro WITH di <- [n \in Nomi |-> ipc_lookup(n)]

\* Seen through ipc_lookup the table is a registry: a name changes hands only
\* through the death of its holder, and is free again the moment it dies.
ImplementaRegistro == R!Spec
=============================================================================
