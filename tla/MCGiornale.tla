----------------------------- MODULE MCGiornale -----------------------------
(* One file, one directory, two blocks, a journal of twelve blocks.        *)
EXTENDS Giornale

CONSTANTS A, D

copia(v) == [tipo |-> "copia", v |-> v]

(* A volume mkfs has just made: nothing taken, the journal empty.          *)
Vuoto == [a \in Indirizzi |->
            CASE a = Jsb -> [seq |-> 3, start |-> 0]
              [] a = Sb -> FALSE
              [] a \in Posti -> {}
              [] OTHER -> copia({})]

(* A volume Linux left at a power cut, with what EX-OS never writes        *)
(* itself: transaction 1 (blocks 4-8) makes the directory D in block 1;    *)
(* 2 (9-11 and 1, past the end of the ring) revokes block 1 and gives it   *)
(* to the file A, whose data are in place; 3 (2 and 3) takes block 2 and   *)
(* was not committed.                                                      *)
DiLinux == [Vuoto EXCEPT
    ![Jsb] = [seq |-> 1, start |-> 4], ![Sb] = TRUE, ![Dato(1)] = {A},
    ![Gio(4)] = [tipo |-> "desc", seq |-> 1, tag |-> <<Bm(1), Dato(1), Ino>>],
    ![Gio(5)] = copia({1}), ![Gio(6)] = copia({D}), ![Gio(7)] = copia({<<D, 1>>}),
    ![Gio(8)] = [tipo |-> "commit", seq |-> 1],
    ![Gio(9)] = [tipo |-> "revoca", seq |-> 2, blk |-> {Dato(1)}],
    ![Gio(10)] = [tipo |-> "desc", seq |-> 2, tag |-> <<Ino>>],
    ![Gio(11)] = copia({<<A, 1>>}),
    ![Gio(1)] = [tipo |-> "commit", seq |-> 2],
    ![Gio(2)] = [tipo |-> "desc", seq |-> 3, tag |-> <<Bm(1)>>],
    ![Gio(3)] = copia({1, 2})]

UnGruppo == [b \in Dati |-> 1]
DueGruppi == [b \in Dati |-> IF b = 1 THEN 1 ELSE 2]

Volumi == {Vuoto, DiLinux}
Formattato == {Vuoto}
=============================================================================
