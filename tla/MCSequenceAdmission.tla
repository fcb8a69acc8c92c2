------------------------ MODULE MCSequenceAdmission ------------------------
(* A primary and a backup link, two staged files, two contexts. *)
EXTENDS SequenceAdmission

MCOwners == {[port |-> 0, config |-> ProfileConfig("sband-primary")],
             [port |-> 1, config |-> ProfileConfig("uhf-backup")]}

\* Either link may run the first file, only the primary one the second.
MCFiles == {[header |-> TRUE, crc |-> TRUE, records |-> <<"STATUS", "END">>],
            [header |-> TRUE, crc |-> TRUE, records |-> <<"STATUS", "CONTROL">>]}
=============================================================================
