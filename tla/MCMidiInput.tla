---------------------------- MODULE MCMidiInput -----------------------------
(* Messages of two data bytes and of one.                                   *)
EXTENDS MidiInput

DataBytes == [t \in Type |-> IF t = kmmNoteOff THEN 2 ELSE 1]
=============================================================================
