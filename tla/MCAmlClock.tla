----------------------------- MODULE MCAmlClock ------------------------------
(* AmlClock with the commands of the clients in three sets: the time; the     *)
(* settings; the alarms, which have a response code of their own.             *)
EXTENDS AmlClock

MCJeux == {{"heure"}, {"autre", "time"}, {"alarme"}}
=============================================================================
