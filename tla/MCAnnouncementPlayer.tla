------------------------ MODULE MCAnnouncementPlayer ------------------------
(* Instances of AnnouncementPlayer for TLC. *)
EXTENDS AnnouncementPlayer

CONSTANTS accepted, rejected, silent, unknown  \* codes, and a string that is none

MCCodes == {accepted, rejected, silent}
MCFiles == {accepted, rejected}       \* the WAV of `silent` is missing
MCReceived == {accepted, rejected, silent, unknown}
=============================================================================
