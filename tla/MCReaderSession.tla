-------------------------- MODULE MCReaderSession --------------------------
(* One TXT file and one EPUB with a cover, of three pages, for TLC.        *)
EXTENDS ReaderSession

CONSTANTS tale, comic
=============================================================================
