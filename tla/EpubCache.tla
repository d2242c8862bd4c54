------------------------------ MODULE EpubCache ------------------------------
(***************************************************************************)
(* The cache that turns an EPUB into a text file, a spine map and a cover  *)
(* (src/services/book/epub_cache_engine.cpp), with the files it keeps in   *)
(* the book's directory on the card and what a pulled card, a failing      *)
(* write and a loss of power leave of them.  A book is known by the        *)
(* versions its file may have; what a version extracts to is known by the  *)
(* version, which its fingerprint need not tell.  One engine works on the  *)
(* cache of a book at a time: what two of them do to it is in BookCatalog. *)
(***************************************************************************)
EXTENDS Naturals, Sequences

CONSTANTS
    LastVersion,        \* bound: how often the book is edited, plus one
    Fingerprint,        \* [Versions -> ...]: the size of a version's file and the CRCs
                        \* of its first, middle and last 4 KiB
    ContentSize,        \* [Versions -> sizes]: the size of a version's text
    CoverSize,          \* [Versions -> sizes]: the size of its cover, 0 without one
    SpineItems,         \* package_.spine_count
    LastPaging,         \* bound: the last BOOK_PAGINATION_VERSION
    Missing,            \* no such file
    MaxSwaps,           \* bound: times the card is taken out
    MaxPowerLosses,     \* bound
    MaxEpubFailures     \* bound: reads, writes and renames that fail

\* The versions of the EPUB, in the order they were written.
Versions == 1 .. LastVersion

\* The fingerprint takes one version for the other.
Alike(u, v) == Fingerprint[u] = Fingerprint[v]

ASSUME EpubAssumption ==
    /\ LastVersion \in Nat \ {0} /\ SpineItems \in Nat \ {0} /\ Missing \notin Nat
    /\ LastPaging \in Nat \ {0}
    /\ ContentSize \in [Versions -> Nat \ {0}] /\ CoverSize \in [Versions -> Nat]

\* An edit that the fingerprint shows is not taken back by a later one.
ASSUME EditAssumption ==
    \A u, v, w \in Versions : u <= v /\ v <= w /\ Alike(u, w) => Alike(u, v)

Parts == {"content", "map", "cover"}

VARIABLES
    card,       \* the EPUB on the card, its modification time and the generation
    files,      \* epub_content.txt, epub_spine.map, epub_cover.bin: of which version
    temps,      \* their .tmp files, when they are complete
    saved,      \* epub_metadata.json
    savedTemp,  \* its .tmp
    paging,     \* BOOK_PAGINATION_VERSION of the running firmware
    epub,       \* the engine: phase_, generation_, metadata_, spine_index_, and the
                \* rest of the file operations of the step it is in
    swaps, losses, epubFailures

epubVars == <<card, files, temps, saved, savedTemp, paging, epub, swaps, losses,
              epubFailures>>

Metadata == [source : Versions, stat : 0 .. 1, cover : BOOLEAN, place : Nat,
             paging : 1 .. LastPaging]
IdleEpub == [phase |-> "idle", generation |-> 0, metadata |-> Missing, spine |-> 0,
             todo |-> <<>>]

EpubTypeOK ==
    /\ card.version \in Versions /\ card.stat \in 0 .. 1
    /\ files \in [Parts -> Versions \cup {Missing}]
    /\ temps \in [Parts -> Versions \cup {Missing}]
    /\ saved = Missing \/ saved \in Metadata
    /\ savedTemp = Missing \/ savedTemp \in Metadata
    /\ paging \in 1 .. LastPaging
    /\ epub.phase \in {"idle", "cover", "spine", "finalize", "validate", "save", "ready",
                       "failed"}
    /\ epub.metadata = Missing \/ epub.metadata \in Metadata

EpubInit ==
    /\ card = [version |-> 1, stat |-> 0, generation |-> 1]
    /\ files = [p \in Parts |-> Missing] /\ temps = [p \in Parts |-> Missing]
    /\ saved = Missing /\ savedTemp = Missing /\ paging = 1 /\ epub = IdleEpub
    /\ swaps = 0 /\ losses = 0 /\ epubFailures = 0

\* Every request carries the generation of the card it was made for.
MediaValid == epub.generation = card.generation

Fails == epubFailures < MaxEpubFailures /\ epubFailures' = epubFailures + 1

cardOnly == <<card, paging, swaps, losses>>
diskOnly == <<files, temps, saved, savedTemp>>

-----------------------------------------------------------------------------
(* open                                                                    *)

\* validate_cached and load_map: the metadata names a book with the fingerprint of the
\* one on the card, and the files have the sizes it gives.
Valid ==
    /\ saved # Missing /\ Alike(saved.source, card.version)
    /\ \A p \in {"content", "map"} :
          files[p] # Missing /\ ContentSize[files[p]] = ContentSize[saved.source]
    /\ saved.cover =>
          files["cover"] # Missing /\ CoverSize[files["cover"]] = CoverSize[saved.source]

\* The operations of write_metadata: the .tmp file, then replace, which removes the
\* old file before it renames the new one (hal_storage_replace_system_file).
Replacing(name) == << <<"remove", name>>, <<"rename", name>> >>
WriteMetadata == << <<"write", "metadata">> >> \o Replacing("metadata")

\* begin_rebuild: the cover first, if the package has one that can be read.
Rebuild ==
    LET withCover == CoverSize[card.version] > 0 IN
       epub' = [phase |-> IF withCover THEN "cover" ELSE "spine",
                generation |-> card.generation,
                metadata |-> [source |-> card.version, stat |-> card.stat,
                              cover |-> withCover, place |-> 0, paging |-> paging],
                spine |-> 0, todo |-> <<>>]

\* What a valid cache says, for the book's modification time and the running firmware:
\* a place among other pages is given up.
Renewed(metadata) ==
    [metadata EXCEPT !.stat = card.stat, !.paging = paging,
                     !.place = IF metadata.paging = paging THEN @ ELSE 0]

\* A valid cache is used as it is; one that says otherwise gets new metadata first.
OpenValid ==
    /\ epub.phase \in {"idle", "ready", "failed"} /\ Valid
    /\ LET current == saved = Renewed(saved) IN
          epub' = [phase |-> IF current THEN "ready" ELSE "validate",
                   generation |-> card.generation, spine |-> 0,
                   metadata |-> Renewed(saved),
                   todo |-> IF current THEN <<>> ELSE WriteMetadata]
    /\ UNCHANGED <<epubFailures, cardOnly, diskOnly>>

\* Any other cache is built anew, also when a read of a valid one failed or the map is
\* another version's and has the place in another item.
OpenRebuilds ==
    /\ epub.phase \in {"idle", "ready", "failed"}
    /\ IF Valid /\ files["map"] = saved.source THEN Fails ELSE UNCHANGED epubFailures
    /\ Rebuild
    /\ UNCHANGED <<cardOnly, diskOnly>>

-----------------------------------------------------------------------------
(* step: one entry of the archive, or finalize.                            *)

Failed == epub' = [IdleEpub EXCEPT !.phase = "failed"]

\* The cover was extracted into its temporary file.
CoverDone ==
    /\ epub.phase = "cover" /\ MediaValid
    /\ temps' = [temps EXCEPT !["cover"] = epub.metadata.source]
    /\ epub' = [epub EXCEPT !.phase = "spine"]
    /\ UNCHANGED <<epubFailures, files, saved, savedTemp, cardOnly>>

\* A cover that cannot be extracted is done without, while the card is there.
CoverFails ==
    /\ epub.phase = "cover" /\ MediaValid /\ Fails
    /\ temps' = [temps EXCEPT !["cover"] = Missing]
    /\ epub' = [epub EXCEPT !.phase = "spine", !.metadata.cover = FALSE]
    /\ UNCHANGED <<files, saved, savedTemp, cardOnly>>

\* finish_spine: the text of an item was appended to the temporary file; begin_spine.
SpineDone ==
    /\ epub.phase = "spine" /\ MediaValid
    /\ LET last == epub.spine + 1 = SpineItems IN
          /\ epub' = [epub EXCEPT !.spine = @ + 1,
                                  !.phase = IF last THEN "finalize" ELSE "spine"]
          /\ temps' = [temps EXCEPT !["content"] =
                                       IF last THEN epub.metadata.source ELSE Missing]
    /\ UNCHANGED <<epubFailures, files, saved, savedTemp, cardOnly>>

SpineFails ==
    /\ epub.phase = "spine" /\ MediaValid /\ Fails /\ Failed
    /\ temps' = [temps EXCEPT !["content"] = Missing]
    /\ UNCHANGED <<files, saved, savedTemp, cardOnly>>

\* Faulty variant: the metadata is published before the files it describes.
PublishingEarly(withCover) ==
    << <<"write", "map">> >> \o WriteMetadata \o Replacing("content") \o
    Replacing("map") \o IF withCover THEN Replacing("cover") ELSE <<>>

\* finalize: the text, the map and the cover, then the metadata that names them.
Publishing(withCover) ==
    << <<"write", "map">> >> \o Replacing("content") \o Replacing("map") \o
    (IF withCover THEN Replacing("cover") ELSE <<>>) \o WriteMetadata

Finalize ==
    /\ epub.phase = "finalize" /\ epub.todo = <<>> /\ MediaValid
    /\ epub' = [epub EXCEPT !.todo = Publishing(epub.metadata.cover)]
    /\ UNCHANGED <<epubFailures, cardOnly, diskOnly>>

\* save: the place of the reader, in the text of a cache that is ready.
SavePlace ==
    /\ epub.phase = "ready"
    /\ \E place \in 0 .. ContentSize[epub.metadata.source] - 1 :
          epub' = [epub EXCEPT !.phase = "save", !.metadata.place = place,
                               !.todo = WriteMetadata]
    /\ UNCHANGED <<epubFailures, cardOnly, diskOnly>>

\* One file operation.
FileOperation ==
    /\ epub.todo # <<>> /\ MediaValid
    /\ LET op == Head(epub.todo)[1]
           name == Head(epub.todo)[2]
           source == IF op = "write" THEN epub.metadata.source
                     ELSE IF op = "rename" THEN temps[name] ELSE Missing
       IN  IF name = "metadata"
           THEN /\ saved' = IF op = "remove" THEN Missing
                            ELSE IF op = "rename" THEN savedTemp ELSE saved
                /\ savedTemp' = IF op = "write" THEN epub.metadata
                                ELSE IF op = "rename" THEN Missing ELSE savedTemp
                /\ UNCHANGED <<files, temps>>
           ELSE /\ files' = IF op = "write" THEN files ELSE [files EXCEPT ![name] = source]
                /\ temps' = IF op = "write" THEN [temps EXCEPT ![name] = source]
                            ELSE IF op = "rename" THEN [temps EXCEPT ![name] = Missing]
                            ELSE temps
                /\ UNCHANGED <<saved, savedTemp>>
    /\ epub' = [epub EXCEPT !.todo = Tail(@),
                            !.phase = IF Len(epub.todo) = 1 THEN "ready" ELSE @]
    /\ UNCHANGED <<epubFailures, cardOnly>>

\* An operation that fails, or finds another card: finalize fails, a save is given
\* up, a validation becomes a rebuild.
OperationFails ==
    /\ epub.todo # <<>>
    /\ IF MediaValid THEN Fails ELSE UNCHANGED epubFailures
    /\ \/ epub.phase = "finalize" /\ Failed
       \/ epub.phase = "save" /\ epub' = [epub EXCEPT !.phase = "ready", !.todo = <<>>]
       \/ epub.phase = "validate" /\ MediaValid /\ Rebuild
       \/ epub.phase = "validate" /\ ~ MediaValid /\ Failed
    /\ UNCHANGED <<cardOnly, diskOnly>>

\* cancel, between two steps: the session ends.
CancelEpub ==
    /\ epub.phase # "idle" /\ epub.todo = <<>> /\ epub' = IdleEpub
    /\ UNCHANGED <<epubFailures, cardOnly, diskOnly>>

-----------------------------------------------------------------------------
(* The card and the power.                                                 *)

\* The card comes back as it was, with a book that was touched or with one that was
\* edited.
SwapCard ==
    /\ swaps < MaxSwaps /\ swaps' = swaps + 1
    /\ \E v \in card.version .. LastVersion, s \in 0 .. 1 :
          card' = [version |-> v, stat |-> s, generation |-> card.generation + 1]
    /\ UNCHANGED <<epub, paging, losses, epubFailures, diskOnly>>

\* The next firmware may paginate differently.
LosePower ==
    /\ losses < MaxPowerLosses /\ losses' = losses + 1
    /\ epub' = IdleEpub /\ paging' \in paging .. LastPaging
    /\ UNCHANGED <<card, swaps, epubFailures, diskOnly>>

EpubNext ==
    \/ OpenValid \/ OpenRebuilds \/ CoverDone \/ CoverFails \/ SpineDone \/ SpineFails
    \/ Finalize \/ SavePlace \/ FileOperation \/ OperationFails \/ CancelEpub
    \/ SwapCard \/ LosePower

EpubSpec == EpubInit /\ [][EpubNext]_epubVars
-----------------------------------------------------------------------------
\* A cache that is ready holds a text, a map and a cover of versions the fingerprint
\* does not tell from the book on the card, and a place in that text among the pages of
\* the running firmware, wherever the power was lost, an operation failed, the card was
\* edited or the firmware changed during earlier rebuilds (validate_cached, finalize).
CacheSound ==
    epub.phase \in {"ready", "save"} /\ MediaValid =>
        /\ \A p \in {"content", "map"} :
              files[p] # Missing /\ Alike(files[p], card.version)
        /\ epub.metadata.cover =>
              files["cover"] # Missing /\ Alike(files["cover"], card.version)
        /\ epub.metadata.place < ContentSize[files["content"]]
        /\ epub.metadata.paging = paging
=============================================================================
