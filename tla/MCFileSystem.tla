----------------------------- MODULE MCFileSystem -----------------------------
(* The instance of FileSystem for TLC. *)
EXTENDS FileSystem, TLC

\* Two entries in three sectors: each of them lies across two.
MCHeadIn == <<1, 2>>
MCNameIn == <<2, 3>>

MCBuffer == {<<1>>, <<1, 1>>}
MCFileSize == {1, 3}
MCNames == Permutations(FileName)
=============================================================================
