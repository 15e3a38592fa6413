-------------------------- MODULE MCAlbumTransfer --------------------------
(* Requests for AlbumTransfer with two files: one file, both files, a file   *)
(* and a stream.                                                            *)
EXTENDS AlbumTransfer

SomeRequests == {{0}, {1}, {0, 1}, {1, 2}}
=============================================================================
