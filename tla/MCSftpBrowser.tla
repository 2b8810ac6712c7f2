---------------------------- MODULE MCSftpBrowser ----------------------------
(* A directory and a file that may be in it; somebody else adds and removes the *)
(* file in the directory.                                                       *)
EXTENDS SftpBrowser

CONSTANTS d, f

SmallNames == {d, f}
SmallPaths == {<<d>>, <<f>>, <<d, f>>}
FileInside == {<<d, f>>}
=============================================================================
