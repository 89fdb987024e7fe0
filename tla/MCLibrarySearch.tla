-------------------------- MODULE MCLibrarySearch ---------------------------
(***************************************************************************)
(* Two basenames, a name with and one without a slash, two paths.          *)
(***************************************************************************)
EXTENDS LibrarySearch

MCPaths   == <<"", "/system/lib">>
MCTooLong == { <<1, [dir |-> "/data", base |-> "libb.so"]>> }
MCDirs    == {"", "/data"}
MCLong    == {"libb.so"}
MCBase    == {"liba.so", "libb.so"}
=============================================================================
