------------------------- MODULE MCPluginLifecycle -------------------------
(***************************************************************************)
(* Instance of PluginLifecycle for TLC: KuGou's two executables, and two   *)
(* others that might load a version.dll from beside them.                  *)
(***************************************************************************)
EXTENDS PluginLifecycle

MCPaths ==
    {<<"KGMusic", "KuGou.exe">>,
     <<"KGMusic", "8.3.97.21592", "KuGou.exe">>,
     <<"Other", "8.3.97.21592", "KuGou.exe">>,
     <<"KGMusic", "KuGouTray.exe">>}

=============================================================================
