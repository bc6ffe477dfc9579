-------------------------- MODULE MCSandboxManager --------------------------
(* The mixes of concurrent calls SandboxManager is checked with. *)
EXTENDS SandboxManager

CreateDestroys == {<<"create", 1>>, <<"destroy", 1>>, <<"destroy", 2>>, <<"flatten", 1>>}
CreateShutdown == {<<"create", 1>>, <<"shutdown", 1>>}
PausesDestroy == {<<"pause", 1>>, <<"pause", 2>>, <<"resume", 1>>, <<"destroy", 1>>}
PausesSnapshot == {<<"pause", 1>>, <<"pause", 2>>, <<"resume", 1>>, <<"snapshot", 1>>}
SnapshotDestroy == {<<"snapshot", 1>>, <<"pause", 1>>, <<"resume", 1>>, <<"destroy", 1>>}
ShutdownDestroy == {<<"shutdown", 1>>, <<"pause", 1>>, <<"destroy", 1>>}
ShutdownReap == {<<"shutdown", 1>>, <<"pause", 1>>, <<"reap", 1>>}
ReapDestroy == {<<"shutdown", 1>>, <<"reap", 1>>, <<"destroy", 1>>}
ManagerMixes == {CreateDestroys, CreateShutdown, PausesDestroy, PausesSnapshot, SnapshotDestroy,
                 ShutdownDestroy, ShutdownReap, ReapDestroy}
PauseDestroy == {{<<"pause", 1>>, <<"destroy", 1>>}}
PauseResume == {{<<"pause", 1>>, <<"resume", 1>>}}
LateResume == {{<<"pause", 1>>, <<"resume", 1>>, <<"shutdown", 1>>}}
=============================================================================
