------------------------------ MODULE MCFolder ------------------------------
(* A mod with archives of many shapes, and two of the core mods.           *)
EXTENDS GameFolder, TLC

File(p) == [path |-> p, dir |-> FALSE]
Folder(p) == [path |-> p, dir |-> TRUE]
MCPlugin == <<"BepInEx", "plugins", "a.dll">>
MCServerFile == <<"SPT", "user", "mods", "a.js">>
MCCore == <<"BepInEx", "plugins", "Fika", "Core.dll">>
MCHeadless == <<"BepInEx", "plugins", "Fika", "Headless.dll">>
MCGenerated == <<"BepInEx", "plugins", "Fika", "gen.cfg">>

MCReleases ==
  [m \in FolderMods |->
    { {File(MCPlugin), File(MCServerFile), Folder(<<"SPT">>)},
      {Folder(<<"w">>), File(<<"w">> \o MCPlugin), File(<<"w", "bepinex", "plugins", "b.dll">>)},
      {File(<<"bepinex", "Plugins", "a.dll">>), File(<<"readme">>)},
      {File(<<"bepinex", "Plugins", "a.dll">>), File(MCPlugin)} }]
  @@ ("client" :> {{File(MCCore)}} @@ "headless" :> {{File(MCHeadless)}})
MCSpelling == [bepinex |-> "BepInEx", Plugins |-> "plugins"]
MCCorePaths == [client |-> {<<"BepInEx", "plugins", "Fika">>}, headless |-> {MCHeadless}]
MCExclude == [client |-> {MCHeadless}, headless |-> {}]
MCCoreFiles == [client |-> {MCCore}, headless |-> {MCHeadless}]
MCCoreMods == <<"client", "headless">>
MCGameFiles == {MCGenerated}

\* One core mod lies inside the other's directory and is in its list of exclusions,
\* so they and the ordinary mods stay apart.
ASSUME CoreModsAreApart == CoreApart
=============================================================================
