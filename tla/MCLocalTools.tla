---------------------------- MODULE MCLocalTools ----------------------------
(***************************************************************************)
(* A desk for LocalTools: two images with different names and one that has *)
(* the name of the first, a folder of a game, an earlier extraction, a     *)
(* FATX volume and a console.                                              *)
(***************************************************************************)
EXTENDS LocalTools

CONSTANTS Hdd, Games, User

Listing(dir, name, isDir, at, size) ==
  [dir |-> dir, name |-> name, isDir |-> isDir, at |-> at, size |-> size]

\* A directory with a file in it, next to a file of two chunks.
ImageA ==
  <<Table(<<Listing(<<>>, "default.xex", FALSE, 2, 2), Listing(<<>>, "media", TRUE, 4, 0),
            Listing(<<"media">>, "a.xmv", FALSE, 4, 1)>>),
    Data("a1"), Data("a2"), Data("a3")>>

\* An empty file and one that is in the first image too.
ImageB ==
  <<Table(<<Listing(<<>>, "empty", FALSE, 2, 0), Listing(<<>>, "default.xex", FALSE, 2, 1)>>),
    Data("b1")>>

EmptyImage == <<Table(<<>>)>>

Game == <<"games", "g">>

MCDisk ==
  [dir \in {<<>>, <<"iso">>, <<"old">>, <<"games">>, Game, Append(Game, "media"), <<"x">>} |-> Dir] @@
  <<"iso", "a.iso">> :> File(ImageA) @@
  <<"iso", "b.iso">> :> File(ImageB) @@
  <<"iso", "a.xiso">> :> File(ImageB) @@
  <<"old", "none.iso">> :> File(EmptyImage) @@
  Append(Game, "default.xex") :> File(<<Data("g1"), Data("g2")>>) @@
  Game \o <<"media", "a.xmv">> :> File(<<Data("g3")>>) @@
  <<"x", "save">> :> File(<<Data("s1"), Data("s2")>>) @@
  <<"g.iso">> :> File(<<Data("i1"), Data("i2")>>)

MCRemote == [dir \in {<<>>, <<Hdd>>, <<User>>} |-> Dir]

Unpack(sources) == [kind |-> "unpack", dest |-> <<"out">>, sources |-> sources]
Build(sources, dest) == [kind |-> "pack", dest |-> dest, sources |-> sources]
Upload(dir) == [kind |-> "upload", dest |-> <<>>, sources |-> <<dir>>]
Extract(volume, dir, dest) ==
  [kind |-> "extract", volume |-> volume, dest |-> dest, sources |-> <<dir>>]

Named(name, kind, first) == [name |-> name, kind |-> kind, first |-> first]

\* The root has a file "save" and a directory "cache"; the other volume has a
\* directory "save" with two files, the second of which is lost in part.
Flat ==
  [root |-> 1, damaged |-> FALSE,
   dirs |-> 1 :> [entries |-> <<Named("save", "file", 3), Named("cache", "dir", 2)>>, ended |-> TRUE] @@
            2 :> [entries |-> <<Named("save", "file", 4)>>, ended |-> TRUE]]
Deep ==
  [root |-> 1, damaged |-> TRUE,
   dirs |-> 1 :> [entries |-> <<Named("save", "dir", 2)>>, ended |-> TRUE] @@
            2 :> [entries |-> <<Named("p", "file", 3), Named("q", "file", 5)>>, ended |-> FALSE]]

TwoImages == <<<<"iso", "a.iso">>, <<"iso", "b.iso">>>>
OneImage == <<<<"iso", "a.xiso">>>>
Namesakes == <<<<"iso", "a.iso">>, <<"iso", "a.xiso">>>>
NoEntries == <<<<"old", "none.iso">>>>
Built == <<"g.iso">>

MCJobs == {1, 2}
\* One job alone, the same job clicked twice, and jobs that use each other's files
\* or none of them.
MCSessions ==
  {<<Unpack(TwoImages), NoJob>>, <<Unpack(Namesakes), NoJob>>,
   <<Build(<<Game>>, Append(Game, "g.iso")), NoJob>>,
   <<Build(<<Game>>, Built), Build(<<Game>>, Built)>>,
   <<Upload(Game), Upload(Game)>>,
   <<Build(<<Game>>, Built), Unpack(<<Built>>)>>,
   <<Unpack(<<Game>>), Build(TwoImages, Built)>>,
   <<Unpack(OneImage), Upload(<<"out">>)>>, <<Unpack(NoEntries), Upload(<<"out">>)>>,
   <<Extract(Deep, <<Root, "save">>, <<"out">>), Upload(<<"out">>)>>,
   <<Extract(Flat, <<Root>>, <<"x">>), Unpack(OneImage)>>}

\* Two images of one stem in a batch, as a dialog that shows both types gives them.
StemSessions == {<<Unpack(Namesakes), NoJob>>}

MCContent == 3 :> <<Data("v1")>> @@ 4 :> <<Data("v2"), Data("v3")>> @@ 5 :> <<Data("v4"), LostData>>
MCNames ==
  {"a.iso", "a.xiso", "b.iso", "none.iso", "g.iso", "a", "b", "none", "g", "iso", "old", "games", "x", "out",
   "default.xex", "media", "a.xmv", "empty", "save", "cache", "p", "q", Hdd, Games, User}
MCBytes ==
  {"a1", "a2", "a3", "b1", "g1", "g2", "g3", "s1", "s2", "i1", "i2", "v1", "v2", "v3", "v4",
   "lost", "zeros"}
MCStem == [name \in MCNames |->
            CASE name \in {"a.iso", "a.xiso"} -> "a" [] name = "b.iso" -> "b" [] name = "none.iso" -> "none"
              [] name = "g.iso" -> "g" [] OTHER -> name]
MCBase == <<Hdd, Games>>
MCLoginDirs == {<<>>, <<User>>}
MCDisks == {MCDisk}
MCRemotes == {MCRemote}
MCLost == Data("lost")
=============================================================================
