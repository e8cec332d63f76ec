---------------------------- MODULE MCParameters ----------------------------
(***************************************************************************)
(* Small instances of Parameters: storage classes with deletion parameters *)
(* of every short value over an alphabet in which tag and JSON characters, *)
(* spaces and words meet, classes with everything that can be wrong with a *)
(* parameter map, and what an administrator may write into a tag.          *)
(***************************************************************************)
EXTENDS Parameters

Alphabet == {"a", " ", "-", "@", ","}
Texts(n) == UNION {[1 .. k -> Alphabet] : k \in 0 .. n}

StringList(text) == <<"[">> \o Quoted(text) \o <<"]">>
TagList(text) == <<"[", "{">> \o Quoted(text) \o <<"}", "]">>
NoTagValue == <<"[", "{", "}", "]">>

Field(name, value) == <<"", name>> :> value
ForDeletion(name, value) == <<"OnDeletion", name>> :> value
Class(type, parameters) == [resourceType |-> type, parameters |-> parameters]

SkipBackup == ForDeletion("SkipFinalBackup", <<"true">>)

\* What the FSx API requires of each.
BareFs == SkipBackup @@ Field("DeploymentType", Quoted(<<"a">>)) @@ Field("SubnetIds", StringList(<<"a">>))
BareVol == Field("ParentVolumeId", Quoted(<<"a">>))

\* Every short text in the tags of the final backup of a file system and in the
\* options of the deletion of a volume.
TextClasses ==
    {Class("filesystem", BareFs @@ ForDeletion("FinalBackupTags", TagList(t))) : t \in Texts(2)}
    \cup {Class("volume", BareVol @@ ForDeletion("Options", StringList(t))) : t \in Texts(2)}

FullFs ==
    BareFs @@ ForDeletion("Options", StringList(<<"a">>))
    @@ ForDeletion("FinalBackupTags", TagList(<<"a">>))
    @@ Field("Tags", TagList(<<"a">>)) @@ <<"csi.storage.k8s.io", "pvc/name">> :> <<"a">>

OriginSnapshot(members) == Field("OriginSnapshot", <<"{">> \o members \o <<"}">>)

FullVol ==
    BareVol @@ ForDeletion("Options", StringList(<<"a">>)) @@ Field("Tags", TagList(<<"a">>))
    @@ OriginSnapshot(<<"CopyStrategy">>)

\* What a storage class can add to, or change in, a good one.
Changes ==
    {Field(name, Quoted(<<"user">>)) : name \in DriverDefined \cup {"Unknown"}}
    \cup {Field(name, Null) : name \in {"ParentVolumeId", "SubnetIds", "Tags", "OriginSnapshot"}}
    \cup {ForDeletion(name, Null) : name \in {"SkipFinalBackup", "Options", "FinalBackupTags"}}
    \cup {Field("StorageCapacity", <<"7">>) @@ Field("StorageType", Quoted(<<"INTELLIGENT_TIERING">>)),
          Field("StorageType", Quoted(<<"INTELLIGENT_TIERING">>)),
          OriginSnapshot(<<"CopyStrategy", "SnapshotARN">>), OriginSnapshot(<<>>),
          OriginSnapshot(<<"CopyStrategy", "snapshotARN">>), Field("OriginSnapshot", <<"a">>),
          Field("OriginSnapshot", <<>>), Field("OriginSnapshot", <<"7">>),
          Field("Tags", <<>>), Field("Tags", <<"a">>), Field("Tags", StringList(<<"a">>)),
          Field("Tags", NoTagValue),
          Field("SubnetIds", <<"true">>), Field("SubnetIds", <<"[", "a">>),
          ForDeletion("SkipFinalBackup", <<"7">>), ForDeletion("SkipFinalBackup", <<"a">>),
          ForDeletion("Options", <<>>), ForDeletion("Options", <<"true">>),
          ForDeletion("FinalBackupTags", NoTagValue),
          ForDeletion("Unknown", <<"true">>), ForDeletion("", <<"true">>),
          ForDeletion("ClientRequestToken", Quoted(<<"a">>)),
          ForDeletion("OpenZFSConfiguration", <<"true">>)}

ChangedClasses ==
    {Class("filesystem", change @@ FullFs) : change \in Changes}
    \cup {Class("volume", change @@ FullVol) : change \in Changes}
    \cup {Class("snapshot", change) : change \in Changes}
    \cup {Class("filesystem", FullVol), Class("volume", FullFs), Class("filesystem", FullFs),
          Class("volume", FullVol), Class("filesystem", BareFs), Class("volume", BareVol),
          Class("snapshot", Field("Tags", TagList(<<"a">>))), Class("volume", <<>>),
          Class("snapshot", <<>>),
          Class("filesystem", Except(FullFs, {<<"OnDeletion", "SkipFinalBackup">>}))}

MCClasses == TextClasses \cup ChangedClasses

\* Tags as an administrator may write them: a good value, a list encoded well, one
\* whose outer spaces were trimmed, tags of a backup with and without a value, null,
\* and the empty value.
MCTagValues ==
    {<<"false">>, EncodeDeletionTag(StringList(<<"b">>)), <<>>, Null,
     Inner(EncodeDeletionTag(StringList(<<"b">>))), EncodeDeletionTag(TagList(<<"b">>)),
     EncodeDeletionTag(NoTagValue)}

=============================================================================
