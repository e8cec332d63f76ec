----------------------------- MODULE Parameters -----------------------------
(***************************************************************************)
(* The way of the parameters of a storage class: through the checks and    *)
(* conversions of CreateVolume and CreateSnapshot into an FSx request,     *)
(* those with the suffix OnDeletion through tags of the resource, which an *)
(* administrator may edit, into the FSx request that deletes it.  One      *)
(* resource, from its creation to its deletion; what repeated creations do *)
(* is in ControllerService.                                                *)
(* The keys of a parameter map are pairs: a mark, which is the reserved    *)
(* prefix, the suffix OnDeletion or nothing, and a name.                   *)
(***************************************************************************)
EXTENDS ParameterUtil

CONSTANTS
    Classes,    \* storage classes: a resource type and a parameter map
    NoClass,
    TagValues,  \* what an administrator may write into a deletion tag
    MaxEdits    \* bound: edits of tags

VARIABLES
    class,      \* the storage class the resource was created with
    tags,       \* the tags of the resource, a function of their keys
    edited,     \* history: the deletion tags an administrator has edited
    deletion,   \* the configuration of the deletion that reached FSx
    answer,     \* the last answer of the driver, and to what
    edits

vars == <<class, tags, edited, deletion, answer, edits>>

ASSUME ParametersAssumption ==
    /\ \A c \in Classes : /\ c.resourceType \in {"filesystem", "volume", "snapshot"}
                          /\ DOMAIN c.parameters \subseteq STRING \X STRING
                          /\ \A key \in DOMAIN c.parameters : c.parameters[key] \in Seq(STRING)
    /\ NoClass \notin Classes
    /\ MaxEdits \in Nat

-----------------------------------------------------------------------------
(* The fields of the FSx API, as far as the model's parameters name them.  *)

CreateConfiguration(type) ==
    CASE type = "filesystem" -> {"DeploymentType"}
      [] type = "volume" -> {"ParentVolumeId", "OriginSnapshot"}
      [] type = "snapshot" -> {}

CreateInput(type) ==
    {"ClientRequestToken", "Tags"} \cup
    CASE type = "filesystem" -> {"FileSystemType", "OpenZFSConfiguration",
                                 "StorageCapacity", "StorageType", "SubnetIds"}
      [] type = "volume" -> {"Name", "OpenZFSConfiguration", "VolumeType"}
      [] type = "snapshot" -> {"Name", "VolumeId"}

DeleteConfiguration(type) ==
    IF type = "filesystem" THEN {"FinalBackupTags", "Options", "SkipFinalBackup"}
    ELSE {"Options"}

IdField(type) == IF type = "filesystem" THEN "FileSystemId" ELSE "VolumeId"

DeleteInput(type) == {IdField(type), "ClientRequestToken", "OpenZFSConfiguration"}

-----------------------------------------------------------------------------
(* Checks and conversions of a parameter map.                              *)

Marked(parameters, mark) ==
    [name \in {key[2] : key \in {k \in DOMAIN parameters : k[1] = mark}}
        |-> parameters[<<mark, name>>]]

Unmarked(parameters) ==
    LET keys == {k \in DOMAIN parameters : k[1] # "OnDeletion"}
    IN  [name \in {key[2] : key \in keys} |->
            parameters[CHOOSE key \in keys : key[2] = name]]

deleteReservedParameters(parameters) ==
    RestrictDomain(parameters, LAMBDA key : key[1] # "csi.storage.k8s.io")

\* The parameters for the creation, without the ResourceType, which is read and
\* deleted, and the deletion parameters, with their suffix trimmed.
Plain(c) == Unmarked(deleteReservedParameters(c.parameters))
OnDeletion(c) == Marked(deleteReservedParameters(c.parameters), "OnDeletion")

DriverDefined == {"ClientRequestToken", "FileSystemType", "Name", "OpenZFSConfiguration",
                  "StorageCapacity", "VolumeId", "VolumeType"}

\* A case-sensitive look at the names, and into the text of OriginSnapshot.
containsDriverProvidedParameters(parameters) ==
    \/ DriverDefined \cap DOMAIN parameters # {}
    \/ "OriginSnapshot" \in DOMAIN parameters
       /\ Contains(parameters["OriginSnapshot"], "SnapshotARN")

\* Every value is encoded that contains one of [],".
TagValue(value) ==
    IF {"[", "]", ",", "\""} \cap ToSet(value) # {} THEN EncodeDeletionTag(value) ELSE value

Given(parameters, name) == name \in DOMAIN parameters /\ parameters[name] # <<>>
Unset(parameters, name) == ~Given(parameters, name) \/ parameters[name] = Null

\* The Tags parameter is read as a list of tags; without one there are none.
TagsMalformed(parameters) ==
    Given(parameters, "Tags") /\ JsonType(parameters["Tags"]) \notin {"null", "tags"}

\* The tags of a creation, whose order is that of a range over a map: those of the
\* user, whose content does not matter, one per deletion parameter, and the
\* driver's own.
DriverTag == <<"", "cluster">>
OtherTags(c) == {DriverTag} \cup IF Unset(Plain(c), "Tags") THEN {} ELSE {<<"", "user">>}
DeletionTags(c) == {<<"OnDeletion", name>> : name \in DOMAIN OnDeletion(c)}
AppendedTags(c) ==
    [key \in DeletionTags(c) \cup OtherTags(c) |->
        IF key \in DeletionTags(c) THEN TagValue(OnDeletion(c)[key[2]]) ELSE <<"true">>]

\* The AWS SDK refuses to send the deletion of a file system with a tag that has no
\* Key or no Value.
validateDeleteInput(parameters) ==
    "FinalBackupTags" \in DOMAIN parameters => ~Incomplete(parameters["FinalBackupTags"])

\* Mutant: nothing is required.
DeletionFailsOptional(type, parameters) ==
    LET p == Put(parameters, IdField(type), Quoted(<<"id">>)) IN
    /\ type # "snapshot"
    /\ \/ PopulateFails(p, DeleteConfiguration(type))
       \/ StrictPopulateFails(Replaced("OpenZFSConfiguration", p, DeleteConfiguration(type)),
                              DeleteInput(type))
       \/ ~validateDeleteInput(parameters)

\* The validation in appendDeleteTags: CollapseDelete...Parameters, then
\* ValidateDelete...Parameters, on a made-up id.
DeletionFails(type, parameters) ==
    LET p == Put(parameters, IdField(type), Quoted(<<"id">>)) IN
    /\ type # "snapshot"
    /\ \/ type = "filesystem" /\ "SkipFinalBackup" \notin DOMAIN parameters
       \/ PopulateFails(p, DeleteConfiguration(type))
       \/ StrictPopulateFails(Replaced("OpenZFSConfiguration", p, DeleteConfiguration(type)),
                              DeleteInput(type))
       \/ ~validateDeleteInput(parameters)

Tiered(parameters) ==
    "StorageType" \in DOMAIN parameters
    /\ parameters["StorageType"] = Quoted(<<"INTELLIGENT_TIERING">>)

\* The parameters the driver adds.
Provided(type, parameters) ==
    [name \in {"ClientRequestToken"} \cup
        CASE type = "filesystem" ->
                {"FileSystemType"} \cup (IF Tiered(parameters) THEN {} ELSE {"StorageCapacity"})
          [] type = "volume" -> {"Name", "VolumeType"}
          [] type = "snapshot" -> {"Name", "VolumeId"}
     |-> IF name = "StorageCapacity" THEN <<"7">> ELSE Quoted(<<"driver">>)]

\* The map after appendDeleteTags, appendCustomTags, appendSnapshotARN and the
\* driver's additions.
Complete(c, source) ==
    LET tagged == Put(Plain(c), "Tags", <<"[", "{", "\"", "\"", "}", "]">>)
        restored == IF source THEN Put(tagged, "OriginSnapshot", <<"{", "}">>) ELSE tagged
        added == Provided(c.resourceType, Plain(c))
    IN  [name \in DOMAIN restored \cup DOMAIN added |->
            IF name \in DOMAIN added THEN added[name] ELSE restored[name]]

Collapsed(c, source) ==
    IF c.resourceType = "snapshot" THEN Complete(c, source)
    ELSE Replaced("OpenZFSConfiguration", Complete(c, source),
                  CreateConfiguration(c.resourceType))

\* The members of OriginSnapshot that the class gives.
OriginMembers(c) ==
    IF Unset(Plain(c), "OriginSnapshot") THEN {}
    ELSE ToSet(Inner(Plain(c)["OriginSnapshot"]))

\* The ARN in the request.  encoding/json matches the names of members in any case,
\* and the last one counts: a map is marshalled with its keys in order, so that the
\* driver's SnapshotARN comes before the snapshotARN of a class.
Origin(c, source) ==
    IF "snapshotARN" \in OriginMembers(c) THEN "user"
    ELSE IF source THEN "driver" ELSE "none"

\* The AWS SDK does not send a creation that lacks what the FSx API requires.
Required(type) ==
    CASE type = "filesystem" -> {"DeploymentType", "SubnetIds"}
      [] type = "volume" -> {"ParentVolumeId"}
      [] type = "snapshot" -> {}

CreateInputInvalid(c, source) ==
    \/ \E name \in Required(c.resourceType) : Unset(Plain(c), name)
    \/ Given(Plain(c), "Tags") /\ Incomplete(Plain(c)["Tags"])
    \/ (source \/ ~Unset(Plain(c), "OriginSnapshot"))
       /\ ("CopyStrategy" \notin OriginMembers(c) \/ Origin(c, source) = "none")

\* Mutant: the error of the conversion is returned as it is, without a status.
CreateCodeBare(c, source) ==
    IF StrictPopulateFails(Collapsed(c, source), CreateInput(c.resourceType))
    THEN "Unknown" ELSE "OK"

\* The answer to a creation, with or without a snapshot as its source, up to the
\* request to FSx.  The deletion parameters of a snapshot stay in its map, under keys
\* that the FSx API does not know.  appendSnapshotARN reads OriginSnapshot into a
\* map, which a null makes nil, and panics when it assigns to it.
CreateCode(c, source) ==
    LET type == c.resourceType
        given == Given(Plain(c), "OriginSnapshot")
        originType == JsonType(Plain(c)["OriginSnapshot"])
    IN
    CASE containsDriverProvidedParameters(Plain(c)) -> "InvalidArgument"
      [] TagsMalformed(Plain(c)) -> IF type = "snapshot" THEN "Internal" ELSE "InvalidArgument"
      [] DeletionFails(type, OnDeletion(c)) -> "InvalidArgument"
      [] source /\ type = "filesystem" -> "Unimplemented"
      [] source /\ given /\ originType = "null" -> "panic"
      [] source /\ given /\ originType # "object" -> "Internal"
      [] type # "snapshot" /\ PopulateFails(Complete(c, source), CreateConfiguration(type)) ->
            "InvalidArgument"
      [] \/ StrictPopulateFails(Collapsed(c, source), CreateInput(type))
         \/ type = "snapshot" /\ DOMAIN OnDeletion(c) # {}
         \/ CreateInputInvalid(c, source) -> "Internal"
      [] OTHER -> "OK"

-----------------------------------------------------------------------------
(* Steps.                                                                  *)

\* CreateVolume, which may name a snapshot as its source, or CreateSnapshot.
Create(c, source) ==
    LET code == CreateCode(c, source) IN
    /\ class = NoClass
    /\ source => c.resourceType # "snapshot"
    /\ answer' = <<"Create", code>>
    /\ \/ code = "OK" /\ class' = c /\ tags' = AppendedTags(c)
       \/ code # "OK" /\ UNCHANGED <<class, tags>>
    /\ UNCHANGED <<edited, deletion, edits>>

\* The deletion tags that an administrator writes, adds or removes.
EditableTags == {"SkipFinalBackup", "Options", "FinalBackupTags", "Unknown"}

EditTag(name, value) ==
    /\ class # NoClass /\ edits < MaxEdits
    /\ tags' = Put(tags, <<"OnDeletion", name>>, value)
    /\ edited' = edited \cup {name} /\ edits' = edits + 1
    /\ UNCHANGED <<class, deletion, answer>>

RemoveTag(name) ==
    /\ class # NoClass /\ edits < MaxEdits
    /\ tags' = Except(tags, {<<"OnDeletion", name>>})
    /\ edited' = edited \cup {name} /\ edits' = edits + 1
    /\ UNCHANGED <<class, deletion, answer>>

\* Mutant: the decoded tags are not looked at one by one.
EveryDeletionTag(type) ==
    LET decoded == Marked(tags, "OnDeletion")
    IN  [name \in DOMAIN decoded |-> DecodeDeletionTag(decoded[name])]

\* GetDeleteParameters: a tag that does not fit the configuration is ignored.
GetDeleteParameters(type) ==
    LET coded == Marked(tags, "OnDeletion")
        decoded == [name \in DOMAIN coded |-> DecodeDeletionTag(coded[name])]
    IN  Restrict(decoded, {name \in DOMAIN decoded :
            ~StrictPopulateFails(Restrict(decoded, {name}), DeleteConfiguration(type))})

\* DeleteVolume: the configuration is collapsed, DeleteFileSystem or DeleteVolume of
\* the cloud populates its input, and the SDK looks at it before it sends it.  FSx
\* is not sent the fields that are null.
Delete ==
    LET type == class.resourceType
        parameters == Put(GetDeleteParameters(type), IdField(type), Quoted(<<"id">>))
        fails == \/ PopulateFails(parameters, DeleteConfiguration(type))
                 \/ PopulateFails(Replaced("OpenZFSConfiguration", parameters,
                                           DeleteConfiguration(type)), DeleteInput(type))
                 \/ ~validateDeleteInput(parameters)
        set == {name \in DOMAIN parameters \cap DeleteConfiguration(type) :
                   parameters[name] # Null}
    IN
    /\ class # NoClass /\ type # "snapshot"
    /\ answer' = <<"Delete", IF fails THEN "Internal" ELSE "OK">>
    /\ deletion' = IF fails THEN deletion ELSE {Restrict(parameters, set)}
    /\ UNCHANGED <<class, tags, edited, edits>>

\* DeleteSnapshot sends nothing but the id, whatever tags there are.
DeleteSnapshot ==
    /\ class # NoClass /\ class.resourceType = "snapshot"
    /\ answer' = <<"Delete", "OK">>
    /\ deletion' = {<<>>}
    /\ UNCHANGED <<class, tags, edited, edits>>

Init ==
    /\ class = NoClass /\ tags = <<>> /\ edited = {}
    /\ deletion = {} /\ answer = <<"none", "OK">> /\ edits = 0

Next ==
    \/ \E c \in Classes, source \in BOOLEAN : Create(c, source)
    \/ \E name \in EditableTags :
          RemoveTag(name) \/ \E value \in TagValues : EditTag(name, value)
    \/ Delete \/ DeleteSnapshot

Spec == Init /\ [][Next]_vars

-----------------------------------------------------------------------------
(* Properties.                                                             *)

\* The keys that a tag may have.
TagKeys ==
    {DriverTag, <<"", "user">>} \cup
    {<<"OnDeletion", name>> :
        name \in EditableTags \cup UNION {DOMAIN OnDeletion(c) : c \in Classes}}

\* Every variable has its type.
TypeOK ==
    /\ class \in Classes \cup {NoClass}
    /\ DOMAIN tags \subseteq TagKeys
    /\ edited \subseteq EditableTags
    /\ answer \in {"none", "Create", "Delete"}
                  \X {"OK", "InvalidArgument", "Unimplemented", "Internal", "panic"}
    /\ edits \in 0 .. MaxEdits

\* A deletion parameter of the storage class that nobody edited comes back from
\* the tags as it was given, whatever happened to the other tags, if its value
\* can be read in one way only; one that is null is not sent.
DeletionAsConfigured ==
    \A d \in deletion : \A name \in DOMAIN OnDeletion(class) :
        name \notin edited /\ name \in DeleteConfiguration(class.resourceType)
            /\ Unambiguous(OnDeletion(class)[name])
            => IF OnDeletion(class)[name] = Null THEN name \notin DOMAIN d
               ELSE name \in DOMAIN d /\ d[name] = OnDeletion(class)[name]

\* The checks of appendDeleteTags at the creation and those of GetDeleteParameters
\* keep a deletion from failing, whatever is in the tags and in any combination:
\* only the tags of the final backup can, edited to a list with a tag that the SDK finds
\* incomplete (the documentation says that such an edit is ignored), and not those of
\* the storage class.  FSx is sent only configuration that fits its fields.
OnlyFinalBackupTagsBlock ==
    /\ answer[1] = "Delete" /\ answer[2] # "OK" =>
          /\ class.resourceType = "filesystem"
          /\ \/ "FinalBackupTags" \in edited
             \/ "FinalBackupTags" \in DOMAIN OnDeletion(class)
                /\ ~Unambiguous(OnDeletion(class)["FinalBackupTags"])
    /\ \A d \in deletion : ~StrictPopulateFails(d, DeleteConfiguration(class.resourceType))

\* The driver "force[s] users to input" SkipFinalBackup, so that FSx does not decide
\* by itself: the deletion of a file system says whether to take a final backup,
\* whatever happened to its other tags, unless the class gave a null, which the
\* check of appendDeleteTags lets through.
FinalBackupDecided ==
    \A d \in deletion :
        class.resourceType = "filesystem" /\ "SkipFinalBackup" \notin edited
            => \/ "SkipFinalBackup" \in DOMAIN d
                  /\ d["SkipFinalBackup"] \in {<<"true">>, <<"false">>}
               \/ "SkipFinalBackup" \in DOMAIN OnDeletion(class)
                  /\ OnDeletion(class)["SkipFinalBackup"] = Null

\* Claim of the documentation of the tags, "To prevent mistranslation when decoding
\* parameters with special characters, a space is added before and after the tag
\* representations": every value comes back as it was given.
NoMistranslation ==
    \A d \in deletion : \A name \in DOMAIN OnDeletion(class) :
        name \notin edited /\ name \in DeleteConfiguration(class.resourceType)
            /\ OnDeletion(class)[name] # Null
            => name \in DOMAIN d /\ d[name] = OnDeletion(class)[name]

=============================================================================
