--------------------------- MODULE ObjectStorage ---------------------------
(***************************************************************************)
(* oss: one interface over nine object stores.  The cloud adapters share   *)
(* one shape and differ in the few points a record names: whether opening  *)
(* a missing object fails at once, whether Put asks the service again once *)
(* the object is stored, what Delete of a missing object answers.          *)
(* The filesystem store does everything itself, in steps others run        *)
(* between.  Contents are opaque; a path is a sequence of segments.  The   *)
(* services are external: one request is one step, which may fail before   *)
(* or after it took effect.                                                *)
(***************************************************************************)
EXTENDS Naturals, Sequences, SequencesExt, FiniteSets, Functions

CONSTANTS
  OClients, OContents,
  OPaths,       \* the paths callers use, in the order a listing has them
  OConfigs,     \* configurations, each with a bound on calls
  NoContent, Cut   \* no object; an object that is not what any one caller wrote

ASSUME ObjectAssumption ==
  /\ {NoContent, Cut} \cap OContents = {} /\ NoContent # Cut
  /\ OPaths \in Seq(Range(OPaths)) /\ IsInjective(OPaths)
  /\ \A cfg \in OConfigs : cfg.calls \in Nat

VARIABLES
  ocfg,     \* the configuration
  files,    \* objects stored: path -> [content, ino]
  dirs,     \* directories of the filesystem store
  ocall,    \* per client, its call
  temps,    \* temporary files on disk
  acked,    \* history: per path, what the last call left there, or "any"
  ocalls    \* calls made

ovars == <<ocfg, files, dirs, ocall, temps, acked, ocalls>>

-----------------------------------------------------------------------------
(* Configuration                                                           *)

CredentialsAndBucket == {"id", "secret", "bucket"}

\* Per provider name, its driver and the fields it cannot do without.
Providers ==
  [p \in {"filesystem", "local"} |-> [driver |-> "filesystem", needs |-> {}]]
  @@ [p \in {"aliyun", "aliyun-oss", "oss"} |-> [driver |-> "aliyun", needs |-> CredentialsAndBucket]]
  @@ [p \in {"s3", "aws-s3", "aws"} |-> [driver |-> "s3", needs |-> CredentialsAndBucket]]
  @@ [p \in {"r2", "cloudflare-r2"} |-> [driver |-> "s3", needs |-> CredentialsAndBucket \cup {"endpoint"}]]
  @@ [p \in {"b2", "backblaze-b2"} |->
        [driver |-> "s3", needs |-> CredentialsAndBucket \cup {"endpoint", "region"}]]
  @@ [p \in {"azure", "azure-blob"} |-> [driver |-> "azure", needs |-> CredentialsAndBucket]]
  @@ [p \in {"tencent", "tencent-cos", "cos"} |-> [driver |-> "tencent", needs |-> CredentialsAndBucket]]
  @@ [p \in {"minio"} |-> [driver |-> "minio", needs |-> CredentialsAndBucket \cup {"endpoint"}]]
  @@ [p \in {"qiniu"} |-> [driver |-> "qiniu", needs |-> CredentialsAndBucket]]
  @@ [p \in {"gcs", "google", "google-cloud"} |-> [driver |-> "gcs", needs |-> {"bucket"}]]
  @@ [p \in {"synology"} |-> [driver |-> "synology", needs |-> CredentialsAndBucket \cup {"endpoint"}]]

\* An endpoint the driver normalises: with a host, and http or https if it has a scheme.
normalizeHTTPEndpoint(cfg) ==
  (cfg.provider \in {"r2", "cloudflare-r2", "b2", "backblaze-b2"}
     \/ (cfg.provider \in {"azure", "azure-blob"} /\ "endpoint" \in cfg.given)) => cfg.goodEndpoint

\* Tencent's bucket may carry the application's ID, which then is the configured one.
normalizeTencentBucketAndAppID(cfg) ==
  /\ cfg.appID # "" \/ cfg.suffix # ""
  /\ (cfg.appID # "" /\ cfg.suffix # "") => cfg.appID = cfg.suffix

Validate(cfg) ==
  /\ cfg.provider \in DOMAIN Providers
  /\ Providers[cfg.provider].needs \subseteq cfg.given
  /\ normalizeHTTPEndpoint(cfg)
  /\ Providers[cfg.provider].driver = "tencent" => normalizeTencentBucketAndAppID(cfg)
  /\ Providers[cfg.provider].driver = "gcs" => cfg.given \cap {"secret", "service_account_json"} # {}

-----------------------------------------------------------------------------
(* The adapters: New, Get, GetStream and Put; then Delete, List, GetURL,   *)
(* Exists, Stat and the driver.  lazy: a missing object is found out when  *)
(* the stream is read; again: Put asks for the object's attributes after   *)
(* it is stored; missing: Delete of a missing object is an error.  The     *)
(* metadata an answer carries, content types and URLs are left out.        *)

AliyunTransfer   == [lazy |-> FALSE, again |-> FALSE]
AliyunManage     == [missing |-> FALSE]
AzureTransfer    == [lazy |-> FALSE, again |-> FALSE]
AzureManage      == [missing |-> TRUE]
GCSTransfer      == [lazy |-> FALSE, again |-> TRUE]
GCSManage        == [missing |-> TRUE]
MinioTransfer    == [lazy |-> TRUE, again |-> FALSE]
MinioManage      == [missing |-> FALSE]
QiniuTransfer    == [lazy |-> FALSE, again |-> FALSE]
QiniuManage      == [missing |-> TRUE]
S3Transfer       == [lazy |-> FALSE, again |-> FALSE]
S3Manage         == [missing |-> FALSE]
SynologyTransfer == [lazy |-> TRUE, again |-> FALSE]
SynologyManage   == [missing |-> FALSE]
TencentTransfer  == [lazy |-> FALSE, again |-> FALSE]
TencentManage    == [missing |-> FALSE]

driverRegistry ==
  [aliyun |-> AliyunTransfer @@ AliyunManage, azure |-> AzureTransfer @@ AzureManage,
   gcs |-> GCSTransfer @@ GCSManage, minio |-> MinioTransfer @@ MinioManage,
   qiniu |-> QiniuTransfer @@ QiniuManage, s3 |-> S3Transfer @@ S3Manage,
   synology |-> SynologyTransfer @@ SynologyManage, tencent |-> TencentTransfer @@ TencentManage]

Local == Providers[ocfg.provider].driver = "filesystem"
Adapter == driverRegistry[Providers[ocfg.provider].driver]

-----------------------------------------------------------------------------
(* Paths                                                                   *)

\* The folder's absolute path.
Folder == <<"var", "oss">>

\* filepath.Join: ".." takes a segment away, at the root of the filesystem none.
JoinPath(base, p) ==
  FoldLeft(LAMBDA q, s : IF s # ".." THEN Append(q, s) ELSE IF q = <<>> THEN q ELSE Front(q), base, p)

Outside == <<"..">>

\* The file a path names, from the folder on; Outside when that is not in the folder.
GetFullPath(p) ==
  LET q == JoinPath(Folder, p) IN IF IsPrefix(Folder, q) THEN SubSeq(q, Len(Folder) + 1, Len(q)) ELSE Outside

\* What a path inside the folder names is a path that callers use.
ASSUME PathAssumption ==
  \A p \in Range(OPaths) : GetFullPath(p) \in Range(OPaths) \cup {Outside}

ObjectKey(p) == IF Local THEN GetFullPath(p) ELSE p
Keys == {ObjectKey(p) : p \in Range(OPaths)}
Ancestors(k) == {SubSeq(k, 1, n) : n \in 0..(Len(k) - 1)}

\* os.Stat: a path below a file is neither there nor "not exist".
StatPath(k) ==
  IF k = Outside THEN "absent"
  ELSE IF k \in DOMAIN files THEN "file"
  ELSE IF k \in dirs THEN "dir"
  ELSE IF Ancestors(k) \cap DOMAIN files # {} THEN "notdir" ELSE "absent"

\* The objects a listing of p covers: all with the prefix, or all below the directory.
Covers(p, k) == IF Local THEN p # Outside /\ p \in Ancestors(k) ELSE IsPrefix(p, k)

-----------------------------------------------------------------------------
(* Calls                                                                   *)

\* left: the positions in OPaths a listing has yet to come to; stay: the objects it
\* covers that have been there since it began.

Resting == [op |-> "none", at |-> "idle", p |-> <<>>, v |-> NoContent, ino |-> 0, left |-> {},
            seen |-> <<>>, stay |-> {}, alone |-> TRUE, result |-> "none"]

OInit ==
  /\ ocfg \in {cfg \in OConfigs : Validate(cfg)}
  /\ files = [k \in {} |-> {}] /\ dirs = (IF Local THEN {<<>>} ELSE {}) /\ temps = 0 /\ ocalls = 0
  /\ ocall = [c \in OClients |-> Resting]
  /\ acked = [k \in Keys |-> NoContent]

Busy(c) == ocall[c].at \notin {"idle", "done"}
Writing(c, k) == Busy(c) /\ ocall[c].op \in {"Put", "Delete"} /\ ObjectKey(ocall[c].p) = k

\* Call op(p) of client c starts at a step.  Writers of one object that overlap know it.
StartCall(c, op, at, p, v, left) ==
  /\ ocall[c].at = "idle" /\ ocalls < ocfg.calls /\ ocalls' = ocalls + 1
  /\ LET k == ObjectKey(p)
         writes == op \in {"Put", "Delete"}
         new == [Resting EXCEPT !.op = op, !.at = at, !.p = p, !.v = v, !.left = left,
                                !.stay = {j \in DOMAIN files : op = "List" /\ Covers(k, j)},
                                !.alone = \A d \in OClients : ~Writing(d, k)]
     IN ocall' = [d \in OClients |->
                    IF d = c THEN new
                    ELSE IF writes /\ Writing(d, k) THEN [ocall[d] EXCEPT !.alone = FALSE]
                    ELSE ocall[d]]
  /\ UNCHANGED <<ocfg, files, dirs, temps, acked>>

\* A refused call: an empty path.
Refuse(c, op) ==
  /\ ocall[c].at = "idle" /\ ocalls < ocfg.calls /\ ocalls' = ocalls + 1
  /\ ocall' = [ocall EXCEPT ![c] = [Resting EXCEPT !.op = op, !.at = "done", !.result = "refused"]]
  /\ UNCHANGED <<ocfg, files, dirs, temps, acked>>

\* The call goes on with record r, the objects are now new.
Go(c, r, new) ==
  /\ files' = new
  /\ ocall' = [d \in OClients |-> [(IF d = c THEN r ELSE ocall[d]) EXCEPT !.stay = @ \cap DOMAIN new]]
  /\ UNCHANGED <<ocfg, ocalls>>

StepTo(c, at) == [ocall[c] EXCEPT !.at = at]
Answer(c, result) == [ocall[c] EXCEPT !.at = "done", !.result = result]

\* What is known of the object once c's call has answered.
Know(c, content, certain) ==
  acked' = [acked EXCEPT ![ObjectKey(ocall[c].p)] = IF certain /\ ocall[c].alone THEN content ELSE "any"]

With(k, v, ino) == [j \in DOMAIN files \cup {k} |-> IF j = k THEN [content |-> v, ino |-> ino] ELSE files[j]]
Less(k) == Restrict(files, DOMAIN files \ {k})

\* The caller is done with an answer, and removes the file Get gave it.
CallerDone(c) ==
  /\ ocall[c].at = "done" /\ UNCHANGED <<dirs>>
  /\ LET k == ObjectKey(ocall[c].p)
         given == ocall[c].op = "Get" /\ ocall[c].result = "ok"
     IN IF given /\ Local
        THEN /\ Go(c, Resting, Less(k)) /\ acked' = [acked EXCEPT ![k] = "any"] /\ UNCHANGED temps
        ELSE /\ Go(c, Resting, files) /\ temps' = temps - (IF given THEN 1 ELSE 0) /\ UNCHANGED acked

-----------------------------------------------------------------------------
(* Put                                                                     *)

Put(c, p, v) ==
  IF p = <<>> THEN Refuse(c, "Put")
  ELSE StartCall(c, "Put", IF Local THEN "mkdir" ELSE "send", p, v, {})

\* The service stores the whole object, or the request fails, before or after that.
PutSend(c) ==
  /\ ocall[c].op = "Put" /\ ocall[c].at = "send" /\ UNCHANGED <<dirs, temps>>
  /\ LET stored == With(ocall[c].p, ocall[c].v, 0) IN
     \/ IF Adapter.again THEN Go(c, StepTo(c, "attrs"), stored) /\ UNCHANGED acked
        ELSE Go(c, Answer(c, "ok"), stored) /\ Know(c, ocall[c].v, TRUE)
     \/ \E after \in {files, stored} : Go(c, Answer(c, "fault"), after) /\ Know(c, NoContent, FALSE)

\* The attributes: an error, of a stored object, if the request fails or it is gone.
PutAttrs(c) ==
  /\ ocall[c].at = "attrs" /\ UNCHANGED <<dirs, temps>>
  /\ \E result \in {"fault"} \cup (IF ocall[c].p \in DOMAIN files THEN {"ok"} ELSE {}) :
       Go(c, Answer(c, result), files) /\ Know(c, ocall[c].v, TRUE)

LocalMkdir(c) ==
  /\ ocall[c].at = "mkdir" /\ UNCHANGED <<temps, acked>>
  /\ LET k == ObjectKey(ocall[c].p) IN
     IF k # Outside /\ Ancestors(k) \cap DOMAIN files # {}
     THEN Go(c, Answer(c, "refused"), files) /\ UNCHANGED dirs
     ELSE Go(c, StepTo(c, "create"), files) /\ dirs' = dirs \cup (IF k = Outside THEN {} ELSE Ancestors(k))

\* A new file, or the old one truncated.
LocalCreate(c) ==
  /\ ocall[c].at = "create" /\ UNCHANGED <<dirs, temps, acked>>
  /\ LET k == ObjectKey(ocall[c].p)
         ino == IF k \in DOMAIN files THEN files[k].ino ELSE ocalls * 10 + Cardinality(DOMAIN files)
     IN IF k = Outside \/ StatPath(k) = "dir" \/ ~(Ancestors(k) \subseteq dirs)
        THEN Go(c, Answer(c, "refused"), files)
        ELSE Go(c, [StepTo(c, "copy") EXCEPT !.ino = ino], With(k, Cut, ino))

\* Mutant of LocalCopy: a failed copy leaves the partial file.
LocalCopyKeeps(c) ==
  /\ ocall[c].op = "Put" /\ ocall[c].at = "copy" /\ UNCHANGED <<dirs, temps>>
  /\ LET k == ObjectKey(ocall[c].p)
         mine == k \in DOMAIN files /\ files[k].ino = ocall[c].ino
     IN \/ /\ Go(c, Answer(c, "ok"), IF mine THEN With(k, ocall[c].v, ocall[c].ino) ELSE files)
           /\ Know(c, ocall[c].v, mine)
        \/ Go(c, Answer(c, "fault"), files) /\ Know(c, NoContent, TRUE)

\* The copy into the open file, and its Stat, which may fail; two copies at once may mix,
\* and the file may have been removed.  A reader that cannot be rewound leaves the file
\* empty; a failed copy removes whatever the path names.
LocalCopy(c) ==
  /\ ocall[c].op = "Put" /\ ocall[c].at = "copy" /\ UNCHANGED <<dirs, temps>>
  /\ LET k == ObjectKey(ocall[c].p)
         mine == k \in DOMAIN files /\ files[k].ino = ocall[c].ino
     IN \/ \E v \in {ocall[c].v} \cup (IF ocall[c].alone THEN {} ELSE {Cut}) :
             \E result \in {"ok", "fault"} :
               /\ Go(c, Answer(c, result), IF mine THEN With(k, v, ocall[c].ino) ELSE files)
               /\ Know(c, v, mine)
        \/ Go(c, Answer(c, "fault"), files) /\ Know(c, Cut, mine)
        \/ Go(c, Answer(c, "fault"), Less(k)) /\ Know(c, NoContent, TRUE)

-----------------------------------------------------------------------------
(* Get and GetStream                                                       *)

Get(c, p) == StartCall(c, "Get", "open", p, NoContent, {})

\* The stream of the object as it is now; the filesystem store hands out the file.
GetStream(c) ==
  /\ ocall[c].at = "open" /\ UNCHANGED <<dirs, temps, acked>>
  /\ LET k == ObjectKey(ocall[c].p)
         content == IF k \in DOMAIN files THEN files[k].content ELSE NoContent
     IN \/ /\ content # NoContent \/ (~Local /\ Adapter.lazy /\ k # <<>>)
           /\ Go(c, [(IF Local THEN Answer(c, "ok") ELSE StepTo(c, "temp")) EXCEPT !.v = content], files)
        \/ content = NoContent /\ ~(~Local /\ Adapter.lazy) /\ Go(c, Answer(c, "missing"), files)
        \/ Go(c, Answer(c, "fault"), files)

CreateTemp(c) ==
  /\ ocall[c].at = "temp" /\ UNCHANGED <<dirs, acked>>
  /\ \/ Go(c, StepTo(c, "fetch"), files) /\ temps' = temps + 1
     \/ Go(c, Answer(c, "fault"), files) /\ UNCHANGED temps

\* Read the stream into the temporary file and rewind it; an error removes the file.
CopyToTemp(c) ==
  /\ ocall[c].at = "fetch" /\ UNCHANGED <<dirs, acked>>
  /\ \/ ocall[c].v # NoContent /\ Go(c, Answer(c, "ok"), files) /\ UNCHANGED temps
     \/ /\ Go(c, Answer(c, IF ocall[c].v = NoContent THEN "missing" ELSE "fault"), files)
        /\ temps' = temps - 1

-----------------------------------------------------------------------------
(* Delete                                                                  *)

Delete(c, p) ==
  IF p = <<>> THEN Refuse(c, "Delete")
  ELSE StartCall(c, "Delete", IF Local THEN "stat" ELSE "request", p, NoContent, {})

DeleteRequest(c) ==
  /\ ocall[c].at = "request" /\ UNCHANGED <<dirs, temps>>
  /\ LET k == ocall[c].p IN
     \/ /\ Go(c, Answer(c, IF k \notin DOMAIN files /\ Adapter.missing THEN "missing" ELSE "ok"), Less(k))
        /\ Know(c, NoContent, TRUE)
     \/ \E after \in {files, Less(k)} : Go(c, Answer(c, "fault"), after) /\ Know(c, NoContent, FALSE)

LocalDeleteStat(c) ==
  /\ ocall[c].at = "stat" /\ UNCHANGED <<dirs, temps>>
  /\ LET found == StatPath(ObjectKey(ocall[c].p)) IN
     CASE found = "absent" -> Go(c, Answer(c, "ok"), files) /\ Know(c, NoContent, TRUE)
       [] found = "notdir" -> Go(c, Answer(c, "refused"), files) /\ UNCHANGED acked
       [] OTHER -> Go(c, StepTo(c, "remove"), files) /\ UNCHANGED acked

\* os.Remove: a file, or an empty directory; an error if it is gone by now.
LocalRemove(c) ==
  /\ ocall[c].at = "remove" /\ UNCHANGED temps
  /\ LET k == ObjectKey(ocall[c].p) IN
     CASE k \in DOMAIN files -> /\ Go(c, Answer(c, "ok"), Less(k)) /\ Know(c, NoContent, TRUE)
                                /\ UNCHANGED dirs
       [] k \in dirs /\ \A j \in DOMAIN files \cup dirs : k \notin Ancestors(j) ->
            Go(c, Answer(c, "ok"), files) /\ Know(c, NoContent, TRUE) /\ dirs' = dirs \ {k}
       [] k \in dirs /\ \E j \in DOMAIN files \cup dirs : k \in Ancestors(j) ->
            Go(c, Answer(c, "refused"), files) /\ UNCHANGED <<dirs, acked>>
       [] OTHER -> Go(c, Answer(c, "missing"), files) /\ Know(c, NoContent, TRUE) /\ UNCHANGED dirs

-----------------------------------------------------------------------------
(* List, Exists, Stat                                                      *)

\* The pages of a cloud listing are asked for one by one, each from where the last
\* one ended; the filesystem store reads the names first.
List(c, p) ==
  LET all == {i \in DOMAIN OPaths : Covers(ObjectKey(p), OPaths[i])}
  IN IF Local /\ StatPath(ObjectKey(p)) = "notdir" THEN Refuse(c, "List")
     ELSE StartCall(c, "List", "page", p, NoContent,
                    IF Local THEN {i \in all : OPaths[i] \in DOMAIN files} ELSE all)

\* The next object there is; a local file gone since its name was read is an error.
ListPage(c) ==
  /\ ocall[c].at = "page" /\ UNCHANGED <<dirs, temps, acked>>
  /\ LET left == ocall[c].left
         there == IF Local THEN left ELSE {i \in left : OPaths[i] \in DOMAIN files}
         n == Min(there)
     IN \/ there = {} /\ Go(c, Answer(c, "ok"), files)
        \/ there # {} /\ OPaths[n] \notin DOMAIN files /\ Go(c, Answer(c, "fault"), files)
        \/ /\ there # {} /\ OPaths[n] \in DOMAIN files
           /\ Go(c, [ocall[c] EXCEPT !.seen = Append(@, OPaths[n]),
                                     !.left = {i \in @ : i > n}], files)

Exists(p) == IF Local THEN StatPath(ObjectKey(p)) = "file" ELSE p \in DOMAIN files

\* Stat: the object, whose content gives the size; or an error.
Stat(p) == IF Exists(p) THEN files[ObjectKey(p)].content ELSE NoContent

ONext ==
  \E c \in OClients :
    \/ \E p \in Range(OPaths) :
         \/ \E v \in OContents : Put(c, p, v)
         \/ Get(c, p) \/ Delete(c, p) \/ List(c, p)
    \/ PutSend(c) \/ PutAttrs(c) \/ LocalMkdir(c) \/ LocalCreate(c) \/ LocalCopy(c)
    \/ GetStream(c) \/ CreateTemp(c) \/ CopyToTemp(c)
    \/ DeleteRequest(c) \/ LocalDeleteStat(c) \/ LocalRemove(c)
    \/ ListPage(c) \/ CallerDone(c)

OSpec == OInit /\ [][ONext]_ovars

-----------------------------------------------------------------------------
(* Properties                                                              *)

OTypeOK ==
  /\ Validate(ocfg) /\ DOMAIN files \subseteq Keys /\ temps \in Nat /\ ocalls \in 0..ocfg.calls
  /\ \A k \in DOMAIN files : files[k].content \in OContents \cup {Cut}
  /\ Local => \A k \in DOMAIN files : Ancestors(k) \subseteq dirs

\* With no call on a path under way, Exists and Stat say of it what the last Put
\* or Delete of it left, unless two overlapped or a request to a service failed; and no
\* whole object is half of two.  A local Put that fails leaves the new object if only its
\* Stat failed, none if its copy did, and the old one emptied if the reader could not be
\* rewound.
LastWriteStands ==
  \A p \in Range(OPaths) :
    LET k == ObjectKey(p) IN
    (p # <<>> /\ k # Outside /\ acked[k] # "any" /\ \A c \in OClients : ~Writing(c, k))
      => Stat(p) = acked[k] /\ Exists(p) = (acked[k] # NoContent)

\* A listing that succeeds has every object that was there from its start to its end, once.
ListComplete ==
  \A c \in OClients :
    (ocall[c].op = "List" /\ ocall[c].result = "ok") =>
      /\ ocall[c].stay \subseteq Range(ocall[c].seen)
      /\ IsInjective(ocall[c].seen)

\* Every temporary file is being filled by a Get or in the hands of a caller, who
\* was told to remove it.
TempsAccounted ==
  temps = Cardinality({c \in OClients : ocall[c].op = "Get" /\ ~Local
                        /\ (ocall[c].at = "fetch" \/ (ocall[c].at = "done" /\ ocall[c].result = "ok"))})
=============================================================================
