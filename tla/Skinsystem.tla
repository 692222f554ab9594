----------------------------- MODULE Skinsystem -----------------------------
(***************************************************************************)
(* The read side of the server (src/http/skinsystem.go): what a request    *)
(* about a username is answered, from what the skins repository, the       *)
(* capes, the Mojang textures provider and the signer say, each of which   *)
(* may fail.                                                               *)
(*                                                                         *)
(* Of a value only its source is kept: it comes from this server, from     *)
(* Mojang or from the request. Requests share nothing, so one is enough.   *)
(***************************************************************************)

CONSTANTS Nil,  \* nil, or an empty string
          Error

Sources == {"here", "mojang", "request"}
Maybe == Sources \cup {Nil}

\* /skins, /cloaks, /textures, /textures/signed and /profile, with the
\* parameters proxy, onUnknownProfileRespondWithUuid and unsigned=false.
Requests == [endpoint : {"skin", "cape", "textures", "signed", "profile"},
             proxy : BOOLEAN, force : BOOLEAN, sign : BOOLEAN]

\* A record of the repository, as far as the answer depends on it: with the
\* url of a skin or without, with textures signed by Mojang or without.
Records == [url : BOOLEAN, signed : BOOLEAN]

\* A Mojang profile: without a textures property, with one that does not
\* decode, or with one that holds some textures or null in their place.
Textures == [skin : Maybe, cape : Maybe]
MojangTextures == [skin : {"mojang", Nil}, cape : {"mojang", Nil}]
MojangProfiles == [property : {"none", "garbled"}, textures : {Nil}]
                  \cup [property : {"decodes"}, textures : MojangTextures \cup {Nil}]

\* The type profile. value and signature are MojangTextures and
\* MojangSignature.
Profile == [id : Maybe, name : Maybe, textures : Textures \cup {Nil}, file : BOOLEAN,
            value : Maybe, signature : Maybe]

NoTextures == [skin |-> Nil, cape |-> Nil]
EmptyProfile == [id |-> Nil, name |-> Nil, textures |-> NoTextures, file |-> FALSE,
                 value |-> Nil, signature |-> Nil]

\* Neither marker is taken for a value.
ASSUME MarkersAssumption ==
  Nil # Error /\ \A x \in {Nil, Error} : /\ x \notin Sources /\ x \notin Records
                                       /\ x \notin MojangProfiles /\ x \notin Textures
                                       /\ x \notin Profile

Reply == [status : {200, 204, 301, 404, 500}, profile : Profile, signature : Maybe]

VARIABLES at,      \* what the handler does next
          request,
          record,  \* what FindSkinByUsername returned
          answer,  \* what GetForUsername returned, Nil before
          asked,   \* history: GetForUsername was called
          profile, \* what getProfile has so far, Nil if it is nil
          reply

vars == << at, request, record, answer, asked, profile, reply >>

NoReply == [status |-> 200, profile |-> EmptyProfile, signature |-> Nil]

\* The types of the variables. What is answered is a profile: the nil that
\* getProfile may return is never sent.
TypeOK ==
  /\ at \in {"find", "cape", "mojang", "respond", "sign", "done"}
  /\ request \in Requests
  /\ record \in Records \cup {Nil, Error}
  /\ answer \in MojangProfiles \cup {Nil, Error}
  /\ asked \in BOOLEAN
  /\ profile \in Profile \cup {Nil}
  /\ reply \in Reply

Init ==
  /\ at = "find"
  /\ request \in Requests
  /\ record = Nil /\ answer = Nil /\ asked = FALSE
  /\ profile = Nil
  /\ reply = NoReply

-----------------------------------------------------------------------------
(* getProfile *)

\* Mutant of Panic: the error is answered like an unknown user.
AnswerNoContent == at' = "done" /\ reply' = [NoReply EXCEPT !.status = 204]

\* Handlers panic on an error, and the server answers 500.
Panic == at' = "done" /\ reply' = [NoReply EXCEPT !.status = 500]

\* getProfile returns p.
Got(p) == at' = "respond" /\ profile' = p

Proxied == request.endpoint = "signed" => request.proxy

\* FindSkinByUsername. A record with a skin needs nothing else than the cape,
\* otherwise Mojang is asked if the endpoint does so.
FindSkin ==
  /\ at = "find"
  /\ \E r \in Records \cup {Nil, Error} :
       LET known == [EmptyProfile EXCEPT !.id = "here", !.name = "here"]
       IN  /\ record' = r
           /\ \/ r = Error /\ Panic /\ UNCHANGED profile
              \/ /\ r \in Records /\ r.url
                 /\ at' = "cape"
                 /\ profile' = [known EXCEPT !.textures.skin = "here",
                                  !.value = IF r.signed THEN "here" ELSE Nil,
                                  !.signature = IF r.signed THEN "here" ELSE Nil]
                 /\ UNCHANGED reply
              \/ /\ r = Nil \/ (r \in Records /\ ~r.url)
                 /\ LET p == IF r = Nil THEN EmptyProfile ELSE known
                    IN  IF Proxied THEN at' = "mojang" /\ profile' = p
                        ELSE Got(IF r = Nil THEN Nil ELSE p)
                 /\ UNCHANGED reply
  /\ UNCHANGED << request, answer, asked >>

\* Mutant of FindCape: the skin goes when the cape comes.
FindCapeOnly ==
  /\ at = "cape"
  /\ \/ Got([profile EXCEPT !.file = TRUE, !.textures = [skin |-> Nil, cape |-> "here"]])
     \/ Got(profile)
  /\ UNCHANGED << request, record, answer, asked, reply >>

\* FindCapeByUsername, whose error is ignored.
FindCape ==
  /\ at = "cape"
  /\ \/ Got([profile EXCEPT !.file = TRUE, !.textures.cape = "here"])
     \/ Got(profile)
  /\ UNCHANGED << request, record, answer, asked, reply >>

\* Mutant of Merged: the identity is always Mojang's.
MergedWithId(p, m) ==
  LET source == IF m.property = "none" THEN Nil ELSE "mojang"
  IN  [p EXCEPT !.textures = IF m.property = "none" THEN @ ELSE m.textures,
                !.value = source, !.signature = source, !.id = "mojang"]

\* The profile that Mojang's answer m makes of p.
Merged(p, m) ==
  LET source == IF m.property = "none" THEN Nil ELSE "mojang"
  IN  [p EXCEPT !.textures = IF m.property = "none" THEN @ ELSE m.textures,
                !.value = source, !.signature = source,
                !.id = IF @ = Nil THEN "mojang" ELSE @,
                !.name = IF p.id = Nil THEN "mojang" ELSE @]

\* MojangTexturesProvider.GetForUsername. An error is ignored if the user is
\* known.
AskMojang ==
  /\ at = "mojang"
  /\ asked' = TRUE
  /\ \E m \in MojangProfiles \cup {Nil, Error} :
       /\ answer' = m
       /\ \/ m = Error /\ profile.id # Nil /\ Got(profile) /\ UNCHANGED reply
          \/ m = Error /\ profile.id = Nil /\ Panic /\ UNCHANGED profile
          \/ m = Nil /\ Got(Nil) /\ UNCHANGED reply
          \/ /\ m \in MojangProfiles
             /\ IF m.property = "garbled" THEN Panic /\ UNCHANGED profile
                ELSE Got(Merged(profile, m)) /\ UNCHANGED reply
  /\ UNCHANGED << request, record >>

-----------------------------------------------------------------------------
(* The handlers *)

Answer(status) == reply' = [NoReply EXCEPT !.status = status]
Send(status, p, signature) ==
  reply' = [status |-> status, profile |-> p, signature |-> signature]

HasSkin == profile # Nil /\ profile.textures # Nil /\ profile.textures.skin # Nil
HasCape == profile # Nil /\ profile.textures # Nil /\ profile.textures.cape # Nil

\* skinHandler redirects to the skin.
SkinHandler == IF HasSkin THEN Send(301, profile, Nil) ELSE Answer(404)

\* capeHandler sends the file, or redirects to the cape.
CapeHandler == IF HasCape \/ (profile # Nil /\ profile.textures # Nil /\ profile.file)
               THEN Send(IF profile.file THEN 200 ELSE 301, profile, Nil) ELSE Answer(404)

\* texturesHandler sends what there is of both.
TexturesHandler == IF HasSkin \/ HasCape THEN Send(200, profile, Nil) ELSE Answer(204)

\* Mutant of SignedTexturesHandler: the value is signed by this server.
SignedTexturesHandlerResigning ==
  IF profile # Nil /\ profile.value # Nil THEN Send(200, profile, "here") ELSE Answer(204)

\* signedTexturesHandler sends the value as Mojang signed it.
SignedTexturesHandler ==
  IF profile # Nil /\ profile.value # Nil THEN Send(200, profile, profile.signature)
                                          ELSE Answer(204)

\* A handler other than profileHandler, which signs nothing.
Respond ==
  /\ at = "respond" /\ request.endpoint # "profile"
  /\ CASE request.endpoint = "skin"     -> SkinHandler
       [] request.endpoint = "cape"     -> CapeHandler
       [] request.endpoint = "textures" -> TexturesHandler
       [] request.endpoint = "signed"   -> SignedTexturesHandler
  /\ at' = "done"
  /\ UNCHANGED << request, record, answer, asked, profile >>

\* profileHandler builds a textures property of its own, for an unknown user
\* with the uuid of the request if there is one.
ProfileHandler ==
  LET p == IF profile # Nil THEN profile
           ELSE [EmptyProfile EXCEPT !.id = "request", !.name = "request"]
  IN  /\ at = "respond" /\ request.endpoint = "profile"
      /\ IF profile = Nil /\ ~request.force THEN at' = "done" /\ Answer(204) /\ UNCHANGED profile
         ELSE /\ profile' = p
              /\ IF request.sign THEN at' = "sign" /\ UNCHANGED reply
                 ELSE at' = "done" /\ Send(200, p, Nil)
      /\ UNCHANGED << request, record, answer, asked >>

\* TexturesSigner.SignTextures
Sign ==
  /\ at = "sign"
  /\ \/ at' = "done" /\ Send(200, profile, "here")
     \/ Panic
  /\ UNCHANGED << request, record, answer, asked, profile >>

\* The next request.
NextRequest ==
  /\ at = "done"
  /\ at' = "find" /\ request' \in Requests
  /\ record' = Nil /\ answer' = Nil /\ asked' = FALSE /\ profile' = Nil
  /\ reply' = NoReply

Next == FindSkin \/ FindCape \/ AskMojang \/ Respond \/ ProfileHandler \/ Sign \/ NextRequest

Spec == Init /\ [][Next]_vars

-----------------------------------------------------------------------------
(* Properties *)

Done == at = "done"
Known == record \in Records

\* A skin that was uploaded here is served by each endpoint as it is, with its
\* own identity, and Mojang is neither asked about it nor able to spoil it.
LocalSkinIsServed ==
  Done /\ Known /\ record.url =>
    /\ ~asked
    /\ request.endpoint \in {"skin", "textures"} \cup (IF request.sign THEN {} ELSE {"profile"})
       => /\ reply.status \in {200, 301}
          /\ reply.profile.textures.skin = "here" /\ reply.profile.id = "here"

\* A failure is not reported as absence, which clients and proxies would keep:
\* 204 and 404 are only sent for an unknown user when neither the
\* repository nor Mojang failed.
FailureIsNotAbsence ==
  Done /\ reply.status \in {204, 404} =>
    /\ record # Error
    /\ ~Known => answer # Error

\* An answer never mixes the identity of one player with the name of another,
\* and a known user is never taken for the Mojang player of the same name,
\* whose textures it may be given.
OneIdentity ==
  Done => /\ reply.profile.id = reply.profile.name
          /\ Known => reply.profile.id # "mojang"

\* A signature fits what it is sent with: /textures/signed sends the value of
\* Mojang's property with the signature of that property, /profile sends
\* values of this server, signed by this server or by nobody.
SignatureFitsValue ==
  Done /\ reply.status = 200 =>
    /\ request.endpoint = "signed" => reply.signature = reply.profile.value
    /\ request.endpoint = "profile" =>
         reply.signature = IF request.sign THEN "here" ELSE Nil

-----------------------------------------------------------------------------
(* What comments of the code say and the code does not do *)

\* "If we at least know something about a user, than we can ignore an error
\* and return profile without textures": /profile of a known user is answered
\* with that user's profile, if the signer does not fail.
KnownUserIsServed ==
  Done /\ Known /\ request.endpoint = "profile" /\ ~request.sign => reply.profile.id = "here"

\* "Field must be initialized to avoid "null" after json encoding": the
\* textures in the property that /profile sends are not null.
TexturesAreNotNull ==
  Done /\ request.endpoint = "profile" => reply.profile.textures # Nil

=============================================================================
