----------------------------- MODULE MCBrowsing -----------------------------
(***************************************************************************)
(* A control point that asks for everything at once or for one or three    *)
(* objects at a time, of the libraries of MCEems and of a library with     *)
(* four objects in one container; and the requests of another one, which   *)
(* are wrong in up to two places.                                          *)
(***************************************************************************)
EXTENDS Browsing, MCEems

SomePageSizes == {0, 1, 3}

WideTree ==
    [NestedTree EXCEPT
        !["lib"] = Folder(<<"lib">>, <<Alien, Alien2, Poster>>, <<Poster>>, <<>>, {"saga"}),
        !["saga"] = Folder(<<"saga">>, <<Alien, Alien2>>, <<>>, <<>>, {})]

WideOrNested ==
    TwoLibraries \union OnDisk({WideTree}, {<<ContentDir("lib", "yes")>>})

GoodRequests ==
    {BrowseRequest(id, flag, 0, 0) : id \in {-1, 0, 2, 3, 9}, flag \in BrowseFlags}

WrongFields ==
    {[field |-> "sub_path", value |-> "device"], [field |-> "sub_path", value |-> "cm"],
     [field |-> "method", value |-> "GET"], [field |-> "content_type", value |-> "other"],
     [field |-> "soapaction", value |-> "malformed"], [field |-> "body", value |-> "malformed"],
     [field |-> "body", value |-> "Search"], [field |-> "BrowseFlag", value |-> "other"]}

WrongNumbers ==
    {[field |-> f, value |-> NotANumber] : f \in {"ObjectID", "StartingIndex", "RequestedCount"}}
    \union {[field |-> f, value |-> v] : f \in {"StartingIndex", "RequestedCount"},
                                        v \in {-1, 1, CountModulus}}

WithWrong(req, wrong) == [req EXCEPT ![wrong.field] = wrong.value]

Wrong == WrongFields \union WrongNumbers

WrongRequests ==
    GoodRequests \union {WithWrong(req, w) : req \in GoodRequests, w \in Wrong}
    \union {WithWrong(WithWrong(BrowseRequest(0, "BrowseDirectChildren", 0, 0), v), w) :
                v, w \in Wrong}
=============================================================================
