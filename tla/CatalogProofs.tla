--------------------------- MODULE CatalogProofs ----------------------------
(***************************************************************************)
(* The accounts keep their types, the objects agree with their rows, and a *)
(* registered account is never lost.  The catalogue keeps its types, and   *)
(* every object carries the price, the discount and the owner of its row,  *)
(* whatever single, batch and look-up requests and restarts have run.  The *)
(* lemmas on single handlers are used again for the shop.                  *)
(***************************************************************************)
EXTENDS Catalog, TLAPS

-----------------------------------------------------------------------------
(* Accounts. *)

AccountsInv == AccountsTypeOK /\ UserCacheCoherent

\* An object and its row being equal, a look-up returns the row.
LEMMA KnownIsTheRow ==
  ASSUME AccountsInv
  PROVE  \A u \in Users : Known(u) = users[u]
BY DEF AccountsInv, UserCacheCoherent, Known

\* Looking users up fills the map with rows.
LEMMA LookingUpIsCoherent ==
  ASSUME AccountsInv, NEW S \in SUBSET Users
  PROVE  /\ CacheWithUsers(S) \in [Users -> UserRecord \cup {None}]
         /\ \A u \in Users : CacheWithUsers(S)[u] \in {None, users[u]}
         /\ \A u \in S : CacheWithUsers(S)[u] = users[u]
BY KnownIsTheRow DEF AccountsInv, AccountsTypeOK, UserCacheCoherent, CacheWithUsers

LEMMA LookUpUserKeepsInv ==
  ASSUME AccountsInv, NEW u \in Users, LookUpUser(u)
  PROVE  AccountsInv'
<1>1. userCache' = CacheWithUsers({u}) /\ users' = users
  BY DEF LookUpUser
<1>2. AccountsTypeOK'
  BY <1>1, LookingUpIsCoherent, {u} \in SUBSET Users
     DEF AccountsInv, AccountsTypeOK, LookUpUser
<1>3. UserCacheCoherent'
  BY <1>1, LookingUpIsCoherent, {u} \in SUBSET Users DEF UserCacheCoherent
<1> QED BY <1>2, <1>3 DEF AccountsInv

LEMMA RegisterKeepsInv ==
  ASSUME AccountsInv, NEW u \in Users, NEW p \in Passwords, Register(u, p)
  PROVE  AccountsInv'
<1> DEFINE new == [password |-> Encrypt[p], balance |-> 0]
<1>1. new \in UserRecord
  BY AccountsAssumption DEF UserRecord
<1>2. /\ users' = [users EXCEPT ![u] = new]
      /\ userCache' = [userCache EXCEPT ![u] = new]
      /\ UNCHANGED <<deposited, restarts>>
  BY DEF Register
<1>3. AccountsTypeOK'
  BY <1>1, <1>2 DEF AccountsInv, AccountsTypeOK
<1>4. UserCacheCoherent'
  BY <1>2 DEF AccountsInv, AccountsTypeOK, UserCacheCoherent
<1> QED BY <1>3, <1>4 DEF AccountsInv

\* A row that is rewritten from its object agrees with it.
LEMMA SavingIsCoherent ==
  ASSUME AccountsInv, NEW S \in SUBSET Users,
         userCache' \in [Users -> UserRecord \cup {None}],
         \A u \in S : userCache'[u] # None,
         \A u \in Users \ S : userCache'[u] = userCache[u],
         users' = RowsSaved(S, userCache'),
         deposited' \in [Users -> 0..MaxDeposit], UNCHANGED restarts
  PROVE  AccountsInv'
<1>1. AccountsTypeOK'
  BY DEF AccountsInv, AccountsTypeOK, RowsSaved
<1>2. UserCacheCoherent'
  BY DEF AccountsInv, AccountsTypeOK, UserCacheCoherent, RowsSaved
<1> QED BY <1>1, <1>2 DEF AccountsInv

LEMMA RechargeKeepsInv ==
  ASSUME AccountsInv, NEW u \in Users, NEW a \in Amounts, Recharge(u, a)
  PROVE  AccountsInv'
<1> DEFINE cache == [CacheWithUsers({u}) EXCEPT ![u].balance = @ + a]
<1>1. Known(u) \in UserRecord /\ a \in Nat /\ None \notin UserRecord
  BY AccountsAssumption, KnownIsTheRow
     DEF Recharge, AddsToBalance, AccountsInv, AccountsTypeOK
<1>2. CacheWithUsers({u}) = [userCache EXCEPT ![u] = Known(u)]
  BY DEF CacheWithUsers, AccountsInv, AccountsTypeOK
<1>3. cache = [userCache EXCEPT ![u] = [Known(u) EXCEPT !.balance = @ + a]]
  BY <1>2 DEF AccountsInv, AccountsTypeOK
<1>4. [Known(u) EXCEPT !.balance = @ + a] \in UserRecord
  BY <1>1 DEF UserRecord
<1>5. /\ cache \in [Users -> UserRecord \cup {None}]
      /\ cache[u] # None
      /\ \A w \in Users \ {u} : cache[w] = userCache[w]
  BY <1>1, <1>3, <1>4 DEF AccountsInv, AccountsTypeOK
<1>6. deposited' \in [Users -> 0..MaxDeposit]
  BY <1>1, AccountsAssumption DEF Recharge, AccountsInv, AccountsTypeOK
<1>7. userCache' = cache /\ users' = RowsSaved({u}, userCache') /\ UNCHANGED restarts
  BY DEF Recharge
<1>8. /\ userCache' \in [Users -> UserRecord \cup {None}]
      /\ \A w \in {u} : userCache'[w] # None
      /\ \A w \in Users \ {u} : userCache'[w] = userCache[w]
  BY <1>5, <1>6, <1>7
<1>9. {u} \in SUBSET Users
  OBVIOUS
<1> HIDE DEF cache
<1> QED BY <1>6, <1>7, <1>8, <1>9, SavingIsCoherent

LEMMA ChangePasswordKeepsInv ==
  ASSUME AccountsInv, NEW u \in Users, NEW p \in Passwords, ChangePassword(u, p)
  PROVE  AccountsInv'
<1> DEFINE cache == [CacheWithUsers({u}) EXCEPT ![u].password = Encrypt[p]]
<1>1. Known(u) \in UserRecord /\ Encrypt[p] \in Digests /\ None \notin UserRecord
  BY AccountsAssumption, KnownIsTheRow DEF ChangePassword, AccountsInv, AccountsTypeOK
<1>2. CacheWithUsers({u}) = [userCache EXCEPT ![u] = Known(u)]
  BY DEF CacheWithUsers, AccountsInv, AccountsTypeOK
<1>3. cache = [userCache EXCEPT ![u] = [Known(u) EXCEPT !.password = Encrypt[p]]]
  BY <1>2 DEF AccountsInv, AccountsTypeOK
<1>4. [Known(u) EXCEPT !.password = Encrypt[p]] \in UserRecord
  BY <1>1 DEF UserRecord
<1>5. /\ cache \in [Users -> UserRecord \cup {None}]
      /\ cache[u] # None
      /\ \A w \in Users \ {u} : cache[w] = userCache[w]
  BY <1>1, <1>3, <1>4 DEF AccountsInv, AccountsTypeOK
<1>6. /\ userCache' = cache /\ users' = RowsSaved({u}, userCache')
      /\ UNCHANGED <<deposited, restarts>>
  BY DEF ChangePassword
<1>7. deposited' \in [Users -> 0..MaxDeposit]
  BY <1>6 DEF AccountsInv, AccountsTypeOK
<1>8. /\ userCache' \in [Users -> UserRecord \cup {None}]
      /\ \A w \in {u} : userCache'[w] # None
      /\ \A w \in Users \ {u} : userCache'[w] = userCache[w]
  BY <1>5, <1>6, <1>7
<1>9. {u} \in SUBSET Users
  OBVIOUS
<1> HIDE DEF cache
<1> QED BY <1>6, <1>7, <1>8, <1>9, SavingIsCoherent

LEMMA RestartAccountsKeepsInv ==
  ASSUME AccountsInv, RestartAccounts
  PROVE  AccountsInv'
BY AccountsAssumption
   DEF RestartAccounts, AccountsInv, AccountsTypeOK, UserCacheCoherent

LEMMA AccountsInitInv == AccountsInit => AccountsInv
BY AccountsAssumption DEF AccountsInit, AccountsInv, AccountsTypeOK, UserCacheCoherent

LEMMA AccountsNextKeepsInv ==
  ASSUME AccountsInv, [AccountsNext]_accountVars
  PROVE  AccountsInv'
<1>1. ASSUME NEW u \in Users, NEW p \in Passwords, Register(u, p)
      PROVE  AccountsInv'
  BY <1>1, RegisterKeepsInv
<1>2. ASSUME NEW u \in Users, NEW p \in Passwords, ChangePassword(u, p)
      PROVE  AccountsInv'
  BY <1>2, ChangePasswordKeepsInv
<1>3. ASSUME NEW u \in Users, NEW a \in Amounts, Recharge(u, a)
      PROVE  AccountsInv'
  BY <1>3, RechargeKeepsInv
<1>4. ASSUME NEW u \in Users, LookUpUser(u)
      PROVE  AccountsInv'
  BY <1>4, LookUpUserKeepsInv
<1>5. CASE RestartAccounts
  BY <1>5, RestartAccountsKeepsInv
<1>6. CASE UNCHANGED accountVars
  BY <1>6 DEF accountVars, AccountsInv, AccountsTypeOK, UserCacheCoherent
<1> QED BY <1>1, <1>2, <1>3, <1>4, <1>5, <1>6 DEF AccountsNext

\* The types of the accounts, and the agreement of every object with its row:
\* what getOrLoad returns is what a restarted server would load.
THEOREM AccountsSafe == AccountsSpec => [](AccountsTypeOK /\ UserCacheCoherent)
<1>1. AccountsInit => AccountsInv
  BY AccountsInitInv
<1>2. AccountsInv /\ [AccountsNext]_accountVars => AccountsInv'
  BY AccountsNextKeepsInv
<1>3. AccountsInv => AccountsTypeOK /\ UserCacheCoherent
  BY DEF AccountsInv
<1> QED BY <1>1, <1>2, <1>3, PTL DEF AccountsSpec

-----------------------------------------------------------------------------

\* What AccountsKept says of one step.
Kept ==
  \A u \in Users : users[u] # None =>
    users'[u] # None /\ users'[u].balance >= users[u].balance

LEMMA RegisterKeeps ==
  ASSUME AccountsInv, NEW u \in Users, NEW p \in Passwords, Register(u, p)
  PROVE  Kept
<1>1. users[u] = None
  BY DEF Register, NameTaken
<1>2. \A w \in Users : w # u => users'[w] = users[w]
  BY DEF Register, AccountsInv, AccountsTypeOK
<1>3. \A w \in Users : users[w] # None => users[w].balance \in Nat
  BY DEF AccountsInv, AccountsTypeOK, UserRecord
<1> QED BY <1>1, <1>2, <1>3 DEF Kept

\* A handler that rewrites one row and does not lower its balance.
LEMMA OneRowKeeps ==
  ASSUME AccountsInv, NEW u \in Users,
         users' = [users EXCEPT ![u] = userCache'[u]],
         userCache'[u] # None,
         users[u] # None => userCache'[u].balance >= users[u].balance
  PROVE  Kept
<1>1. \A w \in Users : users[w] # None => users[w].balance \in Nat
  BY DEF AccountsInv, AccountsTypeOK, UserRecord
<1> QED BY <1>1 DEF Kept, AccountsInv, AccountsTypeOK

LEMMA RechargeKeeps ==
  ASSUME AccountsInv, NEW u \in Users, NEW a \in Amounts, Recharge(u, a)
  PROVE  Kept
<1>1. Known(u) \in UserRecord /\ a \in Nat /\ None \notin UserRecord /\ Known(u) = users[u]
  BY AccountsAssumption, KnownIsTheRow
     DEF Recharge, AddsToBalance, AccountsInv, AccountsTypeOK
<1>2. CacheWithUsers({u}) = [userCache EXCEPT ![u] = Known(u)]
  BY DEF CacheWithUsers, AccountsInv, AccountsTypeOK
<1>3. userCache' = [userCache EXCEPT ![u] = [Known(u) EXCEPT !.balance = @ + a]]
  BY <1>2 DEF Recharge, AccountsInv, AccountsTypeOK
<1>4. userCache'[u] = [users[u] EXCEPT !.balance = @ + a]
  BY <1>1, <1>3 DEF AccountsInv, AccountsTypeOK
<1>5. userCache'[u] \in UserRecord /\ userCache'[u].balance >= users[u].balance
  BY <1>1, <1>4 DEF UserRecord
<1>6. users' = [users EXCEPT ![u] = userCache'[u]]
  <2>1. users' = RowsSaved({u}, userCache')
    BY DEF Recharge
  <2> QED BY <2>1 DEF RowsSaved, AccountsInv, AccountsTypeOK
<1> QED BY <1>1, <1>5, <1>6, OneRowKeeps

LEMMA ChangePasswordKeeps ==
  ASSUME AccountsInv, NEW u \in Users, NEW p \in Passwords, ChangePassword(u, p)
  PROVE  Kept
<1>1. Known(u) \in UserRecord /\ Encrypt[p] \in Digests /\ None \notin UserRecord
      /\ Known(u) = users[u]
  BY AccountsAssumption, KnownIsTheRow DEF ChangePassword, AccountsInv, AccountsTypeOK
<1>2. CacheWithUsers({u}) = [userCache EXCEPT ![u] = Known(u)]
  BY DEF CacheWithUsers, AccountsInv, AccountsTypeOK
<1>3. userCache' = [userCache EXCEPT ![u] = [Known(u) EXCEPT !.password = Encrypt[p]]]
  BY <1>2 DEF ChangePassword, AccountsInv, AccountsTypeOK
<1>4. userCache'[u] = [users[u] EXCEPT !.password = Encrypt[p]]
  BY <1>1, <1>3 DEF AccountsInv, AccountsTypeOK
<1>5. userCache'[u] \in UserRecord /\ userCache'[u].balance >= users[u].balance
  BY <1>1, <1>4 DEF UserRecord
<1>6. users' = [users EXCEPT ![u] = userCache'[u]]
  <2>1. users' = RowsSaved({u}, userCache')
    BY DEF ChangePassword
  <2> QED BY <2>1 DEF RowsSaved, AccountsInv, AccountsTypeOK
<1> QED BY <1>1, <1>5, <1>6, OneRowKeeps

LEMMA UnchangedKeeps ==
  ASSUME AccountsInv, users' = users
  PROVE  Kept
<1>1. \A w \in Users : users[w] # None => users[w].balance \in Nat
  BY DEF AccountsInv, AccountsTypeOK, UserRecord
<1> QED BY <1>1 DEF Kept

\* A registered account is never lost and no account handler lowers its
\* balance, in whatever order registrations, restarts and requests come: the
\* row is there even when the map registerUser looks in is not.
THEOREM AccountsAreKept == AccountsSpec => AccountsKept
<1>1. AccountsInv /\ [AccountsNext]_accountVars => [Kept]_accountVars
  <2> SUFFICES ASSUME AccountsInv, AccountsNext PROVE Kept
    OBVIOUS
  <2>1. ASSUME NEW u \in Users, NEW p \in Passwords, Register(u, p)
        PROVE  Kept
    BY <2>1, RegisterKeeps
  <2>2. ASSUME NEW u \in Users, NEW p \in Passwords, ChangePassword(u, p)
        PROVE  Kept
    BY <2>2, ChangePasswordKeeps
  <2>3. ASSUME NEW u \in Users, NEW a \in Amounts, Recharge(u, a)
        PROVE  Kept
    BY <2>3, RechargeKeeps
  <2>4. ASSUME NEW u \in Users, LookUpUser(u)
        PROVE  Kept
    BY <2>4, UnchangedKeeps DEF LookUpUser
  <2>5. CASE RestartAccounts
    BY <2>5, UnchangedKeeps DEF RestartAccounts
  <2> QED BY <2>1, <2>2, <2>3, <2>4, <2>5 DEF AccountsNext
<1>2. AccountsInit => AccountsInv
  BY AccountsInitInv
<1>3. AccountsInv /\ [AccountsNext]_accountVars => AccountsInv'
  BY AccountsNextKeepsInv
<1>4. AccountsKept <=> [][Kept]_accountVars
  BY DEF AccountsKept, Kept
<1> QED BY <1>1, <1>2, <1>3, <1>4, PTL DEF AccountsSpec

-----------------------------------------------------------------------------
(* Goods. *)

SamePricing(x, y) ==
  /\ x.merchant = y.merchant
  /\ x.type = y.type
  /\ x.basePrice = y.basePrice
  /\ x.discount = y.discount

\* A table and a map that agree.
Priced(rows, cache) ==
  /\ rows \in [Commodities -> CommodityRecord \cup {None}]
  /\ cache \in [Commodities -> CommodityRecord \cup {None}]
  /\ \A c \in Commodities :
       cache[c] # None => rows[c] # None /\ SamePricing(cache[c], rows[c])

GoodsInv ==
  /\ Priced(commodities, commodityCache)
  /\ supplied \in [Commodities -> Int]

CatalogInv == AccountsInv /\ GoodsInv

LEMMA GoodsInvMeans ==
  GoodsInv <=> CatalogTypeOK /\ PricingCoherent
BY DEF GoodsInv, Priced, SamePricing, CatalogTypeOK, PricingCoherent

LEMMA GoodsInvMeansPrimed ==
  ASSUME Priced(commodities', commodityCache'), supplied' \in [Commodities -> Int]
  PROVE  GoodsInv'
BY DEF GoodsInv, Priced, SamePricing

\* What a look-up returns: the row, but for the stock.
LEMMA FoundIsPriced ==
  ASSUME GoodsInv, NEW c \in Commodities
  PROVE  /\ Found(c) \in CommodityRecord \cup {None}
         /\ Found(c) = None <=> commodities[c] = None
         /\ Found(c) # None => SamePricing(Found(c), commodities[c])
         /\ commodityCache[c] # None => Found(c) = commodityCache[c]
BY DEF GoodsInv, Priced, SamePricing, Found

LEMMA LookingUpIsPriced ==
  ASSUME GoodsInv, NEW S \in SUBSET Commodities
  PROVE  Priced(commodities, CacheWithGoods(S))
BY FoundIsPriced DEF GoodsInv, Priced, CacheWithGoods, SamePricing

LEMMA CatalogInitInv == CatalogInit => CatalogInv
BY AccountsInitInv DEF CatalogInit, CatalogInv, GoodsInv, Priced

\* A step that only loads objects.
LEMMA LoadingKeepsInv ==
  ASSUME GoodsInv, NEW S \in SUBSET Commodities,
         commodityCache' = CacheWithGoods(S), UNCHANGED <<commodities, supplied>>
  PROVE  GoodsInv'
<1>1. Priced(commodities', commodityCache')
  BY LookingUpIsPriced
<1> QED BY <1>1, GoodsInvMeansPrimed DEF GoodsInv

LEMMA MerchantRequestKeepsInv ==
  ASSUME AccountsInv, NEW m \in Merchants, MerchantRequest(m)
  PROVE  AccountsInv'
BY LookUpUserKeepsInv DEF MerchantRequest, Users

LEMMA AddCommodityKeepsInv ==
  ASSUME GoodsInv, NEW m \in Merchants, NEW c \in Commodities, NEW t \in Types,
         NEW price \in Prices, NEW stock \in Stocks,
         AddCommodity(m, c, t, price, stock)
  PROVE  GoodsInv'
<1> DEFINE new == [merchant |-> m, type |-> t, basePrice |-> price,
                   discount |-> FullPrice, storage |-> stock]
<1>1. new \in CommodityRecord /\ stock \in Int
  BY CatalogAssumption DEF AddCommodity, CommodityRecord
<1>2. /\ commodities' = [commodities EXCEPT ![c] = new]
      /\ commodityCache' = [commodityCache EXCEPT ![c] = new]
      /\ supplied' = [supplied EXCEPT ![c] = @ + stock]
  BY DEF AddCommodity
<1>3. Priced(commodities', commodityCache')
  BY <1>1, <1>2 DEF GoodsInv, Priced, SamePricing
<1>4. supplied' \in [Commodities -> Int]
  BY <1>1, <1>2 DEF GoodsInv
<1> QED BY <1>3, <1>4, GoodsInvMeansPrimed

\* An update of one commodity, in the row and in the object alike.
LEMMA UpdateKeepsPriced ==
  ASSUME GoodsInv, NEW c \in Commodities,
         NEW row \in CommodityRecord, NEW object \in CommodityRecord,
         SamePricing(object, row),
         commodities' = [commodities EXCEPT ![c] = row],
         commodityCache' = [commodityCache EXCEPT ![c] = object]
  PROVE  Priced(commodities', commodityCache')
<1>1. None \notin CommodityRecord
  BY CatalogAssumption
<1>2. /\ commodities' \in [Commodities -> CommodityRecord \cup {None}]
      /\ commodityCache' \in [Commodities -> CommodityRecord \cup {None}]
  BY DEF GoodsInv, Priced
<1>3. commodities'[c] = row /\ commodityCache'[c] = object
  BY DEF GoodsInv, Priced
<1>4. ASSUME NEW d \in Commodities, d # c
      PROVE  commodities'[d] = commodities[d] /\ commodityCache'[d] = commodityCache[d]
  BY <1>4 DEF GoodsInv, Priced
<1> QED BY <1>1, <1>2, <1>3, <1>4 DEF GoodsInv, Priced

\* The row and the object of a commodity its merchant asks to change.
LEMMA OwnCommodityIsListed ==
  ASSUME GoodsInv, NEW m \in Merchants, NEW c \in Commodities, OwnCommodity(m, c)
  PROVE  /\ Found(c) \in CommodityRecord
         /\ commodities[c] \in CommodityRecord
         /\ SamePricing(Found(c), commodities[c])
         /\ CacheWithGoods({c}) = [commodityCache EXCEPT ![c] = Found(c)]
         /\ CacheWithGoods({c})[c] = Found(c)
<1>1. /\ Found(c) \in CommodityRecord
      /\ commodities[c] \in CommodityRecord
      /\ SamePricing(Found(c), commodities[c])
  BY FoundIsPriced DEF OwnCommodity, GoodsInv, Priced
<1>2. CacheWithGoods({c}) = [commodityCache EXCEPT ![c] = Found(c)]
  BY DEF CacheWithGoods, GoodsInv, Priced
<1> QED BY <1>1, <1>2 DEF GoodsInv, Priced

\* The row and the object of one commodity stay priced alike when a merchant
\* writes the same value into both: one lemma for each of the three fields.
LEMMA SamePriceWrittenToBoth ==
  ASSUME NEW x \in CommodityRecord, NEW y \in CommodityRecord, SamePricing(y, x),
         NEW n \in Int
  PROVE  /\ [x EXCEPT !.basePrice = n] \in CommodityRecord
         /\ [y EXCEPT !.basePrice = n] \in CommodityRecord
         /\ SamePricing([y EXCEPT !.basePrice = n], [x EXCEPT !.basePrice = n])
<1>1. /\ [x EXCEPT !.basePrice = n] \in CommodityRecord
      /\ [y EXCEPT !.basePrice = n] \in CommodityRecord
  BY SMTT(30) DEF CommodityRecord
<1>2. SamePricing([y EXCEPT !.basePrice = n], [x EXCEPT !.basePrice = n])
  BY SMTT(30) DEF CommodityRecord, SamePricing
<1> QED BY <1>1, <1>2

LEMMA SameStockWrittenToBoth ==
  ASSUME NEW x \in CommodityRecord, NEW y \in CommodityRecord, SamePricing(y, x),
         NEW n \in Int
  PROVE  /\ [x EXCEPT !.storage = n] \in CommodityRecord
         /\ [y EXCEPT !.storage = n] \in CommodityRecord
         /\ SamePricing([y EXCEPT !.storage = n], [x EXCEPT !.storage = n])
<1>1. /\ [x EXCEPT !.storage = n] \in CommodityRecord
      /\ [y EXCEPT !.storage = n] \in CommodityRecord
  BY SMTT(30) DEF CommodityRecord
<1>2. SamePricing([y EXCEPT !.storage = n], [x EXCEPT !.storage = n])
  BY SMTT(30) DEF CommodityRecord, SamePricing
<1> QED BY <1>1, <1>2

LEMMA SameDiscountWrittenToBoth ==
  ASSUME NEW x \in CommodityRecord, NEW y \in CommodityRecord, SamePricing(y, x),
         NEW d \in 0..FullPrice
  PROVE  /\ [x EXCEPT !.discount = d] \in CommodityRecord
         /\ [y EXCEPT !.discount = d] \in CommodityRecord
         /\ SamePricing([y EXCEPT !.discount = d], [x EXCEPT !.discount = d])
<1>1. /\ [x EXCEPT !.discount = d] \in CommodityRecord
      /\ [y EXCEPT !.discount = d] \in CommodityRecord
  BY SMTT(30) DEF CommodityRecord
<1>2. SamePricing([y EXCEPT !.discount = d], [x EXCEPT !.discount = d])
  BY SMTT(30) DEF CommodityRecord, SamePricing
<1> QED BY <1>1, <1>2

LEMMA ModifyPriceKeepsInv ==
  ASSUME GoodsInv, NEW m \in Merchants, NEW c \in Commodities, NEW price \in Prices,
         ModifyPrice(m, c, price)
  PROVE  GoodsInv'
<1> DEFINE row == [commodities[c] EXCEPT !.basePrice = price]
           object == [Found(c) EXCEPT !.basePrice = price]
<1>1. OwnCommodity(m, c) /\ price \in Int
  BY CatalogAssumption DEF ModifyPrice
<1>2. row \in CommodityRecord /\ object \in CommodityRecord /\ SamePricing(object, row)
  <2>1. /\ commodities[c] \in CommodityRecord /\ Found(c) \in CommodityRecord
        /\ SamePricing(Found(c), commodities[c])
    BY <1>1, OwnCommodityIsListed
  <2> QED BY <1>1, <2>1, SamePriceWrittenToBoth
<1>3. commodities' = [commodities EXCEPT ![c] = row]
  BY DEF ModifyPrice, GoodsInv, Priced
<1>4. commodityCache' = [commodityCache EXCEPT ![c] = object]
  BY <1>1, OwnCommodityIsListed DEF ModifyPrice, GoodsInv, Priced
<1>5. Priced(commodities', commodityCache')
  <2>1. PICK r \in CommodityRecord, o \in CommodityRecord : r = row /\ o = object
    BY <1>2
  <2> HIDE DEF row, object
  <2> QED BY <2>1, <1>2, <1>3, <1>4, UpdateKeepsPriced
<1> QED BY <1>5, GoodsInvMeansPrimed DEF ModifyPrice, GoodsInv

LEMMA ModifyStockKeepsInv ==
  ASSUME GoodsInv, NEW m \in Merchants, NEW c \in Commodities, NEW stock \in Stocks,
         ModifyStock(m, c, stock)
  PROVE  GoodsInv'
<1> DEFINE row == [commodities[c] EXCEPT !.storage = stock]
           object == [Found(c) EXCEPT !.storage = stock]
<1>1. OwnCommodity(m, c) /\ stock \in Int
  BY CatalogAssumption DEF ModifyStock, AllowedStock
<1>2. row \in CommodityRecord /\ object \in CommodityRecord /\ SamePricing(object, row)
  <2>1. /\ commodities[c] \in CommodityRecord /\ Found(c) \in CommodityRecord
        /\ SamePricing(Found(c), commodities[c])
    BY <1>1, OwnCommodityIsListed
  <2> QED BY <1>1, <2>1, SameStockWrittenToBoth
<1>3. commodities' = [commodities EXCEPT ![c] = row]
  BY DEF ModifyStock, GoodsInv, Priced
<1>4. commodityCache' = [commodityCache EXCEPT ![c] = object]
  BY <1>1, OwnCommodityIsListed DEF ModifyStock, GoodsInv, Priced
<1>5. Priced(commodities', commodityCache')
  <2>1. PICK r \in CommodityRecord, o \in CommodityRecord : r = row /\ o = object
    BY <1>2
  <2> HIDE DEF row, object
  <2> QED BY <2>1, <1>2, <1>3, <1>4, UpdateKeepsPriced
<1>6. supplied' \in [Commodities -> Int]
  <2>1. commodities[c].storage \in Int
    BY <1>1, OwnCommodityIsListed DEF CommodityRecord
  <2>2. supplied' = [supplied EXCEPT ![c] = @ + (stock - commodities[c].storage)]
    BY DEF ModifyStock
  <2> QED BY <1>1, <2>1, <2>2 DEF GoodsInv
<1> QED BY <1>5, <1>6, GoodsInvMeansPrimed

LEMMA ModifyDiscountKeepsInv ==
  ASSUME GoodsInv, NEW m \in Merchants, NEW c \in Commodities, NEW d \in Discounts,
         ModifyDiscount(m, c, d)
  PROVE  GoodsInv'
<1> DEFINE row == [commodities[c] EXCEPT !.discount = d]
           object == [Found(c) EXCEPT !.discount = d]
<1>1. OwnCommodity(m, c) /\ d \in 0..FullPrice
  BY CatalogAssumption DEF ModifyDiscount, AllowedDiscount
<1>2. row \in CommodityRecord /\ object \in CommodityRecord /\ SamePricing(object, row)
  <2>1. /\ commodities[c] \in CommodityRecord /\ Found(c) \in CommodityRecord
        /\ SamePricing(Found(c), commodities[c])
    BY <1>1, OwnCommodityIsListed
  <2> QED BY <1>1, <2>1, SameDiscountWrittenToBoth
<1>3. commodities' = [commodities EXCEPT ![c] = row]
  BY DEF ModifyDiscount, GoodsInv, Priced
<1>4. commodityCache' = [commodityCache EXCEPT ![c] = object]
  BY <1>1, OwnCommodityIsListed DEF ModifyDiscount, GoodsInv, Priced
<1>5. Priced(commodities', commodityCache')
  <2>1. PICK r \in CommodityRecord, o \in CommodityRecord : r = row /\ o = object
    BY <1>2
  <2> HIDE DEF row, object
  <2> QED BY <2>1, <1>2, <1>3, <1>4, UpdateKeepsPriced
<1> QED BY <1>5, GoodsInvMeansPrimed DEF ModifyDiscount, GoodsInv

\* The objects chosen by their fields are the objects of the rows chosen by
\* theirs.
LEMMA BatchesAgree ==
  ASSUME GoodsInv, NEW m, NEW t, NEW d
  PROVE  Discounted(commodityCache, CachedBatch(m, t), d)
           = Discounted(commodityCache, Batch(m, t), d)
<1>1. ASSUME NEW c \in Commodities, commodityCache[c] # None
      PROVE  c \in CachedBatch(m, t) <=> c \in Batch(m, t)
  BY <1>1 DEF GoodsInv, Priced, SamePricing, CachedBatch, Batch, OwnedBy
<1> QED BY <1>1 DEF Discounted

\* The batch gives rows and objects of the same commodities the same discount.
LEMMA BatchModifyDiscountKeepsInv ==
  ASSUME GoodsInv, NEW m \in Merchants, NEW t \in Types, NEW d \in Discounts,
         BatchModifyDiscount(m, t, d)
  PROVE  GoodsInv'
<1>1. d \in 0..FullPrice
  BY CatalogAssumption DEF BatchModifyDiscount, AllowedDiscount
<1>2. ASSUME NEW x \in CommodityRecord
      PROVE  [x EXCEPT !.discount = d] \in CommodityRecord
  BY <1>1 DEF CommodityRecord
<1>3. PICK S : S = Batch(m, t)
  OBVIOUS
<1>4. /\ commodities' = Discounted(commodities, S, d)
      /\ commodityCache' = Discounted(commodityCache, S, d)
  BY <1>3, BatchesAgree DEF BatchModifyDiscount
<1>5. /\ commodities' \in [Commodities -> CommodityRecord \cup {None}]
      /\ commodityCache' \in [Commodities -> CommodityRecord \cup {None}]
  BY <1>2, <1>4 DEF GoodsInv, Priced, Discounted
<1>6. ASSUME NEW c \in Commodities, commodityCache'[c] # None
      PROVE  commodities'[c] # None /\ SamePricing(commodityCache'[c], commodities'[c])
  <2>1. /\ commodityCache[c] \in CommodityRecord
        /\ commodities[c] \in CommodityRecord
        /\ SamePricing(commodityCache[c], commodities[c])
    BY <1>4, <1>6 DEF GoodsInv, Priced, Discounted
  <2>2. CASE c \in S
    <3>1. /\ commodityCache'[c] = [commodityCache[c] EXCEPT !.discount = d]
          /\ commodities'[c] = [commodities[c] EXCEPT !.discount = d]
      BY <1>4, <2>1, <2>2, CatalogAssumption DEF Discounted
    <3> QED BY <1>2, <2>1, <3>1, CatalogAssumption DEF SamePricing, CommodityRecord
  <2>3. CASE c \notin S
    BY <1>4, <2>1, <2>3, CatalogAssumption DEF Discounted
  <2> QED BY <2>2, <2>3
<1>7. supplied' \in [Commodities -> Int]
  BY DEF BatchModifyDiscount, GoodsInv
<1> QED BY <1>5, <1>6, <1>7, GoodsInvMeansPrimed DEF Priced

LEMMA RestartCatalogKeepsInv ==
  ASSUME CatalogInv, RestartCatalog
  PROVE  CatalogInv'
<1>1. AccountsInv'
  BY RestartAccountsKeepsInv DEF CatalogInv, RestartCatalog
<1>2. GoodsInv'
  BY DEF CatalogInv, GoodsInv, Priced, RestartCatalog
<1> QED BY <1>1, <1>2 DEF CatalogInv

-----------------------------------------------------------------------------

LEMMA MerchantStepKeepsInv ==
  ASSUME CatalogInv, NEW m \in Merchants, MerchantStep(m)
  PROVE  CatalogInv'
<1>1. AccountsInv /\ GoodsInv
  BY DEF CatalogInv
<1>2. MerchantRequest(m)
  BY DEF MerchantStep, ListMyCommodities, AddCommodity, ModifyPrice, ModifyStock,
         ModifyDiscount, OwnCommodity, BatchModifyDiscount
<1>3. AccountsInv'
  BY <1>1, <1>2, MerchantRequestKeepsInv
<1>4. ASSUME ListMyCommodities(m)
      PROVE  GoodsInv'
  <2>1. PICK S \in SUBSET Commodities : S = OwnedBy(m)
    BY DEF OwnedBy
  <2> QED BY <1>1, <1>4, <2>1, LoadingKeepsInv DEF ListMyCommodities
<1>5. ASSUME NEW c \in Commodities, NEW t \in Types, NEW price \in Prices,
             NEW stock \in Stocks, AddCommodity(m, c, t, price, stock)
      PROVE  GoodsInv'
  BY <1>1, <1>5, AddCommodityKeepsInv
<1>6. ASSUME NEW c \in Commodities, NEW price \in Prices, ModifyPrice(m, c, price)
      PROVE  GoodsInv'
  BY <1>1, <1>6, ModifyPriceKeepsInv
<1>7. ASSUME NEW c \in Commodities, NEW stock \in Stocks, ModifyStock(m, c, stock)
      PROVE  GoodsInv'
  BY <1>1, <1>7, ModifyStockKeepsInv
<1>8. ASSUME NEW c \in Commodities, NEW d \in Discounts, ModifyDiscount(m, c, d)
      PROVE  GoodsInv'
  BY <1>1, <1>8, ModifyDiscountKeepsInv
<1>9. ASSUME NEW t \in Types, NEW d \in Discounts, BatchModifyDiscount(m, t, d)
      PROVE  GoodsInv'
  BY <1>1, <1>9, BatchModifyDiscountKeepsInv
<1>10. GoodsInv'
  BY <1>4, <1>5, <1>6, <1>7, <1>8, <1>9 DEF MerchantStep
<1> QED BY <1>3, <1>10 DEF CatalogInv

LEMMA AccountStepKeepsInv ==
  ASSUME CatalogInv, AccountStep
  PROVE  CatalogInv'
<1>1. [AccountsNext]_accountVars
  BY DEF AccountStep, AccountsNext
<1>2. AccountsInv'
  BY <1>1, AccountsNextKeepsInv DEF CatalogInv
<1>3. GoodsInv'
  BY DEF CatalogInv, AccountStep, goodsVars, GoodsInv
<1> QED BY <1>2, <1>3 DEF CatalogInv

LEMMA GoodsStepKeepsInv ==
  ASSUME CatalogInv, GoodsStep
  PROVE  CatalogInv'
<1>1. ASSUME NEW m \in Merchants, MerchantStep(m)
      PROVE  CatalogInv'
  BY <1>1, MerchantStepKeepsInv
<1>2. ASSUME NEW S \in SUBSET Commodities, SearchCommodities(S)
      PROVE  CatalogInv'
  <2>1. GoodsInv'
    BY <1>2, LoadingKeepsInv DEF CatalogInv, SearchCommodities
  <2>2. AccountsInv'
    BY <1>2, AccountsNextKeepsInv DEF CatalogInv, SearchCommodities
  <2> QED BY <2>1, <2>2 DEF CatalogInv
<1>3. ASSUME NEW u \in Users, NEW c \in Commodities, RefusedRequest(u, c)
      PROVE  CatalogInv'
  <2>1. GoodsInv'
    BY <1>3, LoadingKeepsInv, {c} \in SUBSET Commodities DEF CatalogInv, RefusedRequest
  <2>2. AccountsInv'
    BY <1>3, LookUpUserKeepsInv DEF CatalogInv, RefusedRequest
  <2> QED BY <2>1, <2>2 DEF CatalogInv
<1> QED BY <1>1, <1>2, <1>3 DEF GoodsStep

LEMMA CatalogStutters ==
  ASSUME CatalogInv, UNCHANGED catalogVars
  PROVE  CatalogInv'
<1>1. UNCHANGED accountVars /\ UNCHANGED <<commodities, commodityCache, supplied>>
  BY DEF catalogVars, goodsVars
<1>2. AccountsInv'
  BY <1>1, AccountsNextKeepsInv DEF CatalogInv
<1>3. GoodsInv'
  BY <1>1 DEF CatalogInv, GoodsInv
<1> QED BY <1>2, <1>3 DEF CatalogInv

LEMMA CatalogKeepsInv == CatalogSpec => []CatalogInv
<1>1. CatalogInit => CatalogInv
  BY CatalogInitInv
<1>2. CatalogInv /\ [CatalogNext]_catalogVars => CatalogInv'
  BY AccountStepKeepsInv, GoodsStepKeepsInv, RestartCatalogKeepsInv, CatalogStutters
     DEF CatalogNext
<1> QED BY <1>1, <1>2, PTL DEF CatalogSpec

\* What a client is shown (an object's price) is what checkout charges (the
\* row's): the batch update, which touches rows by merchant and type and
\* objects one by one, cannot make them differ.
THEOREM CatalogSafe == CatalogSpec => [](CatalogTypeOK /\ PricingCoherent)
<1>1. CatalogInv => CatalogTypeOK /\ PricingCoherent
  BY GoodsInvMeans DEF CatalogInv
<1> QED BY CatalogKeepsInv, <1>1, PTL

-----------------------------------------------------------------------------

\* What ListingsKept says of one step.
KeptListed ==
  \A c \in Commodities : commodities[c] # None =>
    /\ commodities'[c] # None
    /\ commodities'[c].merchant = commodities[c].merchant
    /\ commodities'[c].type = commodities[c].type

LEMMA AddCommodityKeepsListings ==
  ASSUME GoodsInv, NEW m \in Merchants, NEW c \in Commodities, NEW t \in Types,
         NEW price \in Prices, NEW stock \in Stocks,
         AddCommodity(m, c, t, price, stock)
  PROVE  KeptListed
<1>1. commodities[c] = None
  BY DEF AddCommodity, Listed
<1>2. \A d \in Commodities : d # c => commodities'[d] = commodities[d]
  BY DEF AddCommodity, GoodsInv, Priced
<1> QED BY <1>1, <1>2 DEF KeptListed

\* An update of a row that is there, of other columns than its owner and type.
LEMMA UpdateKeepsListings ==
  ASSUME GoodsInv, NEW c \in Commodities, NEW row \in CommodityRecord,
         row.merchant = commodities[c].merchant, row.type = commodities[c].type,
         commodities' = [commodities EXCEPT ![c] = row]
  PROVE  KeptListed
<1>1. commodities'[c] = row /\ row # None
  BY CatalogAssumption DEF GoodsInv, Priced
<1>2. \A d \in Commodities : d # c => commodities'[d] = commodities[d]
  BY DEF GoodsInv, Priced
<1> QED BY <1>1, <1>2 DEF KeptListed

LEMMA ModifyPriceKeepsListings ==
  ASSUME GoodsInv, NEW m \in Merchants, NEW c \in Commodities, NEW price \in Prices,
         ModifyPrice(m, c, price)
  PROVE  KeptListed
<1>1. commodities[c] \in CommodityRecord /\ price \in Int
  <2>1. OwnCommodity(m, c) /\ price \in Int
    BY CatalogAssumption DEF ModifyPrice
  <2> QED BY <2>1, OwnCommodityIsListed
<1>2. PICK row \in CommodityRecord : row = [commodities[c] EXCEPT !.basePrice = price]
  BY <1>1 DEF CommodityRecord
<1>3. commodities' = [commodities EXCEPT ![c] = row]
  BY <1>2 DEF ModifyPrice, GoodsInv, Priced
<1>4. row.merchant = commodities[c].merchant /\ row.type = commodities[c].type
  BY <1>1, <1>2 DEF CommodityRecord
<1> QED BY <1>3, <1>4, UpdateKeepsListings

LEMMA ModifyStockKeepsListings ==
  ASSUME GoodsInv, NEW m \in Merchants, NEW c \in Commodities, NEW stock \in Stocks,
         ModifyStock(m, c, stock)
  PROVE  KeptListed
<1>1. commodities[c] \in CommodityRecord /\ stock \in Int
  <2>1. OwnCommodity(m, c) /\ stock \in Int
    BY CatalogAssumption DEF ModifyStock, AllowedStock
  <2> QED BY <2>1, OwnCommodityIsListed
<1>2. PICK row \in CommodityRecord : row = [commodities[c] EXCEPT !.storage = stock]
  BY <1>1 DEF CommodityRecord
<1>3. commodities' = [commodities EXCEPT ![c] = row]
  BY <1>2 DEF ModifyStock, GoodsInv, Priced
<1>4. row.merchant = commodities[c].merchant /\ row.type = commodities[c].type
  BY <1>1, <1>2 DEF CommodityRecord
<1> QED BY <1>3, <1>4, UpdateKeepsListings

LEMMA ModifyDiscountKeepsListings ==
  ASSUME GoodsInv, NEW m \in Merchants, NEW c \in Commodities, NEW d \in Discounts,
         ModifyDiscount(m, c, d)
  PROVE  KeptListed
<1>1. commodities[c] \in CommodityRecord /\ d \in 0..FullPrice
  <2>1. OwnCommodity(m, c) /\ d \in 0..FullPrice
    BY CatalogAssumption DEF ModifyDiscount, AllowedDiscount
  <2> QED BY <2>1, OwnCommodityIsListed
<1>2. PICK row \in CommodityRecord : row = [commodities[c] EXCEPT !.discount = d]
  BY <1>1 DEF CommodityRecord
<1>3. commodities' = [commodities EXCEPT ![c] = row]
  BY <1>2 DEF ModifyDiscount, GoodsInv, Priced
<1>4. row.merchant = commodities[c].merchant /\ row.type = commodities[c].type
  BY <1>1, <1>2 DEF CommodityRecord
<1> QED BY <1>3, <1>4, UpdateKeepsListings

LEMMA BatchModifyDiscountKeepsListings ==
  ASSUME GoodsInv, NEW m \in Merchants, NEW t \in Types, NEW d \in Discounts,
         BatchModifyDiscount(m, t, d)
  PROVE  KeptListed
<1>1. d \in 0..FullPrice
  BY CatalogAssumption DEF BatchModifyDiscount, AllowedDiscount
<1>2. ASSUME NEW c \in Commodities, commodities[c] # None
      PROVE  /\ commodities'[c] # None
             /\ commodities'[c].merchant = commodities[c].merchant
             /\ commodities'[c].type = commodities[c].type
  <2>1. commodities'[c] \in {commodities[c], [commodities[c] EXCEPT !.discount = d]}
    BY <1>2 DEF BatchModifyDiscount, Discounted
  <2>2. commodities[c] \in CommodityRecord
    BY <1>2 DEF GoodsInv, Priced
  <2>3. [commodities[c] EXCEPT !.discount = d] \in CommodityRecord
    BY <1>1, <2>2 DEF CommodityRecord
  <2> QED BY <2>1, <2>2, <2>3, CatalogAssumption DEF CommodityRecord
<1> QED BY <1>2 DEF KeptListed

LEMMA GoodsStepKeepsListings ==
  ASSUME GoodsInv, GoodsStep
  PROVE  KeptListed
<1>1. ASSUME UNCHANGED commodities
      PROVE  KeptListed
  BY <1>1 DEF KeptListed
<1>2. ASSUME NEW m \in Merchants, MerchantStep(m)
      PROVE  KeptListed
  <2>1. CASE ListMyCommodities(m)
    BY <2>1, <1>1 DEF ListMyCommodities
  <2>2. ASSUME NEW c \in Commodities, NEW t \in Types, NEW price \in Prices,
               NEW stock \in Stocks, AddCommodity(m, c, t, price, stock)
        PROVE  KeptListed
    BY <2>2, AddCommodityKeepsListings
  <2>3. ASSUME NEW c \in Commodities, NEW price \in Prices, ModifyPrice(m, c, price)
        PROVE  KeptListed
    BY <2>3, ModifyPriceKeepsListings
  <2>4. ASSUME NEW c \in Commodities, NEW stock \in Stocks, ModifyStock(m, c, stock)
        PROVE  KeptListed
    BY <2>4, ModifyStockKeepsListings
  <2>5. ASSUME NEW c \in Commodities, NEW d \in Discounts, ModifyDiscount(m, c, d)
        PROVE  KeptListed
    BY <2>5, ModifyDiscountKeepsListings
  <2>6. ASSUME NEW t \in Types, NEW d \in Discounts, BatchModifyDiscount(m, t, d)
        PROVE  KeptListed
    BY <2>6, BatchModifyDiscountKeepsListings
  <2> QED BY <1>2, <2>1, <2>2, <2>3, <2>4, <2>5, <2>6 DEF MerchantStep
<1>3. ASSUME NEW S \in SUBSET Commodities, SearchCommodities(S)
      PROVE  KeptListed
  BY <1>3, <1>1 DEF SearchCommodities
<1>4. ASSUME NEW u \in Users, NEW c \in Commodities, RefusedRequest(u, c)
      PROVE  KeptListed
  BY <1>4, <1>1 DEF RefusedRequest
<1> QED BY <1>2, <1>3, <1>4 DEF GoodsStep

\* A name once listed keeps its row, its merchant and its type: addCommodity,
\* which looks in a map that a restart empties, replaces nothing.
THEOREM ListingsAreKept == CatalogSpec => ListingsKept
<1>1. CatalogInv /\ [CatalogNext]_catalogVars => [KeptListed]_catalogVars
  <2> SUFFICES ASSUME CatalogInv, CatalogNext PROVE KeptListed
    OBVIOUS
  <2>1. CASE AccountStep
    BY <2>1 DEF AccountStep, goodsVars, KeptListed
  <2>2. CASE GoodsStep
    BY <2>2, GoodsStepKeepsListings DEF CatalogInv
  <2>3. CASE RestartCatalog
    BY <2>3 DEF RestartCatalog, KeptListed
  <2> QED BY <2>1, <2>2, <2>3 DEF CatalogNext
<1>2. ListingsKept <=> [][KeptListed]_catalogVars
  BY DEF ListingsKept, KeptListed
<1> QED BY CatalogKeepsInv, <1>1, <1>2, PTL DEF CatalogSpec

-----------------------------------------------------------------------------

\* What OwnGoodsOnly says of a step of merchant m.
OnlyTheirs(m) ==
  \A c \in Commodities :
    /\ commodities[c] # None /\ commodities'[c] # commodities[c]
         => commodities[c].merchant = m
    /\ commodityCache[c] # None /\ commodityCache'[c] # commodityCache[c]
         => commodityCache[c].merchant = m

\* A request about one commodity, of its merchant.
LEMMA OwnCommodityIsTheirs ==
  ASSUME GoodsInv, NEW m \in Merchants, NEW c \in Commodities, OwnCommodity(m, c),
         NEW row, NEW object,
         commodities' = [commodities EXCEPT ![c] = row],
         commodityCache' = [commodityCache EXCEPT ![c] = object]
  PROVE  OnlyTheirs(m)
<1>1. Found(c) # None /\ Found(c).merchant = m
  BY DEF OwnCommodity
<1>2. commodities[c] # None /\ commodities[c].merchant = m
  BY <1>1, FoundIsPriced DEF SamePricing
<1>3. commodityCache[c] # None => commodityCache[c].merchant = m
  BY <1>1, FoundIsPriced
<1>4. \A d \in Commodities : d # c => /\ commodities'[d] = commodities[d]
                                      /\ commodityCache'[d] = commodityCache[d]
  BY DEF GoodsInv, Priced
<1> QED BY <1>2, <1>3, <1>4 DEF OnlyTheirs

LEMMA MerchantStepIsTheirs ==
  ASSUME GoodsInv, NEW m \in Merchants, MerchantStep(m)
  PROVE  OnlyTheirs(m)
<1>1. CASE ListMyCommodities(m)
  BY <1>1 DEF ListMyCommodities, CacheWithGoods, Found, GoodsInv, Priced, OnlyTheirs
<1>2. ASSUME NEW c \in Commodities, NEW t \in Types, NEW price \in Prices,
             NEW stock \in Stocks, AddCommodity(m, c, t, price, stock)
      PROVE  OnlyTheirs(m)
  <2>1. commodities[c] = None /\ commodityCache[c] = None
    BY <1>2 DEF AddCommodity, Listed
  <2>2. \A d \in Commodities : d # c => /\ commodities'[d] = commodities[d]
                                        /\ commodityCache'[d] = commodityCache[d]
    BY <1>2 DEF AddCommodity, GoodsInv, Priced
  <2> QED BY <2>1, <2>2 DEF OnlyTheirs
<1>3. ASSUME NEW c \in Commodities, NEW price \in Prices, ModifyPrice(m, c, price)
      PROVE  OnlyTheirs(m)
  <2>1. OwnCommodity(m, c)
    BY <1>3 DEF ModifyPrice
  <2> DEFINE row == [commodities[c] EXCEPT !.basePrice = price]
             object == [Found(c) EXCEPT !.basePrice = price]
  <2>2. commodities' = [commodities EXCEPT ![c] = row]
    BY <1>3 DEF ModifyPrice, GoodsInv, Priced
  <2>3. commodityCache' = [commodityCache EXCEPT ![c] = object]
    BY <1>3, <2>1, OwnCommodityIsListed DEF ModifyPrice, GoodsInv, Priced
  <2> HIDE DEF row, object
  <2> QED BY <2>1, <2>2, <2>3, OwnCommodityIsTheirs
<1>4. ASSUME NEW c \in Commodities, NEW stock \in Stocks, ModifyStock(m, c, stock)
      PROVE  OnlyTheirs(m)
  <2>1. OwnCommodity(m, c)
    BY <1>4 DEF ModifyStock
  <2> DEFINE row == [commodities[c] EXCEPT !.storage = stock]
             object == [Found(c) EXCEPT !.storage = stock]
  <2>2. commodities' = [commodities EXCEPT ![c] = row]
    BY <1>4 DEF ModifyStock, GoodsInv, Priced
  <2>3. commodityCache' = [commodityCache EXCEPT ![c] = object]
    BY <1>4, <2>1, OwnCommodityIsListed DEF ModifyStock, GoodsInv, Priced
  <2> HIDE DEF row, object
  <2> QED BY <2>1, <2>2, <2>3, OwnCommodityIsTheirs
<1>5. ASSUME NEW c \in Commodities, NEW d \in Discounts, ModifyDiscount(m, c, d)
      PROVE  OnlyTheirs(m)
  <2>1. OwnCommodity(m, c)
    BY <1>5 DEF ModifyDiscount
  <2> DEFINE row == [commodities[c] EXCEPT !.discount = d]
             object == [Found(c) EXCEPT !.discount = d]
  <2>2. commodities' = [commodities EXCEPT ![c] = row]
    BY <1>5 DEF ModifyDiscount, GoodsInv, Priced
  <2>3. commodityCache' = [commodityCache EXCEPT ![c] = object]
    BY <1>5, <2>1, OwnCommodityIsListed DEF ModifyDiscount, GoodsInv, Priced
  <2> HIDE DEF row, object
  <2> QED BY <2>1, <2>2, <2>3, OwnCommodityIsTheirs
<1>6. ASSUME NEW t \in Types, NEW d \in Discounts, BatchModifyDiscount(m, t, d)
      PROVE  OnlyTheirs(m)
  BY <1>6 DEF BatchModifyDiscount, Discounted, Batch, OwnedBy, CachedBatch, OnlyTheirs
<1> QED BY <1>1, <1>2, <1>3, <1>4, <1>5, <1>6 DEF MerchantStep

\* No request of a merchant, single or batch, changes the row or the object of
\* another merchant's commodity, although the one finds its commodity through
\* an object and the other picks rows and objects by two different conditions.
THEOREM MerchantsKeepToTheirGoods == CatalogSpec => OwnGoodsOnly
<1>1. CatalogInv /\ [CatalogNext]_catalogVars =>
        [\A m \in Merchants : MerchantStep(m) => OnlyTheirs(m)]_catalogVars
  BY MerchantStepIsTheirs DEF CatalogInv
<1>2. OwnGoodsOnly <=>
        [][\A m \in Merchants : MerchantStep(m) => OnlyTheirs(m)]_catalogVars
  BY DEF OwnGoodsOnly, OnlyTheirs
<1> QED BY CatalogKeepsInv, <1>1, <1>2, PTL DEF CatalogSpec

=============================================================================
