SPECIFICATION MCSpec
CONSTANTS
  None = None
  Nil = Nil
  Parts = {"client"}
  Selections = {d, m, o}
  Default = d
  OpenAi = {TRUE}
  MaxActs = 2
  Tools = {"pembelian", "stok", "produk", "transaksi", "riwayat", "piutang", "detail", "velocity"}
  Filters = {"sales", "refund", "other"}
  Row <- MCRow
  Rows0 = {0, 3, 5, 6}
  PageSize <- MCPageSize
  ScanPages <- MCScanPages
  ScanDays = 731
  MaxPage = 5
  Capacity = 3
  DetailMax = 2
  Focus = 1
  MaxRefetches = 1
  MaxPaid = 1
  Operations <- Registered
  Values <- MCValues
  Changes <- MCChanges
  SafeInteger = 150
  Unset = Unset
  Days = {906, 907, 908}
  MonthStart <- MCMonthStart
  Dates = {540, 542, 877, 901, 905, 906, 907, 908}
  Sizes = {0, 1, 3}
  MaxText = 2
  Orders = {"terlaris", "kurang_laris"}
  Statuses = {"semua", "completed"}
  Customers = {1}
  Outlets = {7}
  Words = {"", "a", "b"}
  NoWord = ""
CHECK_DEADLOCK FALSE
INVARIANT NoRetryCodesAreNotRetried
